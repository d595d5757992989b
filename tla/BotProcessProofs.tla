-------------------------- MODULE BotProcessProofs --------------------------
(***************************************************************************)
(* Proofs about one process of the bot.  The read cache is treated on its  *)
(* own: CacheInv is inductive for ReadCache.  Every step of the process is *)
(* a step of ReadCache or leaves it alone, for which the plans must only   *)
(* read keys of the cache; so the process inherits what ReadCache keeps.   *)
(* Then the drains at shutdown, the groups that are known, the types, and  *)
(* that the answer of last resort is given for want of any other.          *)
(***************************************************************************)
EXTENDS BotProcess, SequenceTheorems, TLAPS

-----------------------------------------------------------------------------
(* The cache                                                               *)

LEMMA CacheInitial == CacheInit => CacheInv
BY CacheAssumption
   DEF CacheInit, CacheInv, CacheTypeOK, Ordered, OnlyLateFillsAreStale, Absent, Entries, Reads

LEMMA HitKeeps == ASSUME CacheInv, NEW k \in Keys, Hit(k) PROVE CacheInv'
BY CacheAssumption
   DEF Hit, Usable, CacheInv, CacheTypeOK, Ordered, OnlyLateFillsAreStale, Absent, Entries, Reads

LEMMA SelectKeeps == ASSUME CacheInv, NEW k \in Keys, Select(k) PROVE CacheInv'
<1>1. /\ reading' = [key |-> k, value |-> table[k], late |-> FALSE]
      /\ UNCHANGED <<table, entry, served, clearedAt>>
  BY DEF Select
<1>2. CacheTypeOK'
  BY <1>1 DEF CacheInv, CacheTypeOK, Reads
<1>3. Ordered'
  BY <1>1 DEF CacheInv, CacheTypeOK, Ordered
<1> QED
  BY <1>1, <1>2, <1>3 DEF CacheInv, OnlyLateFillsAreStale

LEMMA StoreKeeps == ASSUME CacheInv, Store PROVE CacheInv'
<1> DEFINE k == reading.key
<1>1. /\ reading \in Reads /\ reading' = NoRead
      /\ UNCHANGED <<table, clearedAt>> /\ served' = [served EXCEPT ![k] = reading.value]
      /\ served[k] <= reading.value /\ reading.value <= table[k]
      /\ ~reading.late => clearedAt[k] <= reading.value
  BY DEF Store, CacheInv, CacheTypeOK, Ordered
<1>2. k \in Keys /\ reading.value \in Nat /\ reading.late \in BOOLEAN
  BY <1>1 DEF Reads
<1>3. NewEntry \in Entries /\ NewEntry.value = reading.value /\ NewEntry.late = reading.late
  BY <1>2, CacheAssumption DEF NewEntry, Entries
<1>4. CASE entry' = [entry EXCEPT ![k] = NewEntry]
  BY <1>1, <1>2, <1>3, <1>4 DEF CacheInv, CacheTypeOK, Ordered, OnlyLateFillsAreStale
<1>5. CASE entry' = entry /\ ~Keeps(k, reading.value)
  <2>1. reading.value = 0 BY <1>5 DEF Keeps, Absent
  <2>2. served[k] = 0 BY <1>1, <1>2, <2>1 DEF CacheInv, CacheTypeOK
  <2>3. served' = served BY <1>1, <1>2, <2>1, <2>2 DEF CacheInv, CacheTypeOK
  <2> QED BY <1>1, <1>5, <2>3 DEF CacheInv, CacheTypeOK, Ordered, OnlyLateFillsAreStale
<1> QED
  BY <1>4, <1>5 DEF Store

LEMMA ClearKeeps == ASSUME CacheInv, Clear PROVE CacheInv'
<1>1. CASE reading = NoRead
  BY <1>1 DEF Clear, CacheInv, CacheTypeOK, Ordered, OnlyLateFillsAreStale
<1>2. CASE reading # NoRead
  <2>1. reading \in Reads BY <1>2 DEF CacheInv, CacheTypeOK
  <2>2. /\ reading' \in Reads /\ reading'.key = reading.key
        /\ reading'.value = reading.value /\ reading'.late
    BY <1>2, <2>1 DEF Clear, Reads
  <2> QED
    BY <1>2, <2>2 DEF Clear, CacheInv, CacheTypeOK, Ordered, OnlyLateFillsAreStale
<1> QED BY <1>1, <1>2

LEMMA ChangeKeeps == ASSUME CacheInv, NEW k \in Keys, Change(k) PROVE CacheInv'
BY CacheAssumption
   DEF Change, CacheInv, CacheTypeOK, Ordered, OnlyLateFillsAreStale, Absent, Entries, Reads

LEMMA PassKeeps == ASSUME CacheInv, Pass PROVE CacheInv'
BY CacheAssumption
   DEF Pass, CacheInv, CacheTypeOK, Ordered, OnlyLateFillsAreStale, Absent, Entries, Reads

LEMMA CacheStep == ASSUME CacheInv, [CacheNext]_cacheVars PROVE CacheInv'
<1>1. CASE UNCHANGED cacheVars
  BY <1>1 DEF cacheVars, CacheInv, CacheTypeOK, Ordered, OnlyLateFillsAreStale
<1>2. CASE ReadFails
  BY <1>2, CacheAssumption
     DEF ReadFails, CacheInv, CacheTypeOK, Ordered, OnlyLateFillsAreStale, Reads
<1> QED
  BY <1>1, <1>2, HitKeeps, SelectKeeps, StoreKeeps, ClearKeeps, ChangeKeeps, PassKeeps
     DEF CacheNext

\* Entries and reads of the cache stay within what was served, cleared and committed.
THEOREM CacheInvariant == CacheSpec => []CacheInv
<1>1. CacheInit => CacheInv BY CacheInitial
<1>2. CacheInv /\ [CacheNext]_cacheVars => CacheInv' BY CacheStep
<1> QED BY <1>1, <1>2, PTL DEF CacheSpec

LEMMA ReadsAdvance ==
  ASSUME CacheInv, [CacheNext]_cacheVars
  PROVE  [\A k \in Keys : served'[k] >= served[k]]_cacheVars
<1>0. /\ served \in [Keys -> Nat]
      /\ \A k \in Keys : entry[k] # NoEntry => entry[k].value = served[k]
      /\ reading # NoRead => reading \in Reads /\ served[reading.key] <= reading.value
  BY DEF CacheInv, CacheTypeOK, Ordered
<1>1. CASE UNCHANGED cacheVars BY <1>1
<1>2. ASSUME NEW k \in Keys, Hit(k) PROVE \A q \in Keys : served'[q] >= served[q]
  BY <1>0, <1>2 DEF Hit, Usable
<1>3. CASE Store BY <1>0, <1>3 DEF Store, Reads
<1>4. CASE UNCHANGED served BY <1>0, <1>4
<1> QED
  BY <1>1, <1>2, <1>3, <1>4 DEF CacheNext, Select, Change, ReadFails, Clear, Pass

-----------------------------------------------------------------------------
(* The plans                                                               *)

\* What a plan for update u is made of: only keys of the cache are read, and EnsureUser is
\* only called for a sender with an id.  A quiet plan reads no response.
QuietSteps(u) ==
  {[step |-> "event"], [step |-> "fanout"], [step |-> "exec"], [step |-> "read", key |-> Whitelist]}
  \cup {[step |-> "ensure"] : x \in {u.user} \cap Users}

StepsFor(u) == QuietSteps(u) \cup {[step |-> "read", key |-> k] : k \in Keys}

Quiet(u, p) == p.todo \in Seq(QuietSteps(u)) /\ p.reply \notin {"unknown", "fallback"}

Fit(u, plans) == \A p \in plans : Quiet(u, p)

\* The other plans are those for a text that matches no strain.
Asking(u) == (IF u.key = NoKey THEN <<>> ELSE Get(u.key)) \o Get(Default) \o Event

Unmatched(u, p) ==
  /\ u.kind = "text" /\ u.user \in Users
  /\ p = Plan(Ensure \o (Event \o Asking(u)), "unknown")

LEMMA Pieces ==
  ASSUME NEW u
  PROVE  /\ Event \in Seq(QuietSteps(u)) /\ FanOut \in Seq(QuietSteps(u)) /\ Exec \in Seq(QuietSteps(u))
         /\ Get(Whitelist) \in Seq(QuietSteps(u))
         /\ u.user \in Users => Ensure \in Seq(QuietSteps(u))
         /\ \A r \in EventRuns : r \in Seq(QuietSteps(u))
<1>1. /\ [step |-> "event"] \in QuietSteps(u) /\ [step |-> "fanout"] \in QuietSteps(u)
      /\ [step |-> "exec"] \in QuietSteps(u)
      /\ [step |-> "read", key |-> Whitelist] \in QuietSteps(u)
      /\ u.user \in Users => [step |-> "ensure"] \in QuietSteps(u)
  BY DEF QuietSteps
<1>2. \A x \in QuietSteps(u) : <<x>> \in Seq(QuietSteps(u))
  OBVIOUS
<1>3. ASSUME NEW n \in 0 .. MaxItems
      PROVE  [i \in 1 .. n |-> [step |-> "event"]] \in Seq(QuietSteps(u))
  <2> n \in Nat BY ProcessAssumption
  <2> QED BY <1>1
<1> QED
  BY <1>1, <1>2, <1>3 DEF Event, FanOut, Exec, Ensure, Get, EventRuns

LEMMA TodoOf == \A t, r : Plan(t, r).todo = t
BY DEF Plan

LEMMA ReplyOf == \A t, r : Plan(t, r).reply = r
BY DEF Plan

LEMMA NothingFits == ASSUME NEW u PROVE <<>> \in Seq(QuietSteps(u)) /\ <<>> \in Seq(StepsFor(u))
OBVIOUS

LEMMA QuietIsRead ==
  ASSUME NEW u, NEW steps \in Seq(QuietSteps(u))
  PROVE  steps \in Seq(StepsFor(u))
<1>1. QuietSteps(u) \subseteq StepsFor(u) BY DEF StepsFor
<1>2. steps \in [1 .. Len(steps) -> StepsFor(u)] /\ Len(steps) \in Nat BY <1>1
<1> QED BY <1>2

LEMMA BeforeFits ==
  ASSUME NEW u, NEW steps \in Seq(QuietSteps(u)), NEW plans, Fit(u, plans)
  PROVE  Fit(u, Before(steps, plans))
<1>1. \A p \in plans : steps \o p.todo \in Seq(QuietSteps(u))
  BY ConcatProperties DEF Fit, Quiet
<1>2. ASSUME NEW p \in Before(steps, plans) PROVE Quiet(u, p)
  <2>1. PICK q \in plans : p = Plan(steps \o q.todo, q.reply) BY DEF Before
  <2>2. p.todo = steps \o q.todo /\ p.reply = q.reply BY <2>1, TodoOf, ReplyOf
  <2> QED BY <1>1, <2>2 DEF Fit, Quiet
<1> QED BY <1>2 DEF Fit

LEMMA PlanFits ==
  ASSUME NEW u, NEW r, r \notin {"unknown", "fallback"}, NEW steps \in Seq(QuietSteps(u))
  PROVE  Fit(u, {Plan(steps, r)})
BY TodoOf, ReplyOf DEF Fit, Quiet

LEMMA EndsFit ==
  ASSUME NEW u
  PROVE  /\ Fit(u, {}) /\ Fit(u, Silence) /\ Fit(u, Failure) /\ Fit(u, NoMatch) /\ Fit(u, EmptyQuery(u))
         /\ \A r : r \notin {"unknown", "fallback"} => Fit(u, {Plan(<<>>, r)})
<1>1. ASSUME NEW r, r \notin {"unknown", "fallback"} PROVE Fit(u, {Plan(<<>>, r)})
  BY <1>1, PlanFits, NothingFits
<1>2. /\ "none" \notin {"unknown", "fallback"} /\ "error" \notin {"unknown", "fallback"}
      /\ "no match" \notin {"unknown", "fallback"} /\ "please provide" \notin {"unknown", "fallback"}
  OBVIOUS
<1>3. Fit(u, {}) BY DEF Fit
<1> QED BY <1>1, <1>2, <1>3 DEF Silence, Failure, NoMatch, EmptyQuery

LEMMA EventsFit ==
  ASSUME NEW u, NEW r, r \notin {"unknown", "fallback"}, NEW steps \in Seq(QuietSteps(u))
  PROVE  Fit(u, {Plan(e \o steps, r) : e \in EventRuns}) /\ Fit(u, {Plan(e, r) : e \in EventRuns})
<1>1. ASSUME NEW p \in {Plan(e \o steps, r) : e \in EventRuns} PROVE Quiet(u, p)
  <2>1. PICK e \in EventRuns : p = Plan(e \o steps, r) OBVIOUS
  <2>2. e \o steps \in Seq(QuietSteps(u)) BY Pieces, ConcatProperties
  <2> QED BY <2>1, <2>2, TodoOf, ReplyOf DEF Quiet
<1>2. ASSUME NEW p \in {Plan(e, r) : e \in EventRuns} PROVE Quiet(u, p)
  <2>1. PICK e \in EventRuns : p = Plan(e, r) OBVIOUS
  <2>2. e \in Seq(QuietSteps(u)) BY Pieces
  <2> QED BY <2>1, <2>2, TodoOf, ReplyOf DEF Quiet
<1> QED BY <1>1, <1>2 DEF Fit

LEMMA EnsuredFits ==
  ASSUME NEW u, u.user \in Users \cup {Nobody}, NEW plans, Fit(u, plans)
  PROVE  Fit(u, Ensured(u, plans))
<1>1. CASE u.user = Nobody
  <2>1. Fit(u, Failure) BY EndsFit
  <2> QED BY <1>1, <2>1, Pieces, BeforeFits DEF Ensured
<1>2. CASE u.user # Nobody
  BY <1>2, Pieces, BeforeFits DEF Ensured
<1> QED BY <1>1, <1>2

LEMMA UnionFits ==
  ASSUME NEW u, NEW P, NEW Q, Fit(u, P), Fit(u, Q)
  PROVE  Fit(u, P \cup Q)
BY DEF Fit

LEMMA LookupFits ==
  ASSUME NEW u, NEW nothing, Fit(u, nothing)
  PROVE  Fit(u, Lookup(u, nothing))
<1>1. FanOut \o Event \in Seq(QuietSteps(u)) BY Pieces, ConcatProperties
<1>2. /\ Fit(u, {Plan(FanOut \o Event, "card")}) /\ Fit(u, {Plan(FanOut \o Event, "list")})
  BY <1>1, PlanFits
<1>3. Fit(u, Before(Event, nothing)) BY Pieces, BeforeFits
<1>4. Fit(u, {Plan(<<>>, "sorry")}) /\ Fit(u, {Plan(<<>>, "list")}) /\ Fit(u, {})
  BY EndsFit
<1> QED BY <1>2, <1>3, <1>4 DEF Lookup, Fit

LEMMA UrlFits == ASSUME NEW u PROVE Fit(u, Url(u))
<1>2. Event \in Seq(QuietSteps(u)) /\ Event \o Event \in Seq(QuietSteps(u)) /\ Get(Whitelist) \in Seq(QuietSteps(u))
  BY Pieces, ConcatProperties, ProcessAssumption
<1>3. Fit(u, Checked \cup Failure)
  <2>1. Fit(u, {Plan(e \o Event, "strains") : e \in EventRuns}) BY <1>2, EventsFit
  <2>2. Fit(u, Checked) BY <2>1, EndsFit, UnionFits DEF Checked
  <2> QED BY <2>2, EndsFit, UnionFits
<1>4. Fit(u, Extracted)
  <2>1. Fit(u, Before(Event, Checked \cup Failure)) BY <1>2, <1>3, BeforeFits
  <2>2. Fit(u, Before(Event \o Event, Checked \cup Failure)) BY <1>2, <1>3, BeforeFits
  <2> QED BY <2>1, <2>2, UnionFits DEF Extracted
<1>5. Fit(u, Failure \cup {Plan(<<>>, "unreadable")} \cup Extracted)
  BY <1>4, EndsFit, UnionFits
<1> QED BY <1>2, <1>5, BeforeFits DEF Url

LEMMA CommandFits == ASSUME NEW u PROVE Fit(u, Command(u))
<1>1. Event \in Seq(QuietSteps(u)) /\ Exec \o Event \in Seq(QuietSteps(u))
  BY Pieces, ConcatProperties
<1>2. Fit(u, Policy)
  BY <1>1, EndsFit, UnionFits, BeforeFits DEF Policy
<1>3. Fit(u, Subscribe)
  BY <1>1, EndsFit, UnionFits, PlanFits DEF Subscribe
<1>4. Fit(u, Lookup(u, NoMatch))
  BY EndsFit, LookupFits
<1>5. Fit(u, CASE u.command = "start" /\ u.argument = "strain" -> Lookup(u, NoMatch)
      [] u.command = "start" /\ u.argument = "dashes" -> EmptyQuery(u)
      [] u.command = "start" /\ u.argument = "none" /\ InGroup(u) -> Silence
      [] u.command = "subscribe" -> Subscribe
      [] OTHER -> Policy)
  BY <1>2, <1>3, <1>4, EndsFit
<1> QED BY <1>1, <1>5, BeforeFits DEF Command

LEMMA BareFits == ASSUME NEW u PROVE Fit(u, Bare(u)) /\ Fit(u, ChatMember(u))
<1>1. /\ Fit(u, Silence) /\ Fit(u, Silence \cup Failure)
      /\ Fit(u, Before(Event, Silence)) /\ Fit(u, Before(Event, Silence \cup Failure))
      /\ Fit(u, Silence \cup Before(Event, Silence))
  BY EndsFit, UnionFits, Pieces, BeforeFits
<1> QED BY <1>1 DEF Bare, Member, Empty, ChatMember

LEMMA CallbackFits ==
  ASSUME NEW u, u.user \in Users \cup {Nobody}
  PROVE  Fit(u, Callback(u))
<1>1. Fit(u, {Plan(e, "pressed") : e \in EventRuns}) BY Pieces, EventsFit
<1>2. /\ Fit(u, Before(Event, {Plan(e, "pressed") : e \in EventRuns}))
      /\ Fit(u, {Plan(<<>>, "expired")}) /\ Fit(u, Before(Event, {Plan(<<>>, "expired")}))
      /\ Fit(u, Failure) /\ Fit(u, Before(Event, Failure))
  BY <1>1, EndsFit, Pieces, BeforeFits
<1>3. Fit(u, Silence) BY EndsFit
<1> DEFINE told == Before(Event, {Plan(e, "pressed") : e \in EventRuns})
           expired == {Plan(<<>>, "expired")} \cup Before(Event, {Plan(<<>>, "expired")})
           unanswered == Failure \cup Before(Event, Failure)
<1>4. Fit(u, expired \cup told \cup unanswered)
  BY <1>2, UnionFits
<1>5. Fit(u, Ensured(u, expired \cup told \cup unanswered))
  BY <1>4, EnsuredFits
<1> QED BY <1>3, <1>5 DEF Callback

LEMMA InlineFits ==
  ASSUME NEW u, u.user \in Users \cup {Nobody}
  PROVE  Fit(u, Inline(u))
<1> DEFINE sent == {Plan(<<>>, "results")} \cup Failure
<1>1. Fit(u, sent) BY EndsFit, UnionFits
<1>2. Fit(u, sent \cup Before(Event, sent)) BY <1>1, Pieces, BeforeFits, UnionFits
<1> QED BY <1>2, EnsuredFits DEF Inline

\* Lookup, with a text without a match set apart.
LEMMA LookupSplits ==
  ASSUME NEW u, NEW nothing
  PROVE  Lookup(u, nothing) = Lookup(u, {}) \cup Before(Event, nothing)
<1>1. Before(Event, {}) = {} BY DEF Before
<1> QED BY <1>1 DEF Lookup

LEMMA PlansForText ==
  ASSUME NEW u, u.kind = "text", u.user \in Users \cup {Nobody}
  PROVE  \A p \in Plans(u) : Quiet(u, p) \/ Unmatched(u, p)
<1>1. Plans(u) = Ensured(u, Lookup(u, Unknown(u))) BY DEF Plans
<1>2. CASE u.user = Nobody
  <2>1. Fit(u, Before(Event, Failure)) BY EndsFit, Pieces, BeforeFits
  <2> QED BY <1>1, <1>2, <2>1 DEF Ensured, Fit
<1>3. CASE u.user # Nobody
  <2>1. Plans(u) = Before(Ensure, Lookup(u, {}) \cup Before(Event, Unknown(u)))
    BY <1>1, <1>3, LookupSplits DEF Ensured
  <2>2. Fit(u, Lookup(u, {})) BY EndsFit, LookupFits
  <2>3. Fit(u, Before(Ensure, Lookup(u, {}))) BY <1>3, <2>2, Pieces, BeforeFits
  <2>4. ASSUME NEW p \in Before(Event, Unknown(u))
        PROVE  p.todo = Event \o Asking(u) /\ p.reply = "unknown"
    <3>1. PICK q \in Unknown(u) : p = Plan(Event \o q.todo, q.reply) BY DEF Before
    <3>2. q = Plan(Asking(u), "unknown") BY DEF Unknown, Asking
    <3>3. q.todo = Asking(u) /\ q.reply = "unknown" BY <3>2, TodoOf, ReplyOf
    <3>4. p = Plan(Event \o Asking(u), "unknown") BY <3>1, <3>3
    <3> QED BY <3>4, TodoOf, ReplyOf
  <2>5. ASSUME NEW p \in Plans(u)
        PROVE  p \in Before(Ensure, Lookup(u, {})) \/ Unmatched(u, p)
    <3>1. PICK q \in Lookup(u, {}) \cup Before(Event, Unknown(u)) : p = Plan(Ensure \o q.todo, q.reply)
      BY <2>1 DEF Before
    <3>2. CASE q \in Lookup(u, {}) BY <3>1, <3>2 DEF Before
    <3>3. CASE q \in Before(Event, Unknown(u)) BY <1>3, <2>4, <3>1, <3>3 DEF Unmatched
    <3> QED BY <3>1, <3>2, <3>3
  <2> QED BY <2>3, <2>5 DEF Fit
<1> QED BY <1>2, <1>3

LEMMA PlansFit ==
  ASSUME NEW u \in Updates, NEW p \in Plans(u)
  PROVE  Quiet(u, p) \/ Unmatched(u, p)
<1>1. /\ u.user \in Users \cup {Nobody}
      /\ u.kind \in {"command", "text", "url", "bare", "callback", "inline", "chat_member"}
  BY ProcessAssumption
<1> USE DEF Fit
<1>2. CASE u.kind = "command" BY <1>1, <1>2, CommandFits, EnsuredFits DEF Plans
<1>3. CASE u.kind = "text" BY <1>1, <1>3, PlansForText
<1>4. CASE u.kind = "url" BY <1>1, <1>4, UrlFits, EnsuredFits DEF Plans
<1>5. CASE u.kind = "bare" BY <1>5, BareFits DEF Plans
<1>6. CASE u.kind = "callback" BY <1>1, <1>6, CallbackFits DEF Plans
<1>7. CASE u.kind = "inline" BY <1>1, <1>7, InlineFits DEF Plans
<1>8. CASE u.kind = "chat_member" BY <1>8, BareFits DEF Plans
<1> QED BY <1>1, <1>2, <1>3, <1>4, <1>5, <1>6, <1>7, <1>8

LEMMA AskingReads ==
  ASSUME NEW u \in Updates, u.kind = "text"
  PROVE  Asking(u) \in Seq(StepsFor(u))
<1>1. u.key \in Keys \cup {NoKey} BY ProcessAssumption
<1>2. \A k \in Keys : [step |-> "read", key |-> k] \in StepsFor(u) BY DEF StepsFor
<1>3. \A k \in Keys : Get(k) \in Seq(StepsFor(u))
  <2>1. \A x \in StepsFor(u) : <<x>> \in Seq(StepsFor(u)) OBVIOUS
  <2> QED BY <1>2, <2>1 DEF Get
<1>4. Event \in Seq(StepsFor(u)) /\ <<>> \in Seq(StepsFor(u)) BY Pieces, NothingFits, QuietIsRead
<1>5. Get(Default) \in Seq(StepsFor(u)) /\ (IF u.key = NoKey THEN <<>> ELSE Get(u.key)) \in Seq(StepsFor(u))
  BY <1>1, <1>3, <1>4, ProcessAssumption
<1> QED BY <1>4, <1>5, ConcatProperties DEF Asking

\* Quiet or not, a plan only reads keys of the cache.
LEMMA PlansRead ==
  ASSUME NEW u \in Updates, NEW p \in Plans(u)
  PROVE  p.todo \in Seq(StepsFor(u))
<1>1. CASE Quiet(u, p) BY <1>1, QuietIsRead DEF Quiet
<1>2. CASE Unmatched(u, p)
  <2>1. u.kind = "text" /\ u.user \in Users /\ p.todo = Ensure \o (Event \o Asking(u))
    BY <1>2, TodoOf DEF Unmatched
  <2>2. Ensure \in Seq(StepsFor(u)) /\ Event \in Seq(StepsFor(u)) BY <2>1, Pieces, QuietIsRead
  <2> QED BY <2>1, <2>2, AskingReads, ConcatProperties
<1> QED BY <1>1, <1>2, PlansFit

LEMMA AfterReadFits ==
  ASSUME NEW u, NEW p, p.todo \in Seq(StepsFor(u)), p.todo # <<>>, NEW found \in BOOLEAN
  PROVE  AfterRead(u, p, found).todo \in Seq(StepsFor(u))
<1>1. /\ Tail(p.todo) \in Seq(StepsFor(u)) /\ Event \in Seq(StepsFor(u)) /\ <<>> \in Seq(StepsFor(u))
  BY Pieces, NothingFits, QuietIsRead
<1>2. AfterRead(u, p, found).todo \in {Tail(p.todo), Event, <<>>}
  <2> DEFINE k == Head(p.todo).key
             rest == Tail(p.todo)
  <2>1. CASE k = Whitelist BY <2>1, TodoOf DEF AfterRead, AfterWhitelist, AfterResponse
  <2>2. CASE k # Whitelist /\ found BY <2>2, TodoOf DEF AfterRead, AfterWhitelist, AfterResponse
  <2>3. CASE k # Whitelist /\ ~found BY <2>3, TodoOf DEF AfterRead, AfterWhitelist, AfterResponse
  <2> QED BY <2>1, <2>2, <2>3
<1> QED BY <1>1, <1>2

-----------------------------------------------------------------------------
(* The process and the cache                                               *)

\* What the router is doing is a plan for its update.
RouterInv ==
  /\ inbox \in Seq(Updates) /\ budget \in Budgets
  /\ router = "busy" => update \in Updates
  /\ plan.todo \in Seq(StepsFor(update))
  /\ fallback # NoChat => router = "busy" /\ plan.todo # <<>>

LEMMA HeadOfPlan ==
  ASSUME RouterInv, NEW s, At(s)
  PROVE  /\ Head(plan.todo) \in StepsFor(update) /\ Tail(plan.todo) \in Seq(StepsFor(update))
         /\ s = "read" => Head(plan.todo).key \in Keys
         /\ s = "ensure" => update.user \in Users
<1>1. Head(plan.todo) \in StepsFor(update) /\ Tail(plan.todo) \in Seq(StepsFor(update))
  BY DEF RouterInv, At
<1>2. Head(plan.todo).step = s BY DEF At
<1> QED BY <1>1, <1>2, ProcessAssumption DEF StepsFor, QuietSteps

LEMMA RouterInitial == Init => RouterInv
<1> SUFFICES ASSUME Init PROVE RouterInv OBVIOUS
<1>1. inbox \in Seq(Updates) /\ budget \in Budgets
  BY ProcessAssumption DEF Init
<1>2. plan.todo \in Seq(StepsFor(update)) BY TodoOf, NothingFits DEF Init, NoPlan
<1>3. fallback = NoChat BY DEF Init, UpsertInit
<1> QED BY <1>1, <1>2, <1>3 DEF RouterInv, Init

LEMMA RouterInvStep ==
  ASSUME RouterInv, [Next]_vars
  PROVE  RouterInv'
<1> USE DEF RouterInv
<1>1. CASE Take
  <2>1. update' \in Updates /\ inbox' \in Seq(Updates) BY <1>1 DEF Take
  <2>2. plan' \in Plans(update') BY <1>1 DEF Take
  <2>3. plan'.todo \in Seq(StepsFor(update')) BY <2>1, <2>2, PlansRead
  <2>4. budget' = budget /\ fallback' = NoChat
    BY <1>1 DEF Take, userVars, upsertVars
  <2> QED BY <2>1, <2>3, <2>4
<1>2. CASE Finish
  <2>1. plan' = NoPlan /\ router' = "idle" /\ UNCHANGED <<inbox, budget>> BY <1>2 DEF Finish
  <2>2. plan'.todo = <<>> BY <2>1, TodoOf DEF NoPlan
  <2>3. fallback' = NoChat BY <1>2 DEF Finish, userVars, upsertVars
  <2> QED BY <2>1, <2>2, <2>3
<1> DEFINE same == UNCHANGED <<inbox, router, update>>
           goesOn == plan'.todo \in Seq(StepsFor(update))
<1>3. ASSUME SpendFail PROVE budget' \in Budgets
  BY <1>3 DEF SpendFail, Budgets
<1>4. ASSUME RouterFails PROVE budget' \in Budgets
  BY <1>3, <1>4 DEF RouterFails
<1>5. ASSUME NEW p, Continue(p), p.todo \in Seq(StepsFor(update)) PROVE same /\ goesOn
  BY <1>5 DEF Continue
<1>6. ASSUME Abort PROVE same /\ goesOn
  BY <1>5, <1>6, TodoOf, NothingFits DEF Abort
<1>7. ASSUME Stay PROVE same /\ goesOn
  BY <1>5, <1>7 DEF Stay
<1>8. ASSUME NEW st, At(st), Proceed PROVE same /\ goesOn
  BY <1>5, <1>8, HeadOfPlan, TodoOf DEF Proceed
<1>9. ASSUME same, goesOn, budget' \in Budgets, fallback' = NoChat PROVE RouterInv'
  BY <1>9
<1>0. ASSUME NEW st, At(st) PROVE router = "busy" /\ plan.todo # <<>> /\ fallback = NoChat
  BY <1>0 DEF At
<1>10. CASE RouterEnsures
  <2>1. At("ensure") BY <1>10 DEF RouterEnsures
  <2>2. (Proceed \/ Stay \/ Abort) /\ (UNCHANGED budget \/ RouterFails)
    BY <1>10 DEF RouterEnsures
  <2>3. CASE EnsureItself(Sender) /\ Stay
    <3>1. UNCHANGED budget \/ budget' \in Budgets BY <2>2, <1>4
    <3> QED BY <2>1, <2>3, <3>1, <1>0 DEF Stay, Continue
  <2>4. CASE ~Stay \/ ~EnsureItself(Sender)
    <3>1. fallback' = NoChat
      BY <1>10, <2>1, <2>4, <1>0
         DEF RouterEnsures, EnsureQueued, EnsureItself, EnsureAnswerLost, EnsureFails, upsertVars,
             Sender, InGroup
    <3> QED BY <2>1, <2>2, <3>1, <1>4, <1>6, <1>7, <1>8, <1>9
  <2> QED BY <2>3, <2>4
<1>11. CASE RouterRecordsChat
  <2>1. fallback # NoChat /\ fallback' = NoChat
    BY <1>11 DEF RouterRecordsChat, FallbackRecordsChat, FallbackChatFails
  <2>2. Tail(plan.todo) \in Seq(StepsFor(update)) BY <2>1
  <2>3. (Proceed \/ Abort) /\ (UNCHANGED budget \/ RouterFails)
    BY <1>11 DEF RouterRecordsChat
  <2>4. same /\ goesOn BY <2>2, <2>3, <1>5, <1>6, TodoOf DEF Proceed
  <2> QED BY <2>1, <2>3, <2>4, <1>4, <1>9
<1>12. CASE RouterTracks
  <2>1. At("event") /\ Proceed /\ UNCHANGED <<budget, fallback>>
    BY <1>12 DEF RouterTracks, userVars, upsertVars
  <2> QED BY <2>1, <1>0, <1>8, <1>9
<1>13. CASE RouterFansOut
  <2>1. At("fanout") /\ Proceed /\ UNCHANGED <<budget, fallback>> BY <1>13 DEF RouterFansOut
  <2> QED BY <2>1, <1>0, <1>8, <1>9
<1>14. CASE RouterExecs
  <2>1. At("exec") BY <1>14 DEF RouterExecs
  <2>2. (Proceed \/ Abort) /\ (UNCHANGED budget \/ RouterFails) /\ UNCHANGED fallback
    BY <1>14 DEF RouterExecs, userVars, upsertVars
  <2> QED BY <2>1, <2>2, <1>0, <1>4, <1>6, <1>8, <1>9
<1>15. CASE RouterReads
  <2>1. At("read") /\ plan.todo # <<>> BY <1>15 DEF RouterReads, At
  <2>2. ASSUME NEW v, Resume(v) PROVE same /\ goesOn /\ UNCHANGED budget
    <3>1. (v # Absent) \in BOOLEAN OBVIOUS
    <3>2. AfterRead(update, plan, v # Absent).todo \in Seq(StepsFor(update))
      BY <2>1, <3>1, AfterReadFits
    <3> QED BY <2>2, <3>2, <1>5 DEF Resume
  <2>3. \/ \E v : Resume(v)
        \/ Stay /\ UNCHANGED budget
        \/ Abort /\ RouterFails
    BY <1>15 DEF RouterReads
  <2>4. fallback' = NoChat BY <1>15, <2>1, <1>0 DEF RouterReads, userVars, upsertVars
  <2> QED BY <2>2, <2>3, <2>4, <1>4, <1>6, <1>7, <1>9
<1>16. CASE DeferredWorker
  <2>1. UNCHANGED <<inbox, router, update, plan>> /\ (UNCHANGED budget \/ SpendFail)
    BY <1>16 DEF DeferredWorker, routerVars
  <2>2. UNCHANGED fallback
    BY <1>16 DEF DeferredWorker, WorkerTakes, WorkerUpserts, WorkerRecordsChat, WorkerFails,
                 WorkerAnswerLost, WorkerFansOut, WorkerStops
  <2> QED BY <2>1, <2>2, <1>3
<1>20. CASE Ticker
  <2>1. UNCHANGED <<inbox, router, update, plan, fallback>>
    BY <1>20 DEF Ticker, routerVars, userVars, upsertVars
  <2>2. budget' \in Budgets BY <1>20 DEF Ticker, Budgets
  <2> QED BY <2>1, <2>2
<1>17. CASE AnalyticsWorker
  <2>1. UNCHANGED <<inbox, router, update, plan>> /\ (UNCHANGED budget \/ SpendFail)
    BY <1>17 DEF AnalyticsWorker, routerVars
  <2>2. UNCHANGED fallback BY <1>17 DEF AnalyticsWorker, userVars, upsertVars
  <2> QED BY <2>1, <2>2, <1>3
<1>18. CASE LogLine
  <2>1. UNCHANGED <<inbox, router, update, plan, fallback>>
    BY <1>18 DEF LogLine, routerVars, userVars, upsertVars
  <2>2. budget' \in Budgets BY <1>18 DEF LogLine, Budgets
  <2> QED BY <2>1, <2>2
<1>19. CASE RouterStops \/ LogWorker \/ Signal \/ Exit \/ Operators \/ Time \/ UNCHANGED vars
  <2>1. /\ UNCHANGED <<inbox, update, plan, budget, fallback>>
        /\ router' = router \/ (router = "idle" /\ router' = "stopped")
    <3>1. CASE RouterStops BY <3>1 DEF RouterStops, userVars, upsertVars
    <3>2. CASE LogWorker BY <3>2 DEF LogWorker, routerVars, userVars, upsertVars
    <3>3. CASE Signal BY <3>3 DEF Signal, routerVars, userVars, upsertVars
    <3>4. CASE Exit BY <3>4 DEF Exit, routerVars, userVars, upsertVars
    <3>5. CASE Operators BY <3>5 DEF Operators, routerVars, userVars, upsertVars
    <3>6. CASE Time BY <3>6 DEF Time, routerVars, userVars, upsertVars
    <3>7. CASE UNCHANGED vars BY <3>7 DEF vars, routerVars, userVars, upsertVars
    <3> QED BY <1>19, <3>1, <3>2, <3>3, <3>4, <3>5, <3>6, <3>7
  <2> QED BY <2>1
<1> QED
  BY <1>1, <1>2, <1>10, <1>11, <1>12, <1>13, <1>14, <1>15, <1>16, <1>17, <1>18, <1>19, <1>20
     DEF Next, Router

LEMMA CacheIsUsed ==
  ASSUME RouterInv, [Next]_vars
  PROVE  [CacheNext]_cacheVars
<1>1. CASE RouterReads
  <2>1. At("read") BY <1>1 DEF RouterReads
  <2>2. PICK k \in Keys : Hit(k) \/ Select(k) \/ Store \/ ReadFails
    BY <1>1, <2>1, HeadOfPlan DEF RouterReads
  <2> QED BY <2>2 DEF CacheNext
<1>2. CASE Operators
  <2>1. budget.tools \subseteq Keys BY DEF RouterInv, Budgets
  <2> QED BY <1>2, <2>1 DEF Operators, CacheNext
<1>3. CASE Time BY <1>3 DEF Time, CacheNext
<1>4. CASE RouterEnsures \/ RouterRecordsChat \/ RouterFansOut \/ RouterExecs
           \/ DeferredWorker \/ Ticker \/ AnalyticsWorker
  <2>1. Clear \/ UNCHANGED cacheVars
    BY <1>4 DEF RouterEnsures, RouterRecordsChat, RouterFansOut, RouterExecs, DeferredWorker,
                Ticker, AnalyticsWorker
  <2> QED BY <2>1 DEF CacheNext
<1>5. CASE Take \/ Finish \/ RouterStops \/ RouterTracks \/ LogLine \/ LogWorker \/ Signal \/ Exit
           \/ UNCHANGED vars
  BY <1>5 DEF Take, Finish, RouterStops, RouterTracks, LogLine, LogWorker, Signal, Exit, vars
<1> QED BY <1>1, <1>2, <1>3, <1>4, <1>5 DEF Next, Router

\* Whatever the router, the workers, the operators' tools and time do to the cache and to what
\* it caches (database.go, cache.go), in any order, is a step of ReadCache.
THEOREM ProcessImplementsCache == Spec => ImplementsCache
<1>1. Init => RouterInv /\ CacheInit BY RouterInitial DEF Init
<1>2. RouterInv /\ [Next]_vars => RouterInv' BY RouterInvStep
<1>3. RouterInv /\ [Next]_vars => [CacheNext]_cacheVars BY CacheIsUsed
<1> QED BY <1>1, <1>2, <1>3, PTL DEF Spec, ImplementsCache, CacheSpec

\* In a process, an entry of the cache is older than the last clearing only if its SELECT was
\* overtaken by it (database.go:47-70, 40-44).
THEOREM StaleEntriesAreLate == Spec => []OnlyLateFillsAreStale
<1>1. CacheInv => OnlyLateFillsAreStale BY DEF CacheInv
<1> QED BY <1>1, ProcessImplementsCache, CacheInvariant, PTL DEF ImplementsCache

LEMMA CacheTypes == Spec => []CacheTypeOK
<1>1. CacheInv => CacheTypeOK BY DEF CacheInv
<1> QED BY <1>1, ProcessImplementsCache, CacheInvariant, PTL DEF ImplementsCache

\* The answers of one query never go back in time, although the cache may hold an old one.
THEOREM AnswersMoveForward == Spec => ReadsMoveForward
<1>1. CacheInv /\ [CacheNext]_cacheVars => [\A k \in Keys : served'[k] >= served[k]]_cacheVars
  BY ReadsAdvance
<1>2. CacheSpec => ReadsMoveForward
  BY <1>1, CacheInvariant, PTL DEF CacheSpec, ReadsMoveForward
<1> QED BY <1>2, ProcessImplementsCache DEF ImplementsCache

-----------------------------------------------------------------------------
(* Shutdown                                                                *)

\* A worker leaves its loop only when the context is cancelled, which stays so.
DrainInv ==
  /\ Analytics!ChannelTypeOK /\ Log!ChannelTypeOK
  /\ eventWorker # "running" \/ lineWorker # "running" => Cancelled
  /\ EarlyIsDrained

LEMMA DrainInitial == Init => DrainInv
<1> SUFFICES ASSUME Init PROVE DrainInv OBVIOUS
<1>1. /\ eventChan = <<>> /\ eventHand = "none" /\ eventWorker = "running"
      /\ lineChan = <<>> /\ lineHand = "none" /\ lineWorker = "running"
  BY DEF Init, Analytics!ChannelInit, Log!ChannelInit
<1> QED
  BY <1>1, ProcessAssumption
     DEF DrainInv, Analytics!ChannelTypeOK, Log!ChannelTypeOK, Analytics!Items, Log!Items,
         EarlyIsDrained, Analytics!EarlyIsDrained, Log!EarlyIsDrained

LEMMA CancelledStays == ASSUME [Next]_vars, Cancelled PROVE Cancelled'
BY DEF Next, Router, Take, Finish, RouterStops, RouterEnsures, RouterRecordsChat, RouterTracks,
       RouterFansOut, RouterExecs, RouterReads, DeferredWorker, Ticker, AnalyticsWorker, LogLine, LogWorker,
       Signal, Exit, Operators, Time, vars, Cancelled, Proceed, Stay, Abort, Resume, Continue

\* What a step does to the two channels.
LEMMA ChannelSteps ==
  ASSUME [Next]_vars
  PROVE  /\ \/ Analytics!TrySend \/ Analytics!Receive \/ Analytics!Process
            \/ Analytics!NoticeStop \/ Analytics!StopEmpty \/ UNCHANGED eventVars
         /\ \/ Log!TrySend \/ Log!Receive \/ Log!Process
            \/ Log!NoticeStop \/ Log!StopEmpty \/ UNCHANGED lineVars
<1>1. CASE Router
  BY <1>1 DEF Router, Take, Finish, RouterStops, RouterEnsures, RouterRecordsChat, RouterTracks,
              TrackEvent, RouterFansOut, RouterExecs, RouterReads, Proceed, Stay, Abort, Resume,
              Continue
<1>2. CASE DeferredWorker \/ Ticker BY <1>2 DEF DeferredWorker, Ticker, TrackEvent
<1>3. CASE AnalyticsWorker BY <1>3 DEF AnalyticsWorker
<1>4. CASE LogLine \/ LogWorker BY <1>4 DEF LogLine, LogWorker
<1>5. CASE Signal \/ Exit \/ Operators \/ Time \/ UNCHANGED vars
  BY <1>5 DEF Signal, Exit, Operators, Time, vars
<1> QED BY <1>1, <1>2, <1>3, <1>4, <1>5 DEF Next

LEMMA AnalyticsDrains ==
  ASSUME DrainInv, [Next]_vars
  PROVE  Analytics!ChannelTypeOK' /\ Analytics!EarlyIsDrained' /\ (eventWorker' # "running" => Cancelled')
<1> USE DEF DrainInv, EarlyIsDrained, Analytics!ChannelTypeOK, Analytics!EarlyIsDrained, Analytics!Items
<1>1. CASE Analytics!TrySend
  <2> DEFINE item == IF Cancelled THEN "late" ELSE "early"
  <2>1. /\ eventChan \in Seq({"early", "late"}) /\ item \in {"early", "late"}
        /\ Len(eventChan) < EventSize
        /\ eventChan' = Append(eventChan, item) /\ UNCHANGED <<eventHand, eventWorker>>
    BY <1>1, ProcessAssumption DEF Analytics!TrySend, Analytics!IsFull
  <2>2. /\ eventChan' \in Seq({"early", "late"}) /\ Len(eventChan') = Len(eventChan) + 1
        /\ \A i \in 1 .. Len(eventChan) : eventChan'[i] = eventChan[i]
        /\ eventChan'[Len(eventChan) + 1] = item
    BY <2>1, AppendProperties
  <2>3. ASSUME eventWorker' = "stopped", NEW i \in DOMAIN eventChan' PROVE eventChan'[i] = "late"
    BY <2>1, <2>2, <2>3
  <2> QED BY <2>1, <2>2, <2>3, ProcessAssumption, CancelledStays
<1>2. CASE Analytics!Receive
  <2>1. /\ eventChan # <<>> /\ eventHand' = Head(eventChan) /\ eventChan' = Tail(eventChan)
        /\ eventWorker # "stopped" /\ UNCHANGED eventWorker
    BY <1>2 DEF Analytics!Receive
  <2>2. eventHand' \in {"early", "late"} /\ eventChan' \in Seq({"early", "late"})
        /\ Len(eventChan') <= EventSize
    BY <2>1, ProcessAssumption
  <2> QED BY <2>1, <2>2, CancelledStays
<1>3. CASE Analytics!Process BY <1>3, CancelledStays DEF Analytics!Process
<1>4. CASE Analytics!NoticeStop BY <1>4, CancelledStays DEF Analytics!NoticeStop
<1>5. CASE Analytics!StopEmpty BY <1>5, CancelledStays DEF Analytics!StopEmpty
<1>6. CASE UNCHANGED eventVars BY <1>6, CancelledStays DEF eventVars
<1> QED BY <1>1, <1>2, <1>3, <1>4, <1>5, <1>6, ChannelSteps

LEMMA LogDrains ==
  ASSUME DrainInv, [Next]_vars
  PROVE  Log!ChannelTypeOK' /\ Log!EarlyIsDrained' /\ (lineWorker' # "running" => Cancelled')
<1> USE DEF DrainInv, EarlyIsDrained, Log!ChannelTypeOK, Log!EarlyIsDrained, Log!Items
<1>1. CASE Log!TrySend
  <2> DEFINE item == IF Cancelled THEN "late" ELSE "early"
  <2>1. /\ lineChan \in Seq({"early", "late"}) /\ item \in {"early", "late"}
        /\ Len(lineChan) < LineSize
        /\ lineChan' = Append(lineChan, item) /\ UNCHANGED <<lineHand, lineWorker>>
    BY <1>1, ProcessAssumption DEF Log!TrySend, Log!IsFull
  <2>2. /\ lineChan' \in Seq({"early", "late"}) /\ Len(lineChan') = Len(lineChan) + 1
        /\ \A i \in 1 .. Len(lineChan) : lineChan'[i] = lineChan[i]
        /\ lineChan'[Len(lineChan) + 1] = item
    BY <2>1, AppendProperties
  <2>3. ASSUME lineWorker' = "stopped", NEW i \in DOMAIN lineChan' PROVE lineChan'[i] = "late"
    BY <2>1, <2>2, <2>3
  <2> QED BY <2>1, <2>2, <2>3, ProcessAssumption, CancelledStays
<1>2. CASE Log!Receive
  <2>1. /\ lineChan # <<>> /\ lineHand' = Head(lineChan) /\ lineChan' = Tail(lineChan)
        /\ lineWorker # "stopped" /\ UNCHANGED lineWorker
    BY <1>2 DEF Log!Receive
  <2>2. lineHand' \in {"early", "late"} /\ lineChan' \in Seq({"early", "late"})
        /\ Len(lineChan') <= LineSize
    BY <2>1, ProcessAssumption
  <2> QED BY <2>1, <2>2, CancelledStays
<1>3. CASE Log!Process BY <1>3, CancelledStays DEF Log!Process
<1>4. CASE Log!NoticeStop BY <1>4, CancelledStays DEF Log!NoticeStop
<1>5. CASE Log!StopEmpty BY <1>5, CancelledStays DEF Log!StopEmpty
<1>6. CASE UNCHANGED lineVars BY <1>6, CancelledStays DEF lineVars
<1> QED BY <1>1, <1>2, <1>3, <1>4, <1>5, <1>6, ChannelSteps

\* When the analytics worker and the logger's return, whatever they had accepted before the
\* signal is out, for any capacity and however long the other goroutines go on
\* (handle-events/root.go:27-54, logger.go:26-42).
THEOREM AcceptedIsDrained == Spec => []EarlyIsDrained
<1>1. Init => DrainInv BY DrainInitial
<1>2. DrainInv /\ [Next]_vars => DrainInv'
  BY AnalyticsDrains, LogDrains DEF DrainInv, EarlyIsDrained
<1>3. DrainInv => EarlyIsDrained BY DEF DrainInv
<1> QED BY <1>1, <1>2, <1>3, PTL DEF Spec

-----------------------------------------------------------------------------
(* The groups                                                              *)

UpsertInv == UpsertTypeOK /\ GroupsAccounted

\* What a step does to queue, worker and tables, each with the rest of them.
QueuesFanOut ==
  Enqueue(FanoutWork) /\ UNCHANGED <<work, workAt, fallback, users, groupChats, askVars>>

EnsureStep(x) == EnsureQueued(x) \/ EnsureItself(x) \/ EnsureAnswerLost(x) \/ EnsureFails(x)

WorkerStep ==
  \/ WorkerTakes \/ WorkerUpserts \/ WorkerRecordsChat \/ WorkerAnswerLost \/ WorkerFails
  \/ WorkerFansOut \/ WorkerStops

LEMMA SenderIsUpsert == ASSUME RouterInv, At("ensure") PROVE Sender \in Upserts
<1>1. update \in Updates /\ update.user \in Users BY HeadOfPlan DEF RouterInv, At
<1> QED BY <1>1, ProcessAssumption DEF Sender, Upserts

LEMMA UserSteps ==
  ASSUME RouterInv, [Next]_vars
  PROVE  \/ \E x \in Upserts : EnsureStep(x)
         \/ FallbackRecordsChat \/ FallbackChatFails
         \/ QueuesFanOut \/ WorkerStep \/ UNCHANGED userVars
<1>1. CASE RouterEnsures
  <2>1. Sender \in Upserts BY <1>1, SenderIsUpsert DEF RouterEnsures
  <2>2. EnsureStep(Sender) BY <1>1 DEF RouterEnsures, EnsureStep
  <2> QED BY <2>1, <2>2
<1>2. CASE RouterRecordsChat BY <1>2 DEF RouterRecordsChat
<1>3. CASE RouterFansOut BY <1>3 DEF RouterFansOut, QueuesFanOut, userVars, upsertVars
<1>4. CASE DeferredWorker BY <1>4 DEF DeferredWorker, WorkerStep
<1>5. CASE RouterTracks \/ RouterExecs \/ RouterReads \/ Take \/ Finish \/ RouterStops
  BY <1>5 DEF RouterTracks, RouterExecs, RouterReads, Take, Finish, RouterStops
<1>6. CASE Ticker \/ AnalyticsWorker \/ LogLine \/ LogWorker \/ Signal \/ Exit \/ Operators \/ Time
           \/ UNCHANGED vars
  BY <1>6 DEF Ticker, AnalyticsWorker, LogLine, LogWorker, Signal, Exit, Operators, Time, vars
<1> QED BY <1>1, <1>2, <1>3, <1>4, <1>5, <1>6 DEF Next, Router

\* The queued groups.
Queued(q) == {c.chat : c \in Range(q) \ {FanoutWork}}

LEMMA QueuedAppend ==
  ASSUME NEW q \in Seq(Closures), NEW c \in Closures
  PROVE  /\ Append(q, c) \in Seq(Closures) /\ Len(Append(q, c)) = Len(q) + 1
         /\ Queued(q) \subseteq Queued(Append(q, c))
         /\ c # FanoutWork => c.chat \in Queued(Append(q, c))
<1>1. /\ Append(q, c) \in Seq(Closures) /\ Len(Append(q, c)) = Len(q) + 1
      /\ \A i \in 1 .. Len(q) : Append(q, c)[i] = q[i]
      /\ Append(q, c)[Len(q) + 1] = c
  BY AppendProperties
<1>2. \A x \in Range(q) : x \in Range(Append(q, c)) BY <1>1 DEF Range
<1>3. c \in Range(Append(q, c)) BY <1>1 DEF Range
<1> QED BY <1>1, <1>2, <1>3 DEF Queued

LEMMA QueuedTail ==
  ASSUME NEW q \in Seq(Closures), q # <<>>
  PROVE  /\ Head(q) \in Closures /\ Tail(q) \in Seq(Closures) /\ Len(Tail(q)) = Len(q) - 1
         /\ Queued(q) \subseteq Queued(Tail(q)) \cup {c.chat : c \in {Head(q)} \ {FanoutWork}}
<1>1. /\ Head(q) \in Closures /\ Tail(q) \in Seq(Closures) /\ Len(Tail(q)) = Len(q) - 1
      /\ Head(q) = q[1] /\ \A i \in 1 .. Len(Tail(q)) : Tail(q)[i] = q[i + 1]
  BY HeadTailProperties
<1>2. ASSUME NEW i \in DOMAIN q PROVE q[i] = Head(q) \/ q[i] \in Range(Tail(q))
  <2>1. CASE i = 1 BY <1>1, <2>1
  <2>2. CASE i # 1
    <3>1. i \in 1 .. Len(q) /\ i - 1 \in 1 .. Len(Tail(q)) /\ (i - 1) + 1 = i BY <1>1, <2>2
    <3>2. i - 1 \in DOMAIN Tail(q) /\ Tail(q)[i - 1] = q[i] BY <1>1, <3>1
    <3> QED BY <3>2 DEF Range
  <2> QED BY <2>1, <2>2
<1>3. \A x \in Range(q) : x = Head(q) \/ x \in Range(Tail(q)) BY <1>2 DEF Range
<1> QED BY <1>1, <1>3 DEF Queued

\* GroupsAccounted, with the queue named.
InHand(w) == IF w \in Upserts THEN {w.chat} ELSE {}

LEMMA KnownGroups ==
  /\ GroupsAccounted <=>
       askedIn \subseteq groupChats \cup lostChats \cup {fallback} \cup Queued(deferred) \cup InHand(work)
  /\ GroupsAccounted' <=>
       askedIn' \subseteq groupChats' \cup lostChats' \cup {fallback'} \cup Queued(deferred') \cup InHand(work')
BY DEF GroupsAccounted, Queued, InHand

LEMMA UpsertInitial == Init => UpsertInv
<1> SUFFICES ASSUME Init PROVE UpsertInv OBVIOUS
<1>1. UpsertInit BY DEF Init
<1>2. UpsertTypeOK BY <1>1, UpsertAssumption DEF UpsertInit, UpsertTypeOK
<1> QED BY <1>1, <1>2 DEF UpsertInv, GroupsAccounted, UpsertInit

LEMMA AskTypes ==
  ASSUME UpsertTypeOK, NEW x \in Upserts, Ask(x)
  PROVE  /\ asked' \in [Users -> Nat] /\ lastName' \in [Users -> Names \cup {NoName}]
         /\ askedIn' = askedIn \cup GroupsOf(x) /\ askedIn' \subseteq Groups
<1>1. x.user \in Users /\ x.name \in Names \cup {NoName} /\ x.chat \in Chats BY DEF Upserts
<1>2. asked' \in [Users -> Nat] BY <1>1 DEF Ask, UpsertTypeOK
<1>3. lastName' \in [Users -> Names \cup {NoName}]
  BY <1>1 DEF Ask, UpsertTypeOK
<1>4. askedIn' = askedIn \cup GroupsOf(x) /\ askedIn' \subseteq Groups
  BY DEF Ask, UpsertTypeOK, GroupsOf
<1> QED BY <1>2, <1>3, <1>4

LEMMA UpsertTypes ==
  ASSUME UpsertTypeOK, NEW x \in Upserts, UpsertUser(x)
  PROVE  users' \in [Users -> [name : Names \cup {NoName}, requests : Nat]]
<1>1. x.user \in Users /\ x.name \in Names \cup {NoName} BY DEF Upserts
<1>2. Upserted(users[x.user], x.name) \in [name : Names \cup {NoName}, requests : Nat]
  BY <1>1 DEF Upserted, UpsertTypeOK
<1> QED BY <1>1, <1>2 DEF UpsertUser, UpsertTypeOK

LEMMA EnsureKeeps ==
  ASSUME UpsertInv, NEW x \in Upserts, EnsureStep(x)
  PROVE  UpsertInv'
<1>0. /\ UpsertTypeOK
      /\ askedIn \subseteq groupChats \cup lostChats \cup {fallback} \cup Queued(deferred) \cup InHand(work)
  BY KnownGroups DEF UpsertInv
<1>1. x.user \in Users /\ x.chat \in Chats /\ fallback = NoChat
  BY DEF Upserts, EnsureStep, EnsureQueued, EnsureItself, EnsureAnswerLost, EnsureFails
<1>2. /\ asked' \in [Users -> Nat] /\ lastName' \in [Users -> Names \cup {NoName}]
      /\ askedIn' = askedIn \cup GroupsOf(x) /\ askedIn' \subseteq Groups
  BY <1>0, AskTypes DEF EnsureStep, EnsureQueued, EnsureItself, EnsureAnswerLost, EnsureFails
<1>3. CASE EnsureQueued(x)
  <2>1. /\ deferred' = Append(deferred, x) /\ Len(deferred) < QueueSize
        /\ UNCHANGED <<work, workAt, fallback, users, groupChats, lost, lostChats, overtaken>>
    BY <1>0, <1>3, UpsertAssumption DEF EnsureQueued, Enqueue, QueueIsFull, UpsertTypeOK
  <2>2. x \in Closures /\ x # FanoutWork BY UpsertAssumption DEF Closures, Upserts
  <2>3. /\ deferred' \in Seq(Closures) /\ Len(deferred') = Len(deferred) + 1
        /\ Queued(deferred) \subseteq Queued(deferred') /\ x.chat \in Queued(deferred')
    BY <1>0, <2>1, <2>2, QueuedAppend DEF UpsertTypeOK
  <2>4. UpsertTypeOK' BY <1>0, <1>2, <2>1, <2>3, UpsertAssumption DEF UpsertTypeOK
  <2>5. GroupsAccounted' BY <1>0, <1>2, <2>1, <2>3, KnownGroups DEF GroupsOf
  <2> QED BY <2>4, <2>5 DEF UpsertInv
<1>4. CASE EnsureItself(x)
  <2>1. /\ UpsertUser(x) /\ fallback' = (IF x.chat \in Groups THEN x.chat ELSE NoChat)
        /\ UNCHANGED <<deferred, work, workAt, groupChats, lost, lostChats>>
    BY <1>4 DEF EnsureItself
  <2>2. overtaken' \subseteq Users BY <1>0, <1>1, <1>4 DEF EnsureItself, UpsertTypeOK
  <2>3. users' \in [Users -> [name : Names \cup {NoName}, requests : Nat]]
    BY <1>0, <2>1, UpsertTypes
  <2>4. UpsertTypeOK' BY <1>0, <1>2, <2>1, <2>2, <2>3 DEF UpsertTypeOK
  <2>5. NoChat \notin askedIn BY <1>0, UpsertAssumption DEF UpsertTypeOK
  <2>6. GroupsAccounted' BY <1>0, <1>1, <1>2, <2>1, <2>5, KnownGroups DEF GroupsOf
  <2> QED BY <2>4, <2>6 DEF UpsertInv
<1>5. CASE EnsureAnswerLost(x)
  <2>1. /\ UpsertUser(x) /\ lostChats' = lostChats \cup GroupsOf(x)
        /\ UNCHANGED <<deferred, work, workAt, fallback, groupChats, lost>>
    BY <1>5 DEF EnsureAnswerLost
  <2>2. overtaken' \subseteq Users BY <1>0, <1>1, <1>5 DEF EnsureAnswerLost, UpsertTypeOK
  <2>3. users' \in [Users -> [name : Names \cup {NoName}, requests : Nat]]
    BY <1>0, <2>1, UpsertTypes
  <2>4. UpsertTypeOK' BY <1>0, <1>2, <2>1, <2>2, <2>3 DEF UpsertTypeOK, GroupsOf
  <2>5. GroupsAccounted' BY <1>0, <1>2, <2>1, KnownGroups
  <2> QED BY <2>4, <2>5 DEF UpsertInv
<1>6. CASE EnsureFails(x)
  <2>1. /\ lostChats' = lostChats \cup GroupsOf(x)
        /\ UNCHANGED <<deferred, work, workAt, fallback, users, groupChats, overtaken>>
    BY <1>6 DEF EnsureFails, upsertVars
  <2>2. lost' \in [Users -> Nat] BY <1>0, <1>1, <1>6 DEF EnsureFails, UpsertTypeOK
  <2>3. UpsertTypeOK' BY <1>0, <1>2, <2>1, <2>2 DEF UpsertTypeOK, GroupsOf
  <2>4. GroupsAccounted' BY <1>0, <1>2, <2>1, KnownGroups
  <2> QED BY <2>3, <2>4 DEF UpsertInv
<1> QED BY <1>3, <1>4, <1>5, <1>6 DEF EnsureStep

LEMMA FallbackKeeps ==
  ASSUME UpsertInv, FallbackRecordsChat \/ FallbackChatFails
  PROVE  UpsertInv'
<1>0. /\ UpsertTypeOK
      /\ askedIn \subseteq groupChats \cup lostChats \cup {fallback} \cup Queued(deferred) \cup InHand(work)
  BY KnownGroups DEF UpsertInv
<1>1. /\ fallback \in Groups /\ fallback' = NoChat
      /\ groupChats' \cup lostChats' = groupChats \cup lostChats \cup {fallback}
      /\ groupChats' \subseteq Groups /\ lostChats' \subseteq Groups
      /\ UNCHANGED <<deferred, work, workAt, users, asked, lost, askedIn, lastName, overtaken>>
  BY <1>0 DEF FallbackRecordsChat, FallbackChatFails, askVars, UpsertTypeOK
<1>2. UpsertTypeOK' BY <1>0, <1>1 DEF UpsertTypeOK
<1>3. GroupsAccounted' BY <1>0, <1>1, KnownGroups
<1> QED BY <1>2, <1>3 DEF UpsertInv

LEMMA FanOutKeeps == ASSUME UpsertInv, QueuesFanOut PROVE UpsertInv'
<1>0. /\ UpsertTypeOK
      /\ askedIn \subseteq groupChats \cup lostChats \cup {fallback} \cup Queued(deferred) \cup InHand(work)
  BY KnownGroups DEF UpsertInv
<1>1. /\ deferred' = Append(deferred, FanoutWork) /\ Len(deferred) < QueueSize
      /\ UNCHANGED <<work, workAt, fallback, users, groupChats, askVars>>
  BY <1>0, UpsertAssumption DEF QueuesFanOut, Enqueue, QueueIsFull, UpsertTypeOK
<1>2. FanoutWork \in Closures BY DEF Closures
<1>3. /\ deferred' \in Seq(Closures) /\ Len(deferred') = Len(deferred) + 1
      /\ Queued(deferred) \subseteq Queued(deferred')
  BY <1>0, <1>1, <1>2, QueuedAppend DEF UpsertTypeOK
<1>4. UpsertTypeOK' BY <1>0, <1>1, <1>3, UpsertAssumption DEF UpsertTypeOK, askVars
<1>5. GroupsAccounted' BY <1>0, <1>1, <1>3, KnownGroups DEF askVars
<1> QED BY <1>4, <1>5 DEF UpsertInv

LEMMA WorkerKeeps == ASSUME UpsertInv, WorkerStep PROVE UpsertInv'
<1>0. /\ UpsertTypeOK
      /\ askedIn \subseteq groupChats \cup lostChats \cup {fallback} \cup Queued(deferred) \cup InHand(work)
  BY KnownGroups DEF UpsertInv
<1>1. CASE WorkerTakes
  <2>1. /\ work = NoWork /\ deferred # <<>> /\ work' = Head(deferred) /\ deferred' = Tail(deferred)
        /\ workAt # "stopped" /\ UNCHANGED <<workAt, fallback, users, groupChats, askVars>>
    BY <1>1 DEF WorkerTakes
  <2>2. /\ work' \in Closures /\ deferred' \in Seq(Closures) /\ Len(deferred') = Len(deferred) - 1
        /\ Queued(deferred) \subseteq Queued(deferred') \cup {c.chat : c \in {work'} \ {FanoutWork}}
    BY <1>0, <2>1, QueuedTail DEF UpsertTypeOK
  <2>3. {c.chat : c \in {work'} \ {FanoutWork}} \subseteq InHand(work') BY <2>2 DEF Closures, InHand
  <2>4. InHand(work) = {} BY <2>1, UpsertAssumption DEF InHand, Upserts
  <2>5. work \notin Upserts BY <2>1, UpsertAssumption DEF Upserts
  <2>6. workAt' = "user" BY <1>0, <2>1, <2>5 DEF UpsertTypeOK
  <2>7. Len(deferred) \in Nat /\ Len(deferred') <= QueueSize
    BY <1>0, <2>2, UpsertAssumption DEF UpsertTypeOK
  <2>8. UpsertTypeOK' BY <1>0, <2>1, <2>2, <2>6, <2>7 DEF UpsertTypeOK, askVars
  <2>9. GroupsAccounted' BY <1>0, <2>1, <2>2, <2>3, <2>4, KnownGroups DEF askVars
  <2> QED BY <2>8, <2>9 DEF UpsertInv
<1>2. CASE WorkerUpserts
  <2>1. /\ work \in Upserts /\ workAt = "user" /\ UpsertUser(work)
        /\ \/ work.chat \in Groups /\ workAt' = "chat" /\ work' = work
           \/ work.chat \notin Groups /\ work' = NoWork /\ workAt' = "user"
        /\ UNCHANGED <<deferred, fallback, groupChats, askVars>>
    BY <1>2 DEF WorkerUpserts, WorkDone
  <2>2. users' \in [Users -> [name : Names \cup {NoName}, requests : Nat]]
    BY <1>0, <2>1, UpsertTypes
  <2>3. UpsertTypeOK' BY <1>0, <2>1, <2>2 DEF UpsertTypeOK, askVars
  <2>4. work.chat \notin Groups => work.chat \notin askedIn BY <1>0 DEF UpsertTypeOK
  <2>5. GroupsAccounted' BY <1>0, <2>1, <2>4, KnownGroups DEF askVars, InHand
  <2> QED BY <2>3, <2>5 DEF UpsertInv
<1>3. CASE WorkerRecordsChat
  <2>1. /\ work \in Upserts /\ groupChats' = groupChats \cup {work.chat}
        /\ work' = NoWork /\ workAt' = "user" /\ workAt = "chat"
        /\ UNCHANGED <<deferred, fallback, users, askVars>>
    BY <1>3 DEF WorkerRecordsChat, WorkDone
  <2>2. GroupsAccounted' BY <1>0, <2>1, KnownGroups DEF askVars, InHand
  <2>3. work.chat \in Groups BY <1>0, <2>1 DEF UpsertTypeOK
  <2>4. UpsertTypeOK' BY <1>0, <2>1, <2>3 DEF UpsertTypeOK, askVars
  <2> QED BY <2>2, <2>4 DEF UpsertInv
<1>4. CASE WorkerAnswerLost
  <2>1. /\ work \in Upserts /\ UpsertUser(work) /\ lostChats' = lostChats \cup GroupsOf(work)
        /\ work' = NoWork /\ workAt' = "user"
        /\ UNCHANGED <<deferred, fallback, groupChats, asked, lost, askedIn, lastName, overtaken>>
    BY <1>4 DEF WorkerAnswerLost, WorkDone
  <2>2. users' \in [Users -> [name : Names \cup {NoName}, requests : Nat]]
    BY <1>0, <2>1, UpsertTypes
  <2>3. UpsertTypeOK' BY <1>0, <2>1, <2>2 DEF UpsertTypeOK, GroupsOf
  <2>4. work.chat \in askedIn => work.chat \in GroupsOf(work) BY <1>0 DEF UpsertTypeOK, GroupsOf
  <2>5. GroupsAccounted' BY <1>0, <2>1, <2>4, KnownGroups DEF InHand
  <2> QED BY <2>3, <2>5 DEF UpsertInv
<1>5. CASE WorkerFails
  <2>1. /\ work \in Upserts /\ lostChats' = lostChats \cup GroupsOf(work)
        /\ work' = NoWork /\ workAt' = "user"
        /\ UNCHANGED <<deferred, fallback, users, groupChats, asked, askedIn, lastName, overtaken>>
    BY <1>5 DEF WorkerFails, WorkDone
  <2>2. lost' \in [Users -> Nat]
    <3>1. work.user \in Users BY <2>1 DEF Upserts
    <3> QED BY <1>0, <1>5, <3>1 DEF WorkerFails, UpsertTypeOK
  <2>3. UpsertTypeOK' BY <1>0, <2>1, <2>2 DEF UpsertTypeOK, GroupsOf
  <2>4. work.chat \in askedIn => work.chat \in GroupsOf(work) BY <1>0 DEF UpsertTypeOK, GroupsOf
  <2>5. GroupsAccounted' BY <1>0, <2>1, <2>4, KnownGroups DEF InHand
  <2> QED BY <2>3, <2>5 DEF UpsertInv
<1>6. CASE WorkerFansOut
  <2>1. /\ work = FanoutWork /\ work' = NoWork /\ workAt' = "user"
        /\ UNCHANGED <<deferred, fallback, users, groupChats, askVars>>
    BY <1>6 DEF WorkerFansOut, WorkDone
  <2>2. InHand(work) = {} BY <2>1, UpsertAssumption DEF InHand, Upserts
  <2>3. UpsertTypeOK' BY <1>0, <2>1 DEF UpsertTypeOK, askVars
  <2>4. GroupsAccounted' BY <1>0, <2>1, <2>2, KnownGroups DEF askVars
  <2> QED BY <2>3, <2>4 DEF UpsertInv
<1>7. CASE WorkerStops
  <2>1. /\ work = NoWork /\ workAt' = "stopped"
        /\ UNCHANGED <<deferred, work, fallback, users, groupChats, askVars>>
    BY <1>7 DEF WorkerStops
  <2>2. UpsertTypeOK' BY <1>0, <2>1 DEF UpsertTypeOK, askVars
  <2>3. GroupsAccounted' BY <1>0, <2>1, KnownGroups DEF askVars
  <2> QED BY <2>2, <2>3 DEF UpsertInv
<1> QED BY <1>1, <1>2, <1>3, <1>4, <1>5, <1>6, <1>7 DEF WorkerStep

LEMMA UpsertInvStep == ASSUME RouterInv, UpsertInv, [Next]_vars PROVE UpsertInv'
<1>1. CASE UNCHANGED userVars
  <2>1. UNCHANGED <<deferred, work, workAt, fallback, users, groupChats,
                    asked, lost, askedIn, lostChats, lastName, overtaken>>
    BY <1>1 DEF userVars, upsertVars, askVars
  <2>2. UpsertTypeOK' BY <2>1 DEF UpsertInv, UpsertTypeOK
  <2>3. GroupsAccounted' BY <2>1, KnownGroups DEF UpsertInv
  <2> QED BY <2>2, <2>3 DEF UpsertInv
<1> QED BY <1>1, UserSteps, EnsureKeeps, FallbackKeeps, FanOutKeeps, WorkerKeeps

\* The worker leaves its queue only when the process is told to stop.
WorkerInv == workAt = "stopped" => Cancelled

LEMMA WorkerInitial == Init => WorkerInv
BY DEF Init, UpsertInit, WorkerInv

LEMMA WorkerInvStep ==
  ASSUME RouterInv, WorkerInv, [Next]_vars
  PROVE  WorkerInv'
<1>1. CASE Cancelled BY <1>1, CancelledStays DEF WorkerInv
<1>2. CASE ~Cancelled
  <2>1. workAt # "stopped" BY <1>2 DEF WorkerInv
  <2>2. workAt' # "stopped"
    <3>1. CASE DeferredWorker
      BY <1>2, <2>1, <3>1
         DEF DeferredWorker, WorkerTakes, WorkerUpserts, WorkerRecordsChat, WorkerAnswerLost,
             WorkerFails, WorkerFansOut, WorkDone
    <3>2. CASE Router
      <4>1. UNCHANGED workAt
        BY <3>2 DEF Router, Take, Finish, RouterStops, RouterEnsures, RouterRecordsChat, RouterTracks,
                    RouterFansOut, RouterExecs, RouterReads, EnsureQueued, EnsureItself,
                    EnsureAnswerLost, EnsureFails, FallbackRecordsChat, FallbackChatFails,
                    userVars, upsertVars
      <4> QED BY <2>1, <4>1
    <3>3. CASE Ticker \/ AnalyticsWorker \/ LogLine \/ LogWorker \/ Signal \/ Exit \/ Operators \/ Time
               \/ UNCHANGED vars
      <4>1. UNCHANGED workAt
        BY <3>3 DEF Ticker, AnalyticsWorker, LogLine, LogWorker, Signal, Exit, Operators, Time, vars,
                    userVars, upsertVars
      <4> QED BY <2>1, <4>1
    <3> QED BY <3>1, <3>2, <3>3 DEF Next
  <2> QED BY <2>2 DEF WorkerInv
<1> QED BY <1>1, <1>2

\* In a process that is not told to stop, every group somebody wrote in is recorded, or failed,
\* or is in the hands of the worker or the router, or in the queue of a worker that is there to
\* run it (middleware/handle-user.go:47-61): no order of the goroutines, no full queue and no
\* lost answer forgets one.  What a stop forgets is bounded by ShutdownIsBounded.
THEOREM GroupsRemainKnown == Spec => []GroupsAreKnown
<1>1. Init => RouterInv /\ UpsertInv /\ WorkerInv BY RouterInitial, UpsertInitial, WorkerInitial
<1>2. RouterInv /\ UpsertInv /\ WorkerInv /\ [Next]_vars => (RouterInv /\ UpsertInv /\ WorkerInv)'
  BY RouterInvStep, UpsertInvStep, WorkerInvStep
<1>3. UpsertInv /\ WorkerInv => GroupsAreKnown BY DEF UpsertInv, WorkerInv, GroupsAreKnown
<1> QED BY <1>1, <1>2, <1>3, PTL DEF Spec

-----------------------------------------------------------------------------
(* The types of the process                                                *)

\* The router is busy with an update, or with nothing; a read is that of its next step.
BusyInv ==
  /\ phase \in {"running", "stopping", "exited"}
  /\ router \in {"idle", "busy", "stopped"}
  /\ hadResponse \in BOOLEAN
  /\ router # "busy" => update = NoUpdate /\ plan = NoPlan
  /\ reading # NoRead =>
       router = "busy" /\ fallback = NoChat /\ plan.todo # <<>> /\ Head(plan.todo).step = "read"

LEMMA BusyInitial == Init => BusyInv
<1> SUFFICES ASSUME Init PROVE BusyInv OBVIOUS
<1>1. reading = NoRead BY DEF Init, CacheInit
<1> QED BY <1>1 DEF Init, BusyInv

LEMMA ClearKeepsNoRead ==
  ASSUME reading = NoRead, Clear \/ UNCHANGED cacheVars
  PROVE  reading' = NoRead
BY DEF Clear, cacheVars

LEMMA BusyInvStep ==
  ASSUME RouterInv, CacheTypeOK, BusyInv, [Next]_vars
  PROVE  BusyInv'
<1> USE DEF BusyInv
<1>1. CASE Take \/ Finish \/ RouterStops
  <2>1. reading = NoRead
    BY <1>1 DEF Take, Finish, RouterStops
  <2>2. UNCHANGED <<reading, phase>> BY <1>1 DEF Take, Finish, RouterStops, cacheVars
  <2>3. router' \in {"idle", "busy", "stopped"} /\ hadResponse' \in BOOLEAN
        /\ (router' # "busy" => update' = NoUpdate /\ plan' = NoPlan)
    BY <1>1 DEF Take, Finish, RouterStops
  <2> QED BY <2>1, <2>2, <2>3
<1> DEFINE goesOn == UNCHANGED <<phase, router, update, hadResponse>> /\ router = "busy"
<1>2. ASSUME goesOn, reading' = NoRead PROVE BusyInv'
  BY <1>2
<1>3. CASE RouterEnsures \/ RouterTracks \/ RouterFansOut \/ RouterExecs
  <2>1. PICK st \in {"ensure", "event", "fanout", "exec"} : At(st)
    BY <1>3 DEF RouterEnsures, RouterTracks, RouterFansOut, RouterExecs
  <2>2. reading = NoRead /\ router = "busy" BY <2>1 DEF At
  <2>3. UNCHANGED <<router, update, hadResponse>>
    BY <1>3 DEF RouterEnsures, RouterTracks, RouterFansOut, RouterExecs, Proceed, Stay, Abort, Continue
  <2>4. UNCHANGED phase
    BY <1>3 DEF RouterEnsures, RouterTracks, RouterFansOut, RouterExecs, Proceed, Stay, Abort, Continue
  <2>5. Clear \/ UNCHANGED cacheVars
    BY <1>3 DEF RouterEnsures, RouterTracks, RouterFansOut, RouterExecs
  <2> QED BY <1>2, <2>2, <2>3, <2>4, <2>5, ClearKeepsNoRead
<1>4. CASE RouterRecordsChat
  <2>1. fallback # NoChat BY <1>4 DEF RouterRecordsChat, FallbackRecordsChat, FallbackChatFails
  <2>2. reading = NoRead /\ router = "busy" BY <2>1 DEF RouterInv
  <2>3. UNCHANGED <<phase, router, update, hadResponse>> /\ (Clear \/ UNCHANGED cacheVars)
    BY <1>4 DEF RouterRecordsChat, Proceed, Abort, Continue
  <2> QED BY <1>2, <2>2, <2>3, ClearKeepsNoRead
<1>5. CASE RouterReads
  <2>1. At("read") /\ UNCHANGED fallback BY <1>5 DEF RouterReads, userVars, upsertVars
  <2>2. UNCHANGED <<phase, router, update, hadResponse>>
    BY <1>5 DEF RouterReads, Resume, Stay, Abort, Continue
  <2>3. router = "busy" /\ fallback = NoChat /\ plan.todo # <<>> /\ Head(plan.todo).step = "read"
    BY <2>1 DEF At
  <2>4. reading' = NoRead \/ Stay BY <1>5 DEF RouterReads, Hit, Store, ReadFails
  <2>5. CASE Stay
    <3>1. plan' = plan BY <2>5 DEF Stay, Continue
    <3> QED BY <2>1, <2>2, <2>3, <3>1
  <2> QED BY <1>2, <2>2, <2>3, <2>4, <2>5
<1> DEFINE aside == UNCHANGED <<phase, router, update, plan, hadResponse, fallback>>
<1>6. ASSUME aside, reading = NoRead <=> reading' = NoRead PROVE BusyInv'
  BY <1>6
<1>7. ASSUME Clear \/ UNCHANGED cacheVars \/ Time \/ Operators PROVE reading = NoRead <=> reading' = NoRead
  <2>1. CASE Clear
    <3>1. CASE reading = NoRead BY <2>1, <3>1 DEF Clear
    <3>2. CASE reading # NoRead
      <4>1. reading \in Reads BY <3>2 DEF CacheTypeOK
      <4>2. [reading EXCEPT !.late = TRUE] \in Reads BY <4>1 DEF Reads
      <4> QED BY <2>1, <3>2, <4>2, CacheAssumption DEF Clear, Reads
    <3> QED BY <3>1, <3>2
  <2>2. CASE UNCHANGED cacheVars BY <2>2 DEF cacheVars
  <2>3. CASE Time \/ Operators BY <2>3 DEF Time, Operators, Pass, Change
  <2> QED BY <1>7, <2>1, <2>2, <2>3
<1>8. CASE DeferredWorker
  <2>1. UNCHANGED <<phase, router, update, plan, hadResponse>> /\ (Clear \/ UNCHANGED cacheVars)
    BY <1>8 DEF DeferredWorker, routerVars
  <2>2. UNCHANGED fallback
    BY <1>8 DEF DeferredWorker, WorkerTakes, WorkerUpserts, WorkerRecordsChat, WorkerFails,
                WorkerAnswerLost, WorkerFansOut, WorkerStops
  <2> QED BY <2>1, <2>2, <1>6, <1>7
<1>9. CASE Ticker \/ AnalyticsWorker \/ LogLine \/ LogWorker \/ Operators \/ Time
  <2>1. aside
    BY <1>9 DEF Ticker, AnalyticsWorker, LogLine, LogWorker, Operators, Time, routerVars, userVars,
                upsertVars
  <2>2. Clear \/ UNCHANGED cacheVars \/ Time \/ Operators
    BY <1>9 DEF Ticker, AnalyticsWorker, LogLine, LogWorker
  <2> QED BY <2>1, <2>2, <1>6, <1>7
<1>10. CASE Signal \/ Exit
  <2>1. phase' \in {"running", "stopping", "exited"}
        /\ UNCHANGED <<router, update, plan, hadResponse, fallback, reading>>
    BY <1>10 DEF Signal, Exit, routerVars, userVars, upsertVars, cacheVars
  <2> QED BY <2>1
<1>11. CASE UNCHANGED vars
  <2>1. UNCHANGED <<phase, router, update, plan, hadResponse, fallback, reading>>
    BY <1>11 DEF vars, routerVars, userVars, upsertVars, cacheVars
  <2> QED BY <2>1
<1> QED BY <1>1, <1>3, <1>4, <1>5, <1>8, <1>9, <1>10, <1>11 DEF Next, Router

\* Router, workers, channels and cache keep their shape in every process, whatever the
\* updates, capacities and lifetimes; in particular the router is back in its select with
\* neither a read nor an upsert half done (routes/root.go:93-113).
THEOREM ProcessTypes == Spec => []ProcessTypeOK
<1> DEFINE I == RouterInv /\ UpsertInv /\ DrainInv /\ BusyInv
<1>1. Init => I
  BY RouterInitial, UpsertInitial, DrainInitial, BusyInitial
<1>2. I /\ CacheTypeOK /\ [Next]_vars => I'
  BY RouterInvStep, UpsertInvStep, BusyInvStep, AnalyticsDrains, LogDrains DEF DrainInv, EarlyIsDrained
<1>3. I /\ CacheTypeOK => ProcessTypeOK
  BY DEF UpsertInv, DrainInv, RouterInv, BusyInv, ProcessTypeOK
<1> QED BY <1>1, <1>2, <1>3, CacheTypes, PTL DEF Spec

-----------------------------------------------------------------------------
(* The last resort                                                         *)

\* No entry keeps the miss of a response.
MissesNotKept == \A k \in RowKeys : entry[k] # NoEntry => entry[k].value # Absent

\* What the router has in hand belongs to its next step.
HandInv ==
  /\ fallback # NoChat => Head(plan.todo).step = "ensure"
  /\ reading # NoRead => Head(plan.todo).key = reading.key

\* What is left of the plan for a text that matches no strain, until a response is found.
Stages(u) == {Ensure \o (Event \o Asking(u)), Event \o Asking(u), Asking(u), Get(Default) \o Event}

\* Query k is yet to be read, and has a row, also for a SELECT that is under way.
WillAnswer(k) ==
  /\ k \in RowKeys /\ table[k] # Absent
  /\ plan.todo = Get(Default) \o Event => k = Default
  /\ reading # NoRead /\ reading.key = k => reading.value # Absent

AnswerInv ==
  /\ plan.reply = "fallback" => ~InGroup(update) /\ ~hadResponse
  /\ plan.reply = "unknown" =>
       /\ update.kind = "text" /\ update.user \in Users /\ plan.todo \in Stages(update)
       /\ hadResponse => \E k \in {update.key, Default} : WillAnswer(k)
  /\ plan.reply # "unknown" => plan.todo \in Seq(QuietSteps(update))

LEMMA MissesStep ==
  ASSUME MissesNotKept, CacheTypeOK, [CacheNext]_cacheVars
  PROVE  MissesNotKept'
<1> USE DEF MissesNotKept
<1>0. RowKeys \subseteq Keys BY CacheAssumption
<1>1. CASE UNCHANGED entry BY <1>1
<1>2. CASE Clear BY <1>0, <1>2 DEF Clear
<1>3. CASE Pass
  <2>1. ASSUME NEW k \in RowKeys, entry'[k] # NoEntry PROVE entry'[k].value # Absent
    <3>1. CASE entry[k] = NoEntry BY <1>0, <1>3, <2>1, <3>1 DEF Pass
    <3>2. CASE entry[k] # NoEntry
      <4>1. entry[k] \in Entries BY <1>0, <3>2 DEF CacheTypeOK
      <4>2. entry'[k].value = entry[k].value BY <1>0, <1>3, <3>2, <4>1 DEF Pass, Entries
      <4> QED BY <3>2, <4>2
    <3> QED BY <3>1, <3>2
  <2> QED BY <2>1
<1>4. CASE Store
  <2>1. reading.key \in Keys /\ entry \in [Keys -> Entries \cup {NoEntry}]
    BY <1>4 DEF Store, CacheTypeOK, Reads
  <2>2. NewEntry.value = reading.value BY DEF NewEntry
  <2>3. CASE Keeps(reading.key, reading.value) /\ entry' = [entry EXCEPT ![reading.key] = NewEntry]
    BY <1>0, <2>1, <2>2, <2>3 DEF Keeps
  <2> QED BY <1>1, <1>4, <2>3 DEF Store
<1> QED
  BY <1>1, <1>2, <1>3, <1>4 DEF CacheNext, Hit, Select, Change, ReadFails, cacheVars

\* Rows stay, and a SELECT sees the row that is there.
LEMMA RowsStay ==
  ASSUME CacheTypeOK, [CacheNext]_cacheVars
  PROVE  /\ \A k \in Keys : table[k] # Absent => table'[k] # Absent
         /\ \/ reading' = NoRead
            \/ reading # NoRead /\ reading'.key = reading.key /\ reading'.value = reading.value
            \/ reading'.value = table[reading'.key]
<1>1. CASE Clear
  <2>1. UNCHANGED table BY <1>1 DEF Clear
  <2>2. CASE reading # NoRead
    <3>1. reading \in Reads BY <2>2 DEF CacheTypeOK
    <3> QED BY <1>1, <2>1, <2>2, <3>1 DEF Clear, Reads
  <2> QED BY <1>1, <2>1, <2>2 DEF Clear
<1>2. ASSUME NEW q \in Keys, Change(q) PROVE \A k \in Keys : table[k] # Absent => table'[k] # Absent
  BY <1>2 DEF Change, CacheTypeOK, Absent
<1>3. CASE \E k \in Keys : Select(k) BY <1>3 DEF Select
<1>4. CASE \E k \in Keys : Hit(k) BY <1>4 DEF Hit
<1>5. CASE Store \/ ReadFails BY <1>5 DEF Store, ReadFails
<1>6. CASE UNCHANGED <<table, reading>> BY <1>6
<1>7. CASE \E k \in Keys : Change(k)
  <2>1. UNCHANGED reading BY <1>7 DEF Change
  <2> QED BY <1>2, <1>7, <2>1
<1> QED BY <1>1, <1>3, <1>4, <1>5, <1>6, <1>7 DEF CacheNext, Pass, cacheVars

LEMMA StillAnswers ==
  ASSUME CacheTypeOK, [CacheNext]_cacheVars, NEW k, WillAnswer(k),
         plan'.todo = Get(Default) \o Event => k = Default
  PROVE  WillAnswer(k)'
<1>1. k \in RowKeys /\ k \in Keys /\ table[k] # Absent BY CacheAssumption DEF WillAnswer
<1>2. table'[k] # Absent BY <1>1, RowsStay
<1>3. ASSUME reading' # NoRead, reading'.key = k PROVE reading'.value # Absent
  BY <1>1, <1>3, RowsStay DEF WillAnswer
<1> QED BY <1>1, <1>2, <1>3 DEF WillAnswer

LEMMA FirstStep ==
  ASSUME NEW S, NEW x \in S, NEW s \in Seq(S)
  PROVE  /\ <<x>> \o s \in Seq(S) /\ <<x>> \o s # <<>>
         /\ Head(<<x>> \o s) = x /\ Tail(<<x>> \o s) = s /\ Len(<<x>> \o s) = Len(s) + 1
<1> DEFINE t == <<x>> \o s
<1>1. /\ t \in Seq(S) /\ Len(t) = Len(s) + 1 /\ t[1] = x
      /\ \A i \in 1 .. Len(s) : t[i + 1] = s[i]
  BY ConcatProperties
<1>2. t # <<>> /\ Head(t) = x BY <1>1
<1>3. Tail(t) \in Seq(S) /\ Len(Tail(t)) = Len(s) /\ \A i \in 1 .. Len(s) : Tail(t)[i] = t[i + 1]
  BY <1>1, <1>2, HeadTailProperties
<1>4. Tail(t) = s BY <1>1, <1>3, SeqEqual
<1> QED BY <1>1, <1>2, <1>4

\* The steps of the plan for such a text, one by one.
LEMMA StagesAre ==
  ASSUME NEW u \in Updates, u.kind = "text", u.user \in Users, NEW t \in Stages(u)
  PROVE  /\ t # <<>>
         /\ \/ /\ Head(t).step \in {"ensure", "event"} /\ Tail(t) \in Stages(u)
               /\ t # Get(Default) \o Event
               /\ Tail(t) = Get(Default) \o Event => u.key = NoKey
            \/ /\ Head(t) = [step |-> "read", key |-> Default] /\ Tail(t) = Event
               /\ t = Get(Default) \o Event
            \/ /\ Head(t) = [step |-> "read", key |-> u.key] /\ u.key \in RowKeys
               /\ Tail(t) = Get(Default) \o Event /\ t # Get(Default) \o Event
<1> DEFINE S == StepsFor(u)
           last == Get(Default) \o Event
           ask == Asking(u)
<1>1. u.key \in RowKeys \cup {NoKey} /\ Default \in Keys /\ RowKeys \subseteq Keys BY ProcessAssumption
<1>2. /\ [step |-> "ensure"] \in S /\ [step |-> "event"] \in S
      /\ \A k \in Keys : [step |-> "read", key |-> k] \in S
  BY DEF StepsFor, QuietSteps
<1> HIDE DEF S
<1>3. Event \in Seq(S) BY <1>2 DEF Event
<1>4. /\ last \in Seq(S) /\ last # <<>> /\ Tail(last) = Event
      /\ Head(last) = [step |-> "read", key |-> Default] /\ Len(last) = Len(Event) + 1
  BY <1>1, <1>2, <1>3, FirstStep DEF Get
<1> HIDE DEF last
<1>5. /\ ask \in Seq(S) /\ ask # <<>>
      /\ \/ ask = last /\ u.key = NoKey
         \/ /\ Head(ask) = [step |-> "read", key |-> u.key] /\ u.key \in RowKeys
            /\ Tail(ask) = last /\ ask # last
  <2>1. CASE u.key = NoKey
    <3>1. ask = <<>> \o last BY <2>1, <1>1, <1>3, <1>4 DEF Asking, last
    <3>2. ask = last BY <3>1, <1>4, ConcatEmptySeq
    <3> QED BY <2>1, <3>2, <1>4
  <2>2. CASE u.key # NoKey
    <3>1. u.key \in RowKeys /\ [step |-> "read", key |-> u.key] \in S BY <1>1, <1>2, <2>2
    <3>2. ask = Get(u.key) \o (Get(Default) \o Event)
      <4>1. Get(u.key) \in Seq(S) /\ Get(Default) \in Seq(S) BY <3>1, <1>1, <1>2 DEF Get
      <4>2. ask = (Get(u.key) \o Get(Default)) \o Event BY <2>2 DEF Asking
      <4> QED BY <4>1, <4>2, <1>3, ConcatAssociative
    <3>3. ask = <<[step |-> "read", key |-> u.key]>> \o last BY <3>2 DEF Get, last
    <3>4. /\ ask \in Seq(S) /\ ask # <<>> /\ Head(ask) = [step |-> "read", key |-> u.key]
          /\ Tail(ask) = last /\ Len(ask) = Len(last) + 1
      BY <3>1, <3>3, <1>4, FirstStep
    <3>5. ask # last BY <3>4, <1>4
    <3> QED BY <3>1, <3>4, <3>5
  <2> QED BY <2>1, <2>2
<1> HIDE DEF ask
<1>6. /\ Event \o ask \in Seq(S) /\ Event \o ask # <<>> /\ Head(Event \o ask) = [step |-> "event"]
      /\ Tail(Event \o ask) = ask
  BY <1>2, <1>5, FirstStep DEF Event
<1>7. /\ Ensure \o (Event \o ask) # <<>> /\ Head(Ensure \o (Event \o ask)) = [step |-> "ensure"]
      /\ Tail(Ensure \o (Event \o ask)) = Event \o ask
  BY <1>2, <1>6, FirstStep DEF Ensure
<1>8. Head(last).step = "read" BY <1>4
<1>9. Stages(u) = {Ensure \o (Event \o ask), Event \o ask, ask, last} BY DEF Stages, ask, last
<1>10. t \in {Ensure \o (Event \o ask), Event \o ask, ask, last} BY <1>9
<1>11. CASE t = Ensure \o (Event \o ask)
  <2>1. Head(t).step = "ensure" BY <1>7, <1>11
  <2>2. Event \o ask # last BY <1>6, <1>8
  <2> QED BY <2>1, <2>2, <1>7, <1>8, <1>9, <1>11 DEF last
<1>12. CASE t = Event \o ask
  <2>1. Head(t).step = "event" BY <1>6, <1>12
  <2> QED BY <2>1, <1>5, <1>6, <1>8, <1>9, <1>12 DEF last
<1>13. CASE t \in {ask, last} BY <1>4, <1>5, <1>13 DEF last
<1> QED BY <1>10, <1>11, <1>12, <1>13

\* Whatever the others do meanwhile, an unchanged plan keeps its prospects.
LEMMA AnswerAside ==
  ASSUME CacheTypeOK, [CacheNext]_cacheVars, AnswerInv, UNCHANGED <<update, plan, hadResponse>>
  PROVE  AnswerInv'
<1>1. ASSUME NEW k, WillAnswer(k) PROVE WillAnswer(k)'
  BY <1>1, StillAnswers DEF WillAnswer
<1> QED BY <1>1 DEF AnswerInv

\* A step that is no read is done.
LEMMA AnswerProceeds ==
  ASSUME RouterInv, CacheTypeOK, [CacheNext]_cacheVars, AnswerInv,
         router = "busy", plan.todo # <<>>, Head(plan.todo).step # "read",
         plan' = Plan(Tail(plan.todo), plan.reply), UNCHANGED <<update, hadResponse>>
  PROVE  AnswerInv'
<1>1. plan'.todo = Tail(plan.todo) /\ plan'.reply = plan.reply BY TodoOf, ReplyOf
<1>2. CASE plan.reply = "unknown"
  <2>1. /\ update.kind = "text" /\ update.user \in Users /\ plan.todo \in Stages(update)
        /\ update \in Updates
    BY <1>2 DEF AnswerInv, RouterInv
  <2>2. /\ Head(plan.todo).step \in {"ensure", "event"} /\ Tail(plan.todo) \in Stages(update)
        /\ Tail(plan.todo) = Get(Default) \o Event => update.key = NoKey
    <3> DEFINE t == plan.todo
    <3>1. \/ /\ Head(t).step \in {"ensure", "event"} /\ Tail(t) \in Stages(update)
             /\ Tail(t) = Get(Default) \o Event => update.key = NoKey
          \/ Head(t) = [step |-> "read", key |-> Default]
          \/ Head(t) = [step |-> "read", key |-> update.key]
      BY <2>1, StagesAre
    <3>2. \A k : [step |-> "read", key |-> k].step = "read" OBVIOUS
    <3> QED BY <3>1, <3>2
  <2>3. ASSUME hadResponse PROVE \E k \in {update.key, Default} : WillAnswer(k)'
    <3>1. PICK k \in {update.key, Default} : WillAnswer(k) BY <1>2, <2>3 DEF AnswerInv
    <3>2. CASE plan'.todo = Get(Default) \o Event => k = Default BY <3>1, <3>2, StillAnswers
    <3>3. CASE plan'.todo = Get(Default) \o Event /\ k # Default
      <4>1. update.key = NoKey /\ k = update.key /\ k \in RowKeys
        BY <1>1, <2>2, <3>1, <3>3 DEF WillAnswer
      <4> QED BY <4>1, ProcessAssumption
    <3> QED BY <3>2, <3>3
  <2> QED BY <1>1, <1>2, <2>1, <2>2, <2>3 DEF AnswerInv
<1>3. CASE plan.reply # "unknown"
  <2>1. Tail(plan.todo) \in Seq(QuietSteps(update)) BY <1>3 DEF AnswerInv
  <2> QED BY <1>1, <1>3, <2>1 DEF AnswerInv
<1> QED BY <1>2, <1>3

\* A read is answered: a response that is there is found.
LEMMA AnswerArrives ==
  ASSUME RouterInv, CacheTypeOK, MissesNotKept, HandInv, AnswerInv, At("read"), NEW v, Resume(v),
         LET k == Head(plan.todo).key
         IN  \/ Hit(k) /\ v = entry[k].value
             \/ Store /\ v = reading.value
  PROVE  AnswerInv'
<1> DEFINE k == Head(plan.todo).key
           t == plan.todo
<1>1. /\ plan' = AfterRead(update, plan, v # Absent) /\ UNCHANGED <<update, hadResponse>>
      /\ router = "busy" /\ t # <<>> /\ Head(t).step = "read" /\ update \in Updates
  BY DEF Resume, Continue, At, RouterInv
<1>2. Event \in Seq(QuietSteps(update)) /\ <<>> \in Seq(QuietSteps(update))
      /\ Head(Event).step = "event" /\ Head(Get(Default) \o Event).step # "event"
  BY Pieces, NothingFits DEF Event, Get
<1>3. CASE plan.reply # "unknown"
  <2>1. t \in Seq(QuietSteps(update)) BY <1>3 DEF AnswerInv
  <2>2. Head(t) \in QuietSteps(update) /\ Tail(t) \in Seq(QuietSteps(update)) BY <1>1, <2>1
  <2>3. k = Whitelist BY <1>1, <2>2 DEF QuietSteps
  <2>4. plan' \in {Plan(Tail(t), plan.reply), Plan(<<>>, "not whitelisted")}
    BY <1>1, <2>3 DEF AfterRead, AfterWhitelist
  <2>5. CASE plan' = Plan(Tail(t), plan.reply)
    <3>1. plan'.todo = Tail(t) /\ plan'.reply = plan.reply BY <2>5, TodoOf, ReplyOf
    <3> QED BY <1>1, <1>3, <2>2, <3>1 DEF AnswerInv
  <2>6. CASE plan' = Plan(<<>>, "not whitelisted")
    <3>1. plan'.todo = <<>> /\ plan'.reply = "not whitelisted" BY <2>6, TodoOf, ReplyOf
    <3> QED BY <1>2, <1>1, <3>1 DEF AnswerInv
  <2> QED BY <2>4, <2>5, <2>6
<1>4. CASE plan.reply = "unknown"
  <2>1. /\ update.kind = "text" /\ update.user \in Users /\ t \in Stages(update)
        /\ hadResponse => \E q \in {update.key, Default} : WillAnswer(q)
    BY <1>4 DEF AnswerInv
  <2>2. \/ k = Default /\ Tail(t) = Event /\ t = Get(Default) \o Event
        \/ k = update.key /\ k \in RowKeys /\ Tail(t) = Get(Default) \o Event
    <3>1. \/ Head(t).step \in {"ensure", "event"}
          \/ /\ Head(t) = [step |-> "read", key |-> Default] /\ Tail(t) = Event
             /\ t = Get(Default) \o Event
          \/ /\ Head(t) = [step |-> "read", key |-> update.key] /\ update.key \in RowKeys
             /\ Tail(t) = Get(Default) \o Event
      BY <1>1, <2>1, StagesAre
    <3>2. \A q : [step |-> "read", key |-> q].key = q OBVIOUS
    <3> QED BY <1>1, <3>1, <3>2
  <2>3. k # Whitelist /\ k \in RowKeys /\ k \in Keys BY <2>2, ProcessAssumption
  <2>4. ASSUME WillAnswer(k) PROVE v # Absent
    <3>1. CASE Hit(k) /\ v = entry[k].value
      BY <2>3, <3>1 DEF MissesNotKept, Hit, Usable
    <3>2. CASE Store /\ v = reading.value
      BY <2>4, <3>2 DEF WillAnswer, HandInv, Store
    <3> QED BY <3>1, <3>2
  <2>5. CASE v # Absent
    <3>1. plan' = Plan(Event, "response") BY <1>1, <2>3, <2>5 DEF AfterRead, AfterResponse
    <3>2. plan'.todo = Event /\ plan'.reply = "response" BY <3>1, TodoOf, ReplyOf
    <3> QED BY <1>1, <1>2, <3>2 DEF AnswerInv
  <2>6. CASE v = Absent /\ Tail(t) = Event /\ t = Get(Default) \o Event
    <3>1. plan' = Plan(Event, FallbackReply(update))
      BY <1>1, <1>2, <2>3, <2>6 DEF AfterRead, AfterResponse
    <3>2. plan'.todo = Event /\ plan'.reply = FallbackReply(update) BY <3>1, TodoOf, ReplyOf
    <3>3. ~hadResponse
      <4>1. ASSUME NEW q, WillAnswer(q) PROVE q = Default BY <2>6, <4>1 DEF WillAnswer
      <4>2. k = Default BY <2>2, <2>6, <1>2
      <4> QED BY <2>1, <2>4, <2>6, <4>1, <4>2
    <3> QED BY <1>1, <1>2, <3>2, <3>3 DEF AnswerInv, FallbackReply, InGroup
  <2>7. CASE v = Absent /\ k = update.key /\ Tail(t) = Get(Default) \o Event
    <3>1. plan' = Plan(Get(Default) \o Event, "unknown")
      BY <1>1, <1>2, <1>4, <2>3, <2>7 DEF AfterRead, AfterResponse
    <3>2. plan'.todo = Get(Default) \o Event /\ plan'.reply = "unknown" BY <3>1, TodoOf, ReplyOf
    <3>3. plan'.todo \in Stages(update) BY <3>2 DEF Stages
    <3>4. ASSUME NEW q \in {update.key, Default}, WillAnswer(q) PROVE WillAnswer(q)'
      <4>1. q = Default BY <2>4, <2>7, <3>4
      <4>2. reading' = NoRead /\ UNCHANGED table BY DEF Hit, Store
      <4> QED BY <3>4, <4>1, <4>2 DEF WillAnswer
    <3> QED BY <1>1, <2>1, <3>2, <3>3, <3>4 DEF AnswerInv
  <2> QED BY <2>2, <2>5, <2>6, <2>7
<1> QED BY <1>3, <1>4

LEMMA AnswerInitial == Init => MissesNotKept /\ HandInv /\ AnswerInv
<1> SUFFICES ASSUME Init PROVE MissesNotKept /\ HandInv /\ AnswerInv OBVIOUS
<1>1. /\ plan = Plan(<<>>, "none") /\ fallback = NoChat /\ reading = NoRead
      /\ entry = [k \in Keys |-> NoEntry]
  BY DEF Init, NoPlan, UpsertInit, CacheInit
<1>2. plan.todo = <<>> /\ plan.reply = "none" BY <1>1, TodoOf, ReplyOf
<1> QED BY <1>1, <1>2, NothingFits, CacheAssumption DEF MissesNotKept, HandInv, AnswerInv

LEMMA AnswerTaken ==
  ASSUME RouterInv, BusyInv, HandInv, Take
  PROVE  HandInv' /\ AnswerInv'
<1>1. /\ router = "idle" /\ update' \in Updates /\ plan' \in Plans(update')
      /\ hadResponse' = (update'.kind = "text" /\ (Exists(update'.key) \/ Exists(Default)))
      /\ UNCHANGED <<fallback, reading, table>>
  BY DEF Take, RouterInv, userVars, upsertVars, cacheVars
<1>2. fallback' = NoChat /\ reading' = NoRead BY <1>1 DEF RouterInv, BusyInv
<1>3. CASE Quiet(update', plan')
  BY <1>2, <1>3 DEF Quiet, HandInv, AnswerInv
<1>4. CASE Unmatched(update', plan')
  <2>1. /\ update'.kind = "text" /\ update'.user \in Users
        /\ plan'.todo = Ensure \o (Event \o Asking(update')) /\ plan'.reply = "unknown"
    BY <1>4, TodoOf, ReplyOf DEF Unmatched
  <2>2. plan'.todo \in Stages(update') BY <2>1 DEF Stages
  <2>3. /\ Head(plan'.todo).step = "ensure" /\ plan'.todo # Get(Default) \o Event
    <3>1. \/ Head(plan'.todo).step \in {"ensure", "event"} /\ plan'.todo # Get(Default) \o Event
          \/ Head(plan'.todo) = [step |-> "read", key |-> Default]
          \/ Head(plan'.todo) = [step |-> "read", key |-> update'.key]
      BY <1>1, <2>1, <2>2, StagesAre
    <3>2. Head(plan'.todo) = [step |-> "ensure"]
      <4>1. Asking(update') \in Seq(StepsFor(update'))
        BY <1>1, <2>1, AskingReads
      <4>2. Ensure \in Seq(StepsFor(update')) /\ Event \in Seq(StepsFor(update'))
        BY <2>1, Pieces, QuietIsRead
      <4>3. Event \o Asking(update') \in Seq(StepsFor(update')) BY <4>1, <4>2, ConcatProperties
      <4>4. [step |-> "ensure"] \in StepsFor(update') BY <2>1 DEF StepsFor, QuietSteps
      <4> QED BY <2>1, <4>3, <4>4, FirstStep DEF Ensure
    <3> QED BY <3>1, <3>2
  <2>4. ASSUME hadResponse' PROVE \E k \in {update'.key, Default} : WillAnswer(k)'
    <3>1. PICK k \in {update'.key, Default} : Exists(k) BY <1>1, <2>4
    <3>2. k \in RowKeys /\ table[k] # Absent
      BY <1>1, <2>1, <3>1, ProcessAssumption DEF Exists
    <3> QED BY <1>1, <1>2, <2>3, <3>2 DEF WillAnswer
  <2> QED BY <1>2, <2>1, <2>2, <2>4 DEF HandInv, AnswerInv
<1> QED BY <1>1, <1>3, <1>4, PlansFit

\* A plan that is given up, or left at the end, asks nothing.
LEMMA AnswerEnds ==
  ASSUME NEW r, r \notin {"unknown", "fallback"}, plan' = Plan(<<>>, r)
  PROVE  AnswerInv'
<1>1. plan'.todo = <<>> /\ plan'.reply = r BY TodoOf, ReplyOf
<1> QED BY <1>1, NothingFits DEF AnswerInv

LEMMA AnswerRouter ==
  ASSUME RouterInv, BusyInv, CacheTypeOK, MissesNotKept, HandInv, AnswerInv, [CacheNext]_cacheVars,
         RouterEnsures \/ RouterRecordsChat \/ RouterTracks \/ RouterFansOut \/ RouterExecs \/ RouterReads
  PROVE  HandInv' /\ AnswerInv'
<1>1. ASSUME Abort PROVE AnswerInv'
  <2>1. plan' = Plan(<<>>, "error") /\ "error" \notin {"unknown", "fallback"} BY <1>1 DEF Abort, Continue
  <2> QED BY <2>1, AnswerEnds
<1>2. ASSUME Stay PROVE AnswerInv' /\ plan' = plan
  <2>1. UNCHANGED <<update, plan, hadResponse>> BY <1>2 DEF Stay, Continue
  <2> QED BY <2>1, AnswerAside
<1>3. ASSUME router = "busy", plan.todo # <<>>, Head(plan.todo).step # "read", Proceed PROVE AnswerInv'
  <2>1. plan' = Plan(Tail(plan.todo), plan.reply) /\ UNCHANGED <<update, hadResponse>>
    BY <1>3 DEF Proceed, Continue
  <2> QED BY <1>3, <2>1, AnswerProceeds
<1>4. ASSUME NEW st, At(st)
      PROVE  /\ router = "busy" /\ plan.todo # <<>> /\ Head(plan.todo).step = st /\ fallback = NoChat
             /\ st # "read" => reading = NoRead
  BY <1>4 DEF At, BusyInv
<1>5. CASE RouterEnsures
  <2>1. At("ensure") /\ (Clear \/ UNCHANGED cacheVars) /\ (Proceed \/ Stay \/ Abort)
    BY <1>5 DEF RouterEnsures
  <2>2. reading' = NoRead BY <2>1, <1>4, ClearKeepsNoRead
  <2>3. fallback' = NoChat \/ Stay
    BY <1>5, <2>1, <1>4
       DEF RouterEnsures, EnsureQueued, EnsureItself, EnsureAnswerLost, EnsureFails, upsertVars,
           Sender, InGroup
  <2>4. HandInv' BY <2>1, <2>2, <2>3, <1>2, <1>4 DEF HandInv
  <2> QED BY <2>1, <2>4, <1>1, <1>2, <1>3, <1>4
<1>6. CASE RouterRecordsChat
  <2>1. fallback # NoChat /\ fallback' = NoChat /\ (Proceed \/ Abort) /\ (Clear \/ UNCHANGED cacheVars)
    BY <1>6 DEF RouterRecordsChat, FallbackRecordsChat, FallbackChatFails
  <2>2. /\ router = "busy" /\ plan.todo # <<>> /\ Head(plan.todo).step = "ensure"
        /\ reading = NoRead
    BY <2>1 DEF RouterInv, HandInv, BusyInv
  <2>3. HandInv' BY <2>1, <2>2, ClearKeepsNoRead DEF HandInv
  <2> QED BY <2>1, <2>2, <2>3, <1>1, <1>3
<1>7. CASE RouterTracks \/ RouterFansOut \/ RouterExecs
  <2>1. PICK st \in {"event", "fanout", "exec"} : At(st)
    BY <1>7 DEF RouterTracks, RouterFansOut, RouterExecs
  <2>2. (Proceed \/ Abort) /\ (Clear \/ UNCHANGED cacheVars) /\ UNCHANGED fallback
    BY <1>7 DEF RouterTracks, RouterFansOut, RouterExecs, userVars, upsertVars
  <2>3. st # "read" BY <2>1
  <2>4. HandInv' BY <2>1, <2>2, <2>3, <1>4, ClearKeepsNoRead DEF HandInv
  <2> QED BY <2>1, <2>2, <2>3, <2>4, <1>1, <1>3, <1>4
<1>8. CASE RouterReads
  <2>1. At("read") /\ UNCHANGED fallback BY <1>8 DEF RouterReads, userVars, upsertVars
  <2> DEFINE k == Head(plan.todo).key
  <2>2. \/ Hit(k) /\ Resume(entry[k].value)
        \/ Select(k) /\ Stay
        \/ Store /\ Resume(reading.value)
        \/ ReadFails /\ Abort
    BY <1>8 DEF RouterReads
  <2>3. CASE Hit(k) /\ Resume(entry[k].value)
    <3>1. reading' = NoRead BY <2>3 DEF Hit
    <3> QED BY <2>1, <2>3, <3>1, <1>4, AnswerArrives DEF HandInv
  <2>4. CASE Select(k) /\ Stay
    <3>1. reading'.key = k BY <2>4 DEF Select
    <3> QED BY <2>1, <2>4, <3>1, <1>2, <1>4 DEF HandInv
  <2>5. CASE Store /\ Resume(reading.value)
    <3>1. reading' = NoRead BY <2>5 DEF Store
    <3> QED BY <2>1, <2>5, <3>1, <1>4, AnswerArrives DEF HandInv
  <2>6. CASE ReadFails /\ Abort
    <3>1. reading' = NoRead BY <2>6 DEF ReadFails
    <3> QED BY <2>1, <2>6, <3>1, <1>1, <1>4 DEF HandInv
  <2> QED BY <2>2, <2>3, <2>4, <2>5, <2>6
<1> QED BY <1>5, <1>6, <1>7, <1>8

LEMMA AnswerStep ==
  ASSUME RouterInv, BusyInv, CacheTypeOK, MissesNotKept, HandInv, AnswerInv, [Next]_vars
  PROVE  HandInv' /\ AnswerInv'
<1>0. [CacheNext]_cacheVars BY CacheIsUsed
<1>1. CASE Take BY <1>1, AnswerTaken
<1>2. CASE Finish
  <2>1. plan' = Plan(<<>>, "none") /\ plan.todo = <<>> /\ UNCHANGED <<fallback, reading>>
    BY <1>2 DEF Finish, NoPlan, userVars, upsertVars, cacheVars
  <2>2. fallback = NoChat /\ reading = NoRead BY <2>1 DEF RouterInv, BusyInv
  <2>3. "none" \notin {"unknown", "fallback"} OBVIOUS
  <2> QED BY <2>1, <2>2, <2>3, AnswerEnds DEF HandInv
<1>3. CASE RouterEnsures \/ RouterRecordsChat \/ RouterTracks \/ RouterFansOut \/ RouterExecs \/ RouterReads
  BY <1>0, <1>3, AnswerRouter
<1> DEFINE aside ==
      /\ UNCHANGED <<update, plan, hadResponse, fallback>>
      /\ reading' = reading \/ Clear
<1>4. ASSUME aside PROVE HandInv' /\ AnswerInv'
  <2>1. reading' # NoRead => reading # NoRead /\ reading'.key = reading.key
    <3>1. CASE Clear /\ reading # NoRead
      <4>1. reading \in Reads BY <3>1 DEF CacheTypeOK
      <4> QED BY <3>1, <4>1 DEF Clear, Reads
    <3>2. CASE Clear /\ reading = NoRead BY <3>2 DEF Clear
    <3> QED BY <1>4, <3>1, <3>2
  <2>2. HandInv' BY <1>4, <2>1 DEF HandInv
  <2> QED BY <1>0, <1>4, <2>2, AnswerAside
<1>5. CASE DeferredWorker
  <2>1. UNCHANGED <<update, plan, hadResponse>> /\ (Clear \/ UNCHANGED cacheVars)
    BY <1>5 DEF DeferredWorker, routerVars
  <2>2. UNCHANGED fallback
    BY <1>5 DEF DeferredWorker, WorkerTakes, WorkerUpserts, WorkerRecordsChat, WorkerFails,
                WorkerAnswerLost, WorkerFansOut, WorkerStops
  <2> QED BY <2>1, <2>2, <1>4 DEF cacheVars
<1>6. CASE RouterStops BY <1>4, <1>6 DEF RouterStops, userVars, upsertVars, cacheVars
<1>7. CASE Ticker \/ AnalyticsWorker
  BY <1>4, <1>7 DEF Ticker, AnalyticsWorker, routerVars, userVars, upsertVars, cacheVars
<1>8. CASE LogLine \/ LogWorker
  BY <1>4, <1>8 DEF LogLine, LogWorker, routerVars, userVars, upsertVars, cacheVars
<1>9. CASE Signal \/ Exit
  BY <1>4, <1>9 DEF Signal, Exit, routerVars, userVars, upsertVars, cacheVars
<1>10. CASE Operators \/ Time
  BY <1>4, <1>10 DEF Operators, Time, Change, Pass, routerVars, userVars, upsertVars
<1>11. CASE UNCHANGED vars
  BY <1>4, <1>11 DEF vars, routerVars, userVars, upsertVars, cacheVars
<1> QED BY <1>1, <1>2, <1>3, <1>5, <1>6, <1>7, <1>8, <1>9, <1>10, <1>11 DEF Next, Router

\* Nobody is told that there is no response when there was one as the text was taken, nor in
\* a group (handle-unknown.go:32-54), however the tools, the other goroutines and the cache
\* interleave with the two reads: QueryRowContext keeps no miss, and rows are not deleted.
THEOREM FallbackComesLast == Spec => []FallbackIsLastResort
<1> DEFINE I == RouterInv /\ BusyInv /\ MissesNotKept /\ HandInv /\ AnswerInv
<1>1. Init => I BY RouterInitial, BusyInitial, AnswerInitial
<1>2. I /\ CacheTypeOK /\ [Next]_vars => I'
  BY RouterInvStep, BusyInvStep, MissesStep, CacheIsUsed, AnswerStep
<1>3. I => FallbackIsLastResort BY DEF AnswerInv, FallbackIsLastResort
<1> QED BY <1>1, <1>2, <1>3, CacheTypes, PTL DEF Spec

=============================================================================
