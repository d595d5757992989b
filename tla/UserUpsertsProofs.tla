------------------------- MODULE UserUpsertsProofs -------------------------
(***************************************************************************)
(* Proofs about the rows of the users (UserUpserts), in a process of the   *)
(* bot: every request is counted once, the last name given wins unless a   *)
(* fallback overtook the queue, and a stop forgets no more than the queue  *)
(* holds.  All relate a row to the closures that wait for it, in the       *)
(* worker's hand and in the channel; so first what taking one from the     *)
(* front and adding one at the end does to the closures of a user.         *)
(***************************************************************************)
EXTENDS BotProcessProofs, FiniteSetTheorems

-----------------------------------------------------------------------------
(* Closures that wait                                                      *)

IsOf(c, u) == c # FanoutWork /\ c.user = u
GivesName(c, u) == IsOf(c, u) /\ c.name # NoName

\* PendingUpserts and those of them with a name, for any order w of closures.
Of(w, u) == {i \in DOMAIN w : IsOf(w[i], u)}
Naming(w, u) == {i \in Of(w, u) : w[i].name # NoName}

\* The name of a row with name n once w is done, and that there is a last one to give it.
NameAfter(w, u, n) == IF Naming(w, u) = {} THEN n ELSE w[Max(Naming(w, u))].name
HasLast(w, u) == Naming(w, u) = {} \/ \E m \in Naming(w, u) : \A j \in Naming(w, u) : j <= m

LEMMA NamingIs ==
  ASSUME NEW w \in Seq(Closures), NEW u
  PROVE  \A i : i \in Naming(w, u) <=> i \in 1 .. Len(w) /\ GivesName(w[i], u)
BY DEF Naming, Of, GivesName

LEMMA LastIs ==
  ASSUME NEW w \in Seq(Closures), NEW u, NEW m \in Naming(w, u), \A j \in Naming(w, u) : j <= m
  PROVE  \A n : NameAfter(w, u, n) = w[m].name
<1>1. \A j \in Naming(w, u) : j \in Nat BY NamingIs
<1>2. Max(Naming(w, u)) = m BY <1>1 DEF Max
<1> QED BY <1>2 DEF NameAfter

LEMMA OfIsFinite ==
  ASSUME NEW w \in Seq(Closures), NEW u
  PROVE  IsFiniteSet(Of(w, u)) /\ Cardinality(Of(w, u)) \in Nat
<1>1. Len(w) \in Nat /\ Of(w, u) \in SUBSET (1 .. Len(w)) BY DEF Of
<1>2. IsFiniteSet(1 .. Len(w)) BY <1>1, FS_Interval
<1> QED BY <1>1, <1>2, FS_Subset, FS_CardinalityType

LEMMA OfAppend ==
  ASSUME NEW w \in Seq(Closures), NEW c \in Closures, NEW u
  PROVE  Cardinality(Of(Append(w, c), u)) =
           Cardinality(Of(w, u)) + (IF IsOf(c, u) THEN 1 ELSE 0)
<1> DEFINE a == Append(w, c)
<1>1. /\ Len(w) \in Nat /\ DOMAIN w = 1 .. Len(w) /\ DOMAIN a = 1 .. Len(w) + 1
      /\ \A i \in 1 .. Len(w) : a[i] = w[i]
      /\ a[Len(w) + 1] = c
  BY AppendProperties
<1>2. IsFiniteSet(Of(w, u)) /\ Cardinality(Of(w, u)) \in Nat BY OfIsFinite
<1>3. Len(w) + 1 \notin Of(w, u) BY <1>1 DEF Of
<1>4. \A i \in DOMAIN a : i = Len(w) + 1 \/ i \in DOMAIN w BY <1>1
<1>5. CASE IsOf(c, u)
  <2>1. Of(a, u) = Of(w, u) \cup {Len(w) + 1} BY <1>1, <1>4, <1>5 DEF Of
  <2> QED BY <1>2, <1>3, <1>5, <2>1, FS_AddElement
<1>6. CASE ~IsOf(c, u)
  <2>1. Of(a, u) = Of(w, u) BY <1>1, <1>4, <1>6 DEF Of
  <2> QED BY <1>2, <1>6, <2>1
<1> QED BY <1>5, <1>6

\* w with c before it.
LEMMA InFront ==
  ASSUME NEW w \in Seq(Closures), NEW c \in Closures
  PROVE  /\ <<c>> \o w \in Seq(Closures)
         /\ Len(w) \in Nat /\ DOMAIN w = 1 .. Len(w) /\ DOMAIN (<<c>> \o w) = 1 .. Len(w) + 1
         /\ (<<c>> \o w)[1] = c
         /\ \A i \in 1 .. Len(w) : (<<c>> \o w)[i + 1] = w[i]
<1>1. <<c>> \in Seq(Closures) /\ Len(<<c>>) = 1 /\ <<c>>[1] = c OBVIOUS
<1>2. /\ <<c>> \o w \in Seq(Closures) /\ Len(<<c>> \o w) = 1 + Len(w)
      /\ \A i \in 1 .. 1 + Len(w) : (<<c>> \o w)[i] = IF i <= 1 THEN <<c>>[i] ELSE w[i - 1]
  BY <1>1, ConcatProperties
<1>3. Len(w) \in Nat OBVIOUS
<1>4. \A i \in 1 .. Len(w) : i + 1 \in 1 .. 1 + Len(w) /\ ~(i + 1 <= 1) /\ (i + 1) - 1 = i BY <1>3
<1>5. \A i \in 1 .. Len(w) : (<<c>> \o w)[i + 1] = w[i] BY <1>2, <1>4
<1> QED BY <1>1, <1>2, <1>3, <1>5

LEMMA OfFront ==
  ASSUME NEW w \in Seq(Closures), NEW c \in Closures, NEW u
  PROVE  Cardinality(Of(<<c>> \o w, u)) =
           Cardinality(Of(w, u)) + (IF IsOf(c, u) THEN 1 ELSE 0)
<1> DEFINE f == <<c>> \o w
           later == Of(f, u) \ {1}
           shift == [i \in Of(w, u) |-> i + 1]
<1>1. /\ f \in Seq(Closures) /\ Len(w) \in Nat /\ DOMAIN w = 1 .. Len(w) /\ DOMAIN f = 1 .. Len(w) + 1
      /\ f[1] = c /\ \A i \in 1 .. Len(w) : f[i + 1] = w[i]
  BY InFront
<1>2. IsFiniteSet(Of(w, u)) /\ Cardinality(Of(w, u)) \in Nat BY OfIsFinite
<1> HIDE DEF f
<1>3. \A i \in Of(w, u) : i \in Nat /\ i # 0 /\ i + 1 \in later BY <1>1 DEF Of
<1>4. ASSUME NEW j \in later PROVE j - 1 \in Of(w, u) /\ shift[j - 1] = j
  <2>1. j \in 2 .. Len(w) + 1 /\ IsOf(f[j], u) BY <1>1 DEF Of
  <2>2. j - 1 \in 1 .. Len(w) /\ (j - 1) + 1 = j BY <1>1, <2>1
  <2>3. w[j - 1] = f[j] BY <1>1, <2>2
  <2> QED BY <1>1, <2>1, <2>2, <2>3 DEF Of
<1>5. shift \in Bijection(Of(w, u), later)
  <2>1. shift \in [Of(w, u) -> later] BY <1>3
  <2>2. \A i, j \in Of(w, u) : shift[i] = shift[j] => i = j
    <3>1. ASSUME NEW i \in Of(w, u), NEW j \in Of(w, u), shift[i] = shift[j] PROVE i = j
      <4>1. i \in Nat /\ j \in Nat /\ i + 1 = j + 1 BY <1>3, <3>1
      <4> QED BY <4>1
    <3> QED BY <3>1
  <2> HIDE DEF shift, later
  <2>3. shift \in Injection(Of(w, u), later)
    <3>1. DOMAIN shift = Of(w, u) BY <2>1
    <3>2. IsInjective(shift) BY <2>2, <3>1 DEF IsInjective
    <3> QED BY <2>1, <3>2 DEF Injection
  <2>4. shift \in Surjection(Of(w, u), later) BY <2>1, <1>4 DEF Surjection
  <2> QED BY <2>3, <2>4 DEF Bijection
<1>6. IsFiniteSet(later) /\ Cardinality(later) = Cardinality(Of(w, u))
  BY <1>2, <1>5, FS_Bijection DEF ExistsBijection
<1>7. CASE IsOf(c, u)
  <2>1. 1 \in Of(f, u) BY <1>1, <1>7 DEF Of
  <2>2. Of(f, u) = later \cup {1} /\ 1 \notin later BY <2>1
  <2>3. Cardinality(later \cup {1}) = Cardinality(later) + 1 BY <1>6, <2>2, FS_AddElement
  <2> QED BY <1>6, <1>7, <2>2, <2>3 DEF f
<1>8. CASE ~IsOf(c, u)
  <2>1. 1 \notin Of(f, u) BY <1>1, <1>8 DEF Of
  <2>2. Of(f, u) = later BY <2>1
  <2>3. Cardinality(Of(f, u)) = Cardinality(Of(w, u)) BY <1>6, <2>2
  <2> HIDE DEF later
  <2> QED BY <1>2, <1>8, <2>3 DEF f
<1> QED BY <1>7, <1>8

LEMMA NameAppend ==
  ASSUME NEW w \in Seq(Closures), NEW c \in Closures, NEW u, HasLast(w, u)
  PROVE  /\ HasLast(Append(w, c), u)
         /\ \A n : NameAfter(Append(w, c), u, n) =
                     IF GivesName(c, u) THEN c.name ELSE NameAfter(w, u, n)
<1> DEFINE a == Append(w, c)
           end == Len(w) + 1
<1>1. /\ a \in Seq(Closures) /\ Len(w) \in Nat /\ Len(a) = end
      /\ \A i \in 1 .. Len(w) : a[i] = w[i]
      /\ a[end] = c
  BY AppendProperties
<1> HIDE DEF a
<1>2. \A i : i \in Naming(w, u) <=> i \in 1 .. Len(w) /\ GivesName(w[i], u) BY NamingIs
<1>3. \A i : i \in Naming(a, u) <=> i \in 1 .. Len(a) /\ GivesName(a[i], u) BY <1>1, NamingIs
<1>4. \A i \in 1 .. Len(a) : i = end \/ i \in 1 .. Len(w) BY <1>1
<1>5. CASE GivesName(c, u)
  <2>1. end \in Naming(a, u) BY <1>1, <1>3, <1>5
  <2>2. \A j \in Naming(a, u) : j <= end BY <1>1, <1>3
  <2>3. \A n : NameAfter(a, u, n) = c.name BY <1>1, <2>1, <2>2, LastIs
  <2> QED BY <1>5, <2>1, <2>2, <2>3 DEF HasLast, a
<1>6. CASE ~GivesName(c, u)
  <2>1. Naming(a, u) = Naming(w, u)
    <3>1. \A i : i \in Naming(a, u) <=> i \in Naming(w, u)
      BY <1>1, <1>2, <1>3, <1>4, <1>6
    <3> QED BY <3>1
  <2>2. CASE Naming(w, u) = {}
    BY <1>6, <2>1, <2>2 DEF HasLast, NameAfter, a
  <2>3. CASE Naming(w, u) # {}
    <3>1. PICK m \in Naming(w, u) : \A j \in Naming(w, u) : j <= m BY <2>3 DEF HasLast
    <3>2. \A n : NameAfter(w, u, n) = w[m].name BY <3>1, LastIs
    <3>3. \A n : NameAfter(a, u, n) = a[m].name BY <1>1, <2>1, <3>1, LastIs
    <3>4. a[m] = w[m] BY <1>1, <1>2, <3>1
    <3> QED BY <1>6, <2>1, <3>1, <3>2, <3>3, <3>4 DEF HasLast, a
  <2> QED BY <2>2, <2>3
<1> QED BY <1>5, <1>6

LEMMA NameFront ==
  ASSUME NEW w \in Seq(Closures), NEW c \in Closures, NEW u, HasLast(<<c>> \o w, u)
  PROVE  /\ HasLast(w, u)
         /\ \A n : NameAfter(<<c>> \o w, u, n) =
                     NameAfter(w, u, IF GivesName(c, u) THEN c.name ELSE n)
<1> DEFINE f == <<c>> \o w
<1>1. /\ f \in Seq(Closures) /\ Len(w) \in Nat /\ DOMAIN w = 1 .. Len(w) /\ DOMAIN f = 1 .. Len(w) + 1
      /\ f[1] = c /\ \A i \in 1 .. Len(w) : f[i + 1] = w[i]
  BY InFront
<1> HIDE DEF f
<1>2. \A i : i \in Naming(w, u) <=> i \in 1 .. Len(w) /\ GivesName(w[i], u) BY NamingIs
<1>3. \A i : i \in Naming(f, u) <=> i \in 1 .. Len(w) + 1 /\ GivesName(f[i], u)
  <2>1. Len(f) = Len(w) + 1 BY <1>1
  <2> QED BY <1>1, <2>1, NamingIs
<1>4. \A i \in 1 .. Len(w) : i + 1 \in Naming(f, u) <=> i \in Naming(w, u)
  <2>1. ASSUME NEW i \in 1 .. Len(w) PROVE i + 1 \in Naming(f, u) <=> i \in Naming(w, u)
    <3>1. i + 1 \in 1 .. Len(w) + 1 /\ f[i + 1] = w[i] BY <1>1
    <3> QED BY <1>2, <1>3, <3>1
  <2> QED BY <2>1
<1>5. 1 \in Naming(f, u) <=> GivesName(c, u)
  <2>1. 1 \in 1 .. Len(w) + 1 BY <1>1
  <2> QED BY <1>1, <1>3, <2>1
<1>6. CASE Naming(f, u) = {}
  <2>1. Naming(w, u) = {} BY <1>2, <1>4, <1>6
  <2> QED BY <1>5, <1>6, <2>1 DEF HasLast, NameAfter, f
<1>7. CASE Naming(f, u) # {}
  <2>1. PICK m \in Naming(f, u) : \A j \in Naming(f, u) : j <= m BY <1>7 DEF HasLast, f
  <2>2. \A n : NameAfter(f, u, n) = f[m].name BY <1>1, <2>1, LastIs
  <2>3. m \in 1 .. Len(w) + 1 BY <1>3, <2>1
  <2>4. CASE m = 1
    <3>1. Naming(w, u) = {}
      <4>1. ASSUME NEW i \in Naming(w, u) PROVE FALSE
        <5>1. i \in 1 .. Len(w) BY <1>2
        <5>2. i + 1 \in Naming(f, u) BY <1>4, <5>1
        <5>3. i + 1 <= 1 BY <2>1, <2>4, <5>2
        <5> QED BY <1>1, <5>1, <5>3
      <4> QED BY <4>1
    <3> QED BY <1>1, <1>5, <2>1, <2>2, <2>4, <3>1 DEF HasLast, NameAfter, f
  <2>5. CASE m # 1
    <3>1. m - 1 \in 1 .. Len(w) /\ (m - 1) + 1 = m BY <1>1, <2>3, <2>5
    <3>2. m - 1 \in Naming(w, u) BY <1>4, <2>1, <3>1
    <3>3. ASSUME NEW j \in Naming(w, u) PROVE j <= m - 1
      <4>1. j \in 1 .. Len(w) BY <1>2
      <4>2. j + 1 \in Naming(f, u) BY <1>4, <4>1
      <4>3. j + 1 <= m BY <2>1, <4>2
      <4> QED BY <1>1, <2>3, <4>1, <4>3
    <3>4. \A n : NameAfter(w, u, n) = w[m - 1].name BY <3>2, <3>3, LastIs
    <3>5. w[m - 1] = f[m] BY <1>1, <3>1
    <3> QED BY <2>2, <3>2, <3>3, <3>4, <3>5 DEF HasLast, f
  <2> QED BY <2>4, <2>5
<1> QED BY <1>6, <1>7

-----------------------------------------------------------------------------
(* What a step does to the order                                           *)

LEMMA PendingIs ==
  /\ \A u : PendingUpserts(u) = Of(Waiting, u)
  /\ \A u : NameToCome(u) = NameAfter(Waiting, u, users[u].name)
  /\ \A u : PendingUpserts(u)' = Of(Waiting', u)
  /\ \A u : NameToCome(u)' = NameAfter(Waiting', u, users'[u].name)
BY DEF PendingUpserts, NameToCome, Of, Naming, NameAfter, IsOf, Waiting

InFrontOf == IF work # NoWork /\ workAt = "user" THEN <<work>> ELSE <<>>

LEMMA WaitingTypes ==
  ASSUME UpsertTypeOK
  PROVE  /\ Waiting \in Seq(Closures) /\ deferred \in Seq(Closures)
         /\ Waiting = InFrontOf \o deferred /\ InFrontOf \in Seq(Closures)
         /\ InFrontOf = <<>> => Waiting = deferred
<1>1. deferred \in Seq(Closures) /\ work \in Closures \cup {NoWork} BY DEF UpsertTypeOK
<1>2. Waiting = InFrontOf \o deferred BY DEF Waiting, InFrontOf
<1>3. InFrontOf \in Seq(Closures) BY <1>1 DEF InFrontOf
<1> QED BY <1>1, <1>2, <1>3, ConcatProperties, ConcatEmptySeq

LEMMA WaitingAppend ==
  ASSUME UpsertTypeOK, NEW c \in Closures, deferred' = Append(deferred, c), UNCHANGED <<work, workAt>>
  PROVE  Waiting' = Append(Waiting, c)
<1>1. /\ Waiting \in Seq(Closures) /\ deferred \in Seq(Closures)
      /\ Waiting = InFrontOf \o deferred /\ InFrontOf \in Seq(Closures)
  BY WaitingTypes
<1>2. Waiting' = InFrontOf \o deferred' BY DEF Waiting, InFrontOf
<1>3. deferred' = deferred \o <<c>> /\ Append(Waiting, c) = Waiting \o <<c>> /\ <<c>> \in Seq(Closures)
  BY <1>1, AppendIsConcat
<1> QED BY <1>1, <1>2, <1>3, ConcatAssociative

LEMMA WaitingSame ==
  ASSUME UNCHANGED <<deferred, work, workAt>>
  PROVE  Waiting' = Waiting
BY DEF Waiting

\* The worker takes a closure: the order is the same.
LEMMA WaitingTaken ==
  ASSUME UpsertTypeOK, WorkerTakes
  PROVE  Waiting' = Waiting
<1>1. /\ work = NoWork /\ deferred # <<>> /\ work' = Head(deferred) /\ deferred' = Tail(deferred)
      /\ workAt # "stopped" /\ workAt' = workAt
  BY DEF WorkerTakes
<1>2. work \notin Upserts BY <1>1, UpsertAssumption DEF Upserts
<1>3. workAt = "user" /\ deferred \in Seq(Closures) BY <1>1, <1>2 DEF UpsertTypeOK
<1>4. Head(deferred) \in Closures /\ Tail(deferred) \in Seq(Closures) BY <1>1, <1>3
<1>5. NoWork \notin Closures BY UpsertAssumption DEF Closures, Upserts
<1>6. Waiting = deferred BY <1>1, <1>2, WaitingTypes DEF InFrontOf
<1>7. Waiting' = <<Head(deferred)>> \o Tail(deferred) BY <1>1, <1>3, <1>4, <1>5 DEF Waiting
<1>8. <<Head(deferred)>> \o Tail(deferred) = deferred
  <2> DEFINE f == <<Head(deferred)>> \o Tail(deferred)
  <2>1. /\ f \in Seq(Closures) /\ Len(Tail(deferred)) \in Nat
        /\ Len(f) = Len(Tail(deferred)) + 1 /\ f[1] = Head(deferred)
        /\ \A i \in 1 .. Len(Tail(deferred)) : f[i + 1] = Tail(deferred)[i]
    BY <1>4, InFront
  <2>2. /\ Len(deferred) \in Nat /\ Len(Tail(deferred)) = Len(deferred) - 1
        /\ Head(deferred) = deferred[1]
        /\ \A i \in 1 .. Len(Tail(deferred)) : Tail(deferred)[i] = deferred[i + 1]
    BY <1>1, <1>3, HeadTailProperties
  <2>3. Len(f) = Len(deferred) BY <2>1, <2>2
  <2>4. ASSUME NEW i \in 1 .. Len(f) PROVE f[i] = deferred[i]
    <3>1. CASE i = 1 BY <2>1, <2>2, <3>1
    <3>2. CASE i # 1
      <4>1. i - 1 \in 1 .. Len(Tail(deferred)) /\ (i - 1) + 1 = i BY <2>1, <3>2
      <4> QED BY <2>1, <2>2, <4>1
    <3> QED BY <3>1, <3>2
  <2> HIDE DEF f
  <2> QED BY <1>3, <2>1, <2>3, <2>4, SeqEqual DEF f
<1> QED BY <1>6, <1>7, <1>8

\* The first statement of a closure was tried: the closure no longer waits.
LEMMA WaitingMade ==
  ASSUME UpsertTypeOK, work # NoWork, workAt = "user", deferred' = deferred,
         work' = NoWork \/ workAt' # "user"
  PROVE  work \in Closures /\ Waiting' \in Seq(Closures) /\ Waiting = <<work>> \o Waiting'
<1>1. deferred \in Seq(Closures) /\ work \in Closures BY DEF UpsertTypeOK
<1>2. Waiting' = <<>> \o deferred BY DEF Waiting
<1>3. Waiting' = deferred BY <1>1, <1>2, ConcatEmptySeq
<1> QED BY <1>1, <1>3 DEF Waiting

-----------------------------------------------------------------------------
(* The accounts                                                            *)

Counted(u) == users[u].requests + Cardinality(Of(Waiting, u)) + lost[u] = asked[u]

Named(u) ==
  u \notin overtaken /\ lost[u] = 0 => NameAfter(Waiting, u, users[u].name) = lastName[u]

\* That there is a last closure with a name is a fact about finite sets, and kept by every
\* step like the rest.
AccountInv == \A u \in Users : HasLast(Waiting, u) /\ Counted(u) /\ Named(u)

LEMMA AccountsInitial == Init => AccountInv
<1> SUFFICES ASSUME Init, NEW u \in Users PROVE HasLast(Waiting, u) /\ Counted(u) /\ Named(u)
  BY DEF AccountInv
<1>1. UpsertInit BY DEF Init
<1>2. Waiting = <<>> BY <1>1 DEF UpsertInit, Waiting
<1>3. Of(Waiting, u) = {} /\ Naming(Waiting, u) = {} BY <1>2 DEF Of, Naming
<1> QED BY <1>1, <1>3, FS_EmptySet DEF UpsertInit, HasLast, Counted, Named, NameAfter

\* What the statements and EnsureUser do to one user.
LEMMA RowOf ==
  ASSUME UpsertTypeOK, NEW x \in Upserts, UpsertUser(x), NEW u \in Users
  PROVE  /\ users'[u].requests = users[u].requests + (IF x.user = u THEN 1 ELSE 0)
         /\ users'[u].name = IF x.user = u /\ x.name # NoName THEN x.name ELSE users[u].name
         /\ users[u].requests \in Nat
<1>1. users \in [Users -> [name : Names \cup {NoName}, requests : Nat]] BY DEF UpsertTypeOK
<1>2. CASE x.user = u
  <2>1. users'[u] = Upserted(users[u], x.name) BY <1>1, <1>2 DEF UpsertUser
  <2> QED BY <1>1, <1>2, <2>1 DEF Upserted
<1>3. CASE x.user # u
  <2>1. users'[u] = users[u] BY <1>1, <1>3 DEF UpsertUser
  <2> QED BY <1>1, <1>3, <2>1
<1> QED BY <1>2, <1>3

LEMMA AskOf ==
  ASSUME UpsertTypeOK, NEW x \in Upserts, Ask(x), NEW u \in Users
  PROVE  /\ asked'[u] = asked[u] + (IF x.user = u THEN 1 ELSE 0)
         /\ lastName'[u] = IF x.user = u /\ x.name # NoName THEN x.name ELSE lastName[u]
         /\ asked[u] \in Nat
<1>1. asked \in [Users -> Nat] /\ lastName \in [Users -> Names \cup {NoName}] /\ x.user \in Users
  BY DEF UpsertTypeOK, Upserts
<1>2. asked'[u] = asked[u] + (IF x.user = u THEN 1 ELSE 0) BY <1>1 DEF Ask
<1>3. lastName'[u] = IF x.user = u /\ x.name # NoName THEN x.name ELSE lastName[u]
  BY <1>1 DEF Ask
<1> QED BY <1>1, <1>2, <1>3

\* An upsert is of its user, and gives a name if it has one.
LEMMA UpsertIsOf ==
  ASSUME NEW x \in Upserts
  PROVE  /\ x \in Closures /\ x # FanoutWork
         /\ \A u : (IsOf(x, u) <=> x.user = u) /\ (GivesName(x, u) <=> x.user = u /\ x.name # NoName)
BY UpsertAssumption DEF Closures, Upserts, IsOf, GivesName

LEMMA FanOutIsOf == FanoutWork \in Closures /\ \A u : ~IsOf(FanoutWork, u) /\ ~GivesName(FanoutWork, u)
BY DEF Closures, IsOf, GivesName

LEMMA Numbers ==
  ASSUME UpsertTypeOK, NEW u \in Users
  PROVE  /\ users[u].requests \in Nat /\ lost[u] \in Nat /\ asked[u] \in Nat
         /\ Cardinality(Of(Waiting, u)) \in Nat
BY WaitingTypes, OfIsFinite DEF UpsertTypeOK

LEMMA AccountEnsure ==
  ASSUME UpsertTypeOK, AccountInv, NEW x \in Upserts, EnsureStep(x)
  PROVE  AccountInv'
<1> SUFFICES ASSUME NEW u \in Users PROVE HasLast(Waiting', u) /\ Counted(u)' /\ Named(u)'
  BY DEF AccountInv
<1>1. HasLast(Waiting, u) /\ Counted(u) /\ Named(u) BY DEF AccountInv
<1>2. Waiting \in Seq(Closures) BY WaitingTypes
<1>3. Ask(x) BY DEF EnsureStep, EnsureQueued, EnsureItself, EnsureAnswerLost, EnsureFails
<1>4. CASE EnsureQueued(x)
  <2>1. deferred' = Append(deferred, x) /\ UNCHANGED <<work, workAt, users, lost, overtaken>>
    BY <1>4 DEF EnsureQueued, Enqueue
  <2>2. Waiting' = Append(Waiting, x) BY <2>1, UpsertIsOf, WaitingAppend
  <2>3. Cardinality(Of(Waiting', u)) = Cardinality(Of(Waiting, u)) + (IF x.user = u THEN 1 ELSE 0)
    BY <1>2, <2>2, UpsertIsOf, OfAppend
  <2>4. /\ HasLast(Waiting', u)
        /\ \A n : NameAfter(Waiting', u, n) =
                    IF x.user = u /\ x.name # NoName THEN x.name ELSE NameAfter(Waiting, u, n)
    BY <1>1, <1>2, <2>2, UpsertIsOf, NameAppend
  <2>5. Counted(u)'
    <3>1. asked'[u] = asked[u] + (IF x.user = u THEN 1 ELSE 0) BY <1>3, AskOf
    <3>2. users'[u] = users[u] /\ lost'[u] = lost[u] BY <2>1
    <3> QED BY <1>1, <2>3, <3>1, <3>2, Numbers DEF Counted
  <2>6. Named(u)' BY <1>1, <1>3, <2>1, <2>4, AskOf DEF Named
  <2> QED BY <2>4, <2>5, <2>6
<1>5. CASE EnsureItself(x) \/ EnsureAnswerLost(x)
  <2>1. /\ UpsertUser(x) /\ UNCHANGED <<deferred, work, workAt, lost>>
        /\ overtaken' = IF PendingUpserts(x.user) = {} THEN overtaken ELSE overtaken \cup {x.user}
    BY <1>5 DEF EnsureItself, EnsureAnswerLost
  <2>2. Waiting' = Waiting BY <2>1, WaitingSame
  <2>3. Counted(u)' BY <1>1, <1>3, <2>1, <2>2, AskOf, RowOf, Numbers DEF Counted
  <2>4. CASE x.user = u /\ x.name # NoName
    <3>1. ASSUME u \notin overtaken' PROVE Naming(Waiting, u) = {}
      <4>1. PendingUpserts(u) = {} BY <2>1, <2>4, <3>1
      <4> QED BY <4>1, PendingIs DEF Naming
    <3> QED BY <1>1, <1>3, <2>1, <2>2, <2>3, <2>4, <3>1, AskOf, RowOf DEF Named, NameAfter
  <2>5. CASE ~(x.user = u /\ x.name # NoName)
    <3>1. users'[u].name = users[u].name /\ lastName'[u] = lastName[u]
      BY <1>3, <2>1, <2>5, AskOf, RowOf
    <3>2. u \in overtaken => u \in overtaken' BY <2>1
    <3> QED BY <1>1, <2>1, <2>2, <2>3, <3>1, <3>2 DEF Named
  <2> QED BY <2>4, <2>5
<1>6. CASE EnsureFails(x)
  <2>1. /\ lost' = [lost EXCEPT ![x.user] = @ + 1]
        /\ UNCHANGED <<deferred, work, workAt, users, overtaken>>
    BY <1>6 DEF EnsureFails, upsertVars
  <2>2. Waiting' = Waiting BY <2>1, WaitingSame
  <2>3. lost'[u] = lost[u] + (IF x.user = u THEN 1 ELSE 0) /\ lost[u] \in Nat
    BY <2>1 DEF UpsertTypeOK
  <2>4. Counted(u)'
    <3>1. asked'[u] = asked[u] + (IF x.user = u THEN 1 ELSE 0) BY <1>3, AskOf
    <3>2. users'[u] = users[u] BY <2>1
    <3> QED BY <1>1, <2>2, <2>3, <3>1, <3>2, Numbers DEF Counted
  <2>5. CASE x.user = u
    <3>1. lost'[u] # 0 BY <2>3, <2>5
    <3> QED BY <1>1, <2>2, <2>4, <3>1 DEF Named
  <2>6. CASE x.user # u
    <3>1. lastName'[u] = lastName[u] BY <1>3, <2>6, AskOf
    <3>2. lost'[u] = lost[u] /\ users'[u] = users[u] /\ overtaken' = overtaken BY <2>1, <2>3, <2>6
    <3> QED BY <1>1, <2>2, <2>4, <3>1, <3>2 DEF Named
  <2> QED BY <2>5, <2>6
<1> QED BY <1>4, <1>5, <1>6 DEF EnsureStep

LEMMA AccountSame ==
  ASSUME AccountInv, Waiting' = Waiting, UNCHANGED <<users, asked, lost, lastName, overtaken>>
  PROVE  AccountInv'
<1> SUFFICES ASSUME NEW u \in Users PROVE HasLast(Waiting', u) /\ Counted(u)' /\ Named(u)'
  BY DEF AccountInv
<1>1. HasLast(Waiting, u) /\ Counted(u) /\ Named(u) BY DEF AccountInv
<1> QED BY <1>1 DEF Counted, Named

LEMMA AccountFanOut ==
  ASSUME UpsertTypeOK, AccountInv, QueuesFanOut
  PROVE  AccountInv'
<1> SUFFICES ASSUME NEW u \in Users PROVE HasLast(Waiting', u) /\ Counted(u)' /\ Named(u)'
  BY DEF AccountInv
<1>1. HasLast(Waiting, u) /\ Counted(u) /\ Named(u) BY DEF AccountInv
<1>2. deferred' = Append(deferred, FanoutWork) /\ UNCHANGED <<work, workAt, users, asked, lost, lastName, overtaken>>
  BY DEF QueuesFanOut, Enqueue, askVars
<1>3. Waiting' = Append(Waiting, FanoutWork) /\ Waiting \in Seq(Closures)
  BY <1>2, FanOutIsOf, WaitingAppend, WaitingTypes
<1>4. Cardinality(Of(Waiting', u)) = Cardinality(Of(Waiting, u)) + 0
  BY <1>3, FanOutIsOf, OfAppend
<1>5. HasLast(Waiting', u) /\ \A n : NameAfter(Waiting', u, n) = NameAfter(Waiting, u, n)
  BY <1>1, <1>3, FanOutIsOf, NameAppend
<1>6. Counted(u)' BY <1>1, <1>2, <1>4, Numbers DEF Counted
<1> QED BY <1>1, <1>2, <1>5, <1>6 DEF Named

LEMMA AccountWorker ==
  ASSUME UpsertTypeOK, AccountInv, WorkerStep
  PROVE  AccountInv'
<1>1. CASE WorkerTakes
  <2>1. UNCHANGED <<users, asked, lost, lastName, overtaken>> BY <1>1 DEF WorkerTakes, askVars
  <2> QED BY <1>1, <2>1, WaitingTaken, AccountSame
<1>2. CASE WorkerStops \/ WorkerRecordsChat
  <2>1. UNCHANGED <<users, asked, lost, lastName, overtaken, deferred>>
    BY <1>2 DEF WorkerStops, WorkerRecordsChat, askVars
  <2>2. \/ work = NoWork /\ work' = NoWork
        \/ workAt = "chat" /\ work' = NoWork
    BY <1>2 DEF WorkerStops, WorkerRecordsChat, WorkDone
  <2>3. Waiting' = Waiting BY <2>1, <2>2 DEF Waiting
  <2> QED BY <2>1, <2>3, AccountSame
<1>3. CASE WorkerFails /\ workAt # "user"
  <2>1. UNCHANGED <<users, asked, lost, lastName, overtaken, deferred>> /\ work' = NoWork
    BY <1>3 DEF WorkerFails, WorkDone
  <2>2. Waiting' = Waiting BY <1>3, <2>1 DEF Waiting
  <2> QED BY <2>1, <2>2, AccountSame
<1>4. CASE WorkerUpserts \/ WorkerAnswerLost
  <2>1. /\ work \in Upserts /\ workAt = "user" /\ UpsertUser(work)
        /\ UNCHANGED <<deferred, asked, lost, lastName, overtaken>>
        /\ work' = NoWork \/ workAt' # "user"
    BY <1>4 DEF WorkerUpserts, WorkerAnswerLost, WorkDone, askVars
  <2>2. work # NoWork BY <2>1, UpsertAssumption DEF Upserts
  <2>3. /\ work \in Closures /\ Waiting' \in Seq(Closures) /\ Waiting = <<work>> \o Waiting'
    BY <2>1, <2>2, WaitingMade
  <2> SUFFICES ASSUME NEW u \in Users PROVE HasLast(Waiting', u) /\ Counted(u)' /\ Named(u)'
    BY DEF AccountInv
  <2>4. HasLast(Waiting, u) /\ Counted(u) /\ Named(u) BY DEF AccountInv
  <2>5. /\ users'[u].requests = users[u].requests + (IF work.user = u THEN 1 ELSE 0)
        /\ users'[u].name = IF work.user = u /\ work.name # NoName THEN work.name ELSE users[u].name
    BY <2>1, RowOf
  <2>6. Cardinality(Of(Waiting, u)) = Cardinality(Of(Waiting', u)) + (IF work.user = u THEN 1 ELSE 0)
    BY <2>1, <2>3, OfFront, UpsertIsOf
  <2>7. /\ HasLast(Waiting', u)
        /\ \A n : NameAfter(Waiting, u, n) =
                    NameAfter(Waiting', u, IF work.user = u /\ work.name # NoName THEN work.name ELSE n)
    BY <2>1, <2>3, <2>4, NameFront, UpsertIsOf
  <2>8. Counted(u)'
    <3>1. Cardinality(Of(Waiting', u)) \in Nat BY <2>3, OfIsFinite
    <3>2. lost'[u] = lost[u] /\ asked'[u] = asked[u] BY <2>1
    <3> QED BY <2>4, <2>5, <2>6, <3>1, <3>2, Numbers DEF Counted
  <2>9. Named(u)' BY <2>1, <2>4, <2>5, <2>7 DEF Named
  <2> QED BY <2>7, <2>8, <2>9
<1>5. CASE WorkerFails /\ workAt = "user"
  <2>1. /\ work \in Upserts /\ workAt = "user" /\ lost' = [lost EXCEPT ![work.user] = @ + 1]
        /\ UNCHANGED <<deferred, users, asked, lastName, overtaken>> /\ work' = NoWork
    BY <1>5 DEF WorkerFails, WorkDone
  <2>2. work # NoWork BY <2>1, UpsertAssumption DEF Upserts
  <2>3. /\ work \in Closures /\ Waiting' \in Seq(Closures) /\ Waiting = <<work>> \o Waiting'
    BY <2>1, <2>2, WaitingMade
  <2> SUFFICES ASSUME NEW u \in Users PROVE HasLast(Waiting', u) /\ Counted(u)' /\ Named(u)'
    BY DEF AccountInv
  <2>4. HasLast(Waiting, u) /\ Counted(u) /\ Named(u) BY DEF AccountInv
  <2>5. lost'[u] = lost[u] + (IF work.user = u THEN 1 ELSE 0) /\ lost[u] \in Nat
    BY <2>1 DEF UpsertTypeOK
  <2>6. Cardinality(Of(Waiting, u)) = Cardinality(Of(Waiting', u)) + (IF work.user = u THEN 1 ELSE 0)
    BY <2>1, <2>3, OfFront, UpsertIsOf
  <2>7. /\ HasLast(Waiting', u)
        /\ \A n : NameAfter(Waiting, u, n) =
                    NameAfter(Waiting', u, IF work.user = u /\ work.name # NoName THEN work.name ELSE n)
    BY <2>1, <2>3, <2>4, NameFront, UpsertIsOf
  <2>8. Counted(u)'
    <3>1. Cardinality(Of(Waiting', u)) \in Nat BY <2>3, OfIsFinite
    <3>2. users'[u] = users[u] /\ asked'[u] = asked[u] BY <2>1
    <3> QED BY <2>4, <2>5, <2>6, <3>1, <3>2, Numbers DEF Counted
  <2>9. Named(u)'
    <3>1. CASE work.user = u
      <4>1. lost'[u] # 0 BY <2>5, <3>1
      <4> QED BY <4>1 DEF Named
    <3>2. CASE work.user # u
      <4>1. lost'[u] = lost[u] BY <2>5, <3>2
      <4> QED BY <2>1, <2>4, <2>7, <3>2, <4>1 DEF Named
    <3> QED BY <3>1, <3>2
  <2> QED BY <2>7, <2>8, <2>9
<1>6. CASE WorkerFansOut
  <2>1. work = FanoutWork /\ work' = NoWork /\ UNCHANGED <<deferred, users, asked, lost, lastName, overtaken>>
    BY <1>6 DEF WorkerFansOut, WorkDone, askVars
  <2>2. work # NoWork /\ work \notin Upserts BY <2>1, UpsertAssumption DEF Upserts
  <2>3. workAt = "user" BY <2>2 DEF UpsertTypeOK
  <2>4. Waiting' \in Seq(Closures) /\ Waiting = <<FanoutWork>> \o Waiting'
    BY <2>1, <2>2, <2>3, WaitingMade
  <2> SUFFICES ASSUME NEW u \in Users PROVE HasLast(Waiting', u) /\ Counted(u)' /\ Named(u)'
    BY DEF AccountInv
  <2>5. HasLast(Waiting, u) /\ Counted(u) /\ Named(u) BY DEF AccountInv
  <2>6. Cardinality(Of(Waiting, u)) = Cardinality(Of(Waiting', u)) + 0
    BY <2>4, OfFront, FanOutIsOf
  <2>7. HasLast(Waiting', u) /\ \A n : NameAfter(Waiting, u, n) = NameAfter(Waiting', u, n)
    BY <2>4, <2>5, NameFront, FanOutIsOf
  <2>8. Cardinality(Of(Waiting', u)) \in Nat BY <2>4, OfIsFinite
  <2>9. Counted(u)' BY <2>1, <2>5, <2>6, <2>8, Numbers DEF Counted
  <2> QED BY <2>1, <2>5, <2>7, <2>9 DEF Named
<1> QED BY <1>1, <1>2, <1>3, <1>4, <1>5, <1>6 DEF WorkerStep

LEMMA AccountStep ==
  ASSUME RouterInv, UpsertInv, AccountInv, [Next]_vars
  PROVE  AccountInv'
<1>1. UpsertTypeOK BY DEF UpsertInv
<1>2. CASE FallbackRecordsChat \/ FallbackChatFails \/ UNCHANGED userVars
  <2>1. UNCHANGED <<deferred, work, workAt, users, asked, lost, lastName, overtaken>>
    <3>1. CASE FallbackRecordsChat BY <3>1 DEF FallbackRecordsChat, askVars
    <3>2. CASE FallbackChatFails BY <3>2 DEF FallbackChatFails
    <3>3. CASE UNCHANGED userVars BY <3>3 DEF userVars, upsertVars, askVars
    <3> QED BY <1>2, <3>1, <3>2, <3>3
  <2> QED BY <2>1, WaitingSame, AccountSame
<1> QED BY <1>1, <1>2, UserSteps, AccountEnsure, AccountFanOut, AccountWorker

LEMMA AccountsHold == Spec => [](UpsertInv /\ WorkerInv /\ AccountInv)
<1> DEFINE I == RouterInv /\ UpsertInv /\ WorkerInv /\ AccountInv
<1>1. Init => I
  BY RouterInitial, UpsertInitial, WorkerInitial, AccountsInitial
<1>2. I /\ [Next]_vars => I'
  BY RouterInvStep, UpsertInvStep, WorkerInvStep, AccountStep
<1> QED BY <1>1, <1>2, PTL DEF Spec

\* For any size of the queue and any order of router, worker and failures, a call of
\* EnsureUser (middleware/handle-user.go) in a process that is not told to stop is counted
\* once in the row of its user, waits for a worker that is there, or has failed without
\* effect: neither a full queue nor a lost answer counts a request twice or loses it.
THEOREM RequestsAreCounted == Spec => []EveryRequestCounts
<1>1. AccountInv /\ WorkerInv => EveryRequestCounts
  BY PendingIs DEF AccountInv, WorkerInv, Counted, EveryRequestCounts, RequestsAccounted
<1> QED BY <1>1, AccountsHold, PTL

\* In such a process the name in the row, once the closures that wait are done, is the last
\* one given, unless a statement for the user failed or the router overtook a closure of the
\* same user: the order of the channel is that of the updates, and an empty name replaces none.
THEOREM LastNameIsKept == Spec => []LastNameWins
<1>1. AccountInv /\ WorkerInv => LastNameWins
  BY PendingIs DEF AccountInv, WorkerInv, Named, LastNameWins, NamesAccounted
<1> QED BY <1>1, AccountsHold, PTL

-----------------------------------------------------------------------------
(* What a stop forgets                                                     *)

\* No more closures wait than the channel and the worker's hand hold.
LEMMA FewWait ==
  ASSUME UpsertTypeOK, NEW u \in Users
  PROVE  Cardinality(Of(Waiting, u)) <= QueueSize + 1
<1>1. Waiting \in Seq(Closures) /\ Len(Waiting) \in Nat /\ Len(Waiting) <= QueueSize + 1
  <2>1. deferred \in Seq(Closures) /\ Len(deferred) <= QueueSize /\ QueueSize \in Nat
    BY UpsertAssumption DEF UpsertTypeOK
  <2>2. CASE work # NoWork /\ workAt = "user"
    <3>1. work \in Closures BY <2>2 DEF UpsertTypeOK
    <3>2. Waiting = <<work>> \o deferred BY <2>2 DEF Waiting
    <3>3. <<work>> \in Seq(Closures) /\ Len(<<work>>) = 1 BY <3>1
    <3>4. Waiting \in Seq(Closures) /\ Len(Waiting) = 1 + Len(deferred)
      BY <2>1, <3>2, <3>3, ConcatProperties
    <3> QED BY <2>1, <3>4
  <2>3. CASE ~(work # NoWork /\ workAt = "user")
    <3>1. Waiting = <<>> \o deferred BY <2>3 DEF Waiting
    <3>2. Waiting = deferred BY <2>1, <3>1, ConcatEmptySeq
    <3> QED BY <2>1, <3>2
  <2> QED BY <2>2, <2>3
<1>2. Of(Waiting, u) \in SUBSET (1 .. Len(Waiting)) BY <1>1 DEF Of
<1>3. IsFiniteSet(1 .. Len(Waiting)) /\ Cardinality(1 .. Len(Waiting)) = Len(Waiting)
  BY <1>1, FS_Interval
<1>4. Cardinality(Of(Waiting, u)) <= Len(Waiting) BY <1>2, <1>3, FS_Subset
<1>5. Cardinality(Of(Waiting, u)) \in Nat BY <1>1, OfIsFinite
<1> QED BY <1>1, <1>4, <1>5, UpsertAssumption

\* As many groups at most wait in a queue as there are closures in it.
LEMMA FewQueued ==
  ASSUME NEW q \in Seq(Closures)
  PROVE  IsFiniteSet(Queued(q)) /\ Cardinality(Queued(q)) <= Len(q)
<1>0. Len(q) \in Nat OBVIOUS
<1>1. IsFiniteSet(1 .. Len(q)) /\ Cardinality(1 .. Len(q)) = Len(q)
  BY ONLY <1>0, FS_Interval
<1> DEFINE places == {i \in 1 .. Len(q) : q[i] # FanoutWork}
           chatAt == [i \in places |-> q[i].chat]
<1>2. Len(q) \in Nat /\ places \in SUBSET (1 .. Len(q)) OBVIOUS
<1>3. IsFiniteSet(places) /\ Cardinality(places) <= Len(q) BY <1>2, <1>1, FS_Subset
<1>4. chatAt \in Surjection(places, Queued(q))
  <2>1. \A i \in places : q[i].chat \in Queued(q) BY DEF Queued, Range
  <2>2. \A g \in Queued(q) : \E i \in places : q[i].chat = g BY DEF Queued, Range
  <2> QED BY <2>1, <2>2 DEF Surjection
<1>5. IsFiniteSet(Queued(q)) /\ Cardinality(Queued(q)) <= Cardinality(places)
  BY <1>3, <1>4, FS_Surjection
<1>6. Cardinality(Queued(q)) \in Nat /\ Cardinality(places) \in Nat
  BY <1>3, <1>5, FS_CardinalityType
<1> QED BY <1>2, <1>3, <1>5, <1>6

\* Whenever the process ends (app.go:121, deferred.go:47-51), the requests of a user that are
\* forgotten, and the groups, are no more than the channel, the worker's hand and the router's
\* fallback hold, for any capacity of the channel and however long the process has run.
THEOREM ShutdownIsBounded == Spec => []ShutdownForgetsAQueueful
<1> SUFFICES ASSUME UpsertInv, AccountInv PROVE ShutdownForgetsAQueueful
  BY AccountsHold, PTL
<1>1. UpsertTypeOK /\ QueueSize \in Nat BY UpsertAssumption DEF UpsertInv
<1>2. ASSUME NEW u \in Users
      PROVE  /\ users[u].requests + lost[u] <= asked[u]
             /\ asked[u] <= users[u].requests + lost[u] + QueueSize + 1
  <2>1. users[u].requests + Cardinality(Of(Waiting, u)) + lost[u] = asked[u]
    BY DEF AccountInv, Counted
  <2>2. Cardinality(Of(Waiting, u)) <= QueueSize + 1 BY <1>1, FewWait
  <2> QED BY <1>1, <2>1, <2>2, Numbers
<1>3. Cardinality(askedIn \ (groupChats \cup lostChats)) <= QueueSize + 2
  <2> DEFINE unsure == askedIn \ (groupChats \cup lostChats)
             held == Queued(deferred) \cup InHand(work) \cup {fallback}
  <2>1. unsure \subseteq held BY KnownGroups DEF UpsertInv
  <2>2. /\ IsFiniteSet(Queued(deferred)) /\ Cardinality(Queued(deferred)) \in Nat
        /\ Cardinality(Queued(deferred)) <= QueueSize
    <3>1. deferred \in Seq(Closures) /\ Len(deferred) <= QueueSize /\ Len(deferred) \in Nat
      BY <1>1 DEF UpsertTypeOK
    <3>2. IsFiniteSet(Queued(deferred)) /\ Cardinality(Queued(deferred)) <= Len(deferred)
      BY <3>1, FewQueued
    <3>3. Cardinality(Queued(deferred)) \in Nat BY <3>2, FS_CardinalityType
    <3> QED BY <1>1, <3>1, <3>2, <3>3
  <2> DEFINE working == Queued(deferred) \cup InHand(work)
  <2>3. /\ IsFiniteSet(working) /\ Cardinality(working) \in Nat
        /\ Cardinality(working) <= QueueSize + 1
    <3>1. CASE InHand(work) = {} BY <1>1, <2>2, <3>1
    <3>2. CASE InHand(work) = {work.chat}
      <4>1. /\ IsFiniteSet(working)
            /\ \/ Cardinality(working) = Cardinality(Queued(deferred))
               \/ Cardinality(working) = Cardinality(Queued(deferred)) + 1
        BY <2>2, <3>2, FS_AddElement
      <4> QED BY <1>1, <2>2, <4>1
    <3> QED BY <3>1, <3>2 DEF InHand
  <2> HIDE DEF working
  <2>4. /\ IsFiniteSet(working \cup {fallback})
        /\ \/ Cardinality(working \cup {fallback}) = Cardinality(working)
           \/ Cardinality(working \cup {fallback}) = Cardinality(working) + 1
    BY <2>3, FS_AddElement
  <2>5. held = working \cup {fallback} BY DEF working
  <2>6. IsFiniteSet(unsure) /\ Cardinality(unsure) <= Cardinality(held)
    BY <2>1, <2>4, <2>5, FS_Subset
  <2>7. Cardinality(unsure) \in Nat BY <2>6, FS_CardinalityType
  <2> QED BY <1>1, <2>3, <2>4, <2>5, <2>6, <2>7
<1> QED BY <1>1, <1>2, <1>3, Numbers DEF ShutdownForgetsAQueueful

=============================================================================
