------------------------- MODULE PolicyTimelineProofs -------------------------
(***************************************************************************)
(* The timeline of a term, for any fields, values, rating, term and number  *)
(* of transactions in any order of their dates: its segments cover the term,*)
(* the later date governs, the past stays, and the adjustments add up.      *)
(*                                                                         *)
(* The order of replay is by date and then as processed.  Every induction   *)
(* is by the least counterexample: the first version, in that order, with   *)
(* a wrong payload; the smallest set with a wrong sum; the last boundary    *)
(* from which the adjustment is wrong.  What a day shows is the payload of  *)
(* the last version up to it, so a version that is added changes no day     *)
(* before its date.                                                         *)
(***************************************************************************)
EXTENDS PolicyTimeline, FiniteSetTheorems, WellFoundedInduction, TLAPS

-----------------------------------------------------------------------------
\* Sets of integers that are bounded on one side have an end there.
LEMMA LeastNatural ==
  ASSUME NEW S \in SUBSET Nat, S # {}
  PROVE  \E m \in S : \A k \in S : m <= k
<1>1. IsWellFoundedOn(OpToRel(<, Nat), Nat)
  BY NatLessThanWellFounded
<1>2. PICK m \in S : \A k \in S : ~ (<<k, m>> \in OpToRel(<, Nat))
  BY <1>1, WFMin
<1>3. \A k \in S : ~ (k < m)
  BY <1>2 DEF OpToRel
<1>. QED  BY <1>3

LEMMA MinIsLeast ==
  ASSUME NEW S \in SUBSET Int, S # {}, NEW b \in Int, \A x \in S : b <= x
  PROVE  Min(S) \in S /\ \A k \in S : Min(S) <= k
<1>. DEFINE D == {x - b : x \in S}
<1>1. D \in SUBSET Nat
  <2>1. \A x \in S : x - b \in Nat
    OBVIOUS
  <2>. QED  BY <2>1
<1>0. D # {}
  OBVIOUS
<1>2. PICK n \in D : \A k \in D : n <= k
  <2>. HIDE DEF D
  <2>. QED  BY <1>1, <1>0, LeastNatural
<1>3. PICK m \in S : n = m - b
  OBVIOUS
<1>4. ASSUME NEW k \in S PROVE m <= k
  <2>1. k - b \in D
    OBVIOUS
  <2>2. m - b <= k - b
    BY <1>2, <1>3, <2>1
  <2>. QED  BY <2>2
<1>. QED  BY <1>3, <1>4 DEF Min

LEMMA MaxIsGreatest ==
  ASSUME NEW S \in SUBSET Int, S # {}, NEW b \in Int, \A x \in S : x <= b
  PROVE  Max(S) \in S /\ \A k \in S : k <= Max(S)
<1>. DEFINE D == {b - x : x \in S}
<1>1. D \in SUBSET Nat
  <2>1. \A x \in S : b - x \in Nat
    OBVIOUS
  <2>. QED  BY <2>1
<1>0. D # {}
  OBVIOUS
<1>2. PICK n \in D : \A k \in D : n <= k
  <2>. HIDE DEF D
  <2>. QED  BY <1>1, <1>0, LeastNatural
<1>3. PICK m \in S : n = b - m
  OBVIOUS
<1>4. ASSUME NEW k \in S PROVE k <= m
  <2>1. b - k \in D
    OBVIOUS
  <2>2. b - m <= b - k
    BY <1>2, <1>3, <2>1
  <2>. QED  BY <2>2
<1>. QED  BY <1>3, <1>4 DEF Max

\* The later of two dates.
LEMMA LaterDate ==
  ASSUME NEW a \in Int, NEW b \in Int
  PROVE  Max({a, b}) = IF a < b THEN b ELSE a
<1>1. PICK c \in {a, b} : \A x \in {a, b} : x <= c
  OBVIOUS
<1>2. Max({a, b}) \in {a, b} /\ \A k \in {a, b} : k <= Max({a, b})
  BY <1>1, MaxIsGreatest
<1>. QED  BY <1>2

-----------------------------------------------------------------------------
\* The order in which versions are replayed.
Floor == IF Earliest < 0 THEN Earliest ELSE 0

\* Versions as the transactions of a term can leave them.
Timeline(vs) ==
  /\ vs \in Seq(Version)
  /\ Len(vs) >= 1
  /\ vs[1] = NewBusiness

LEMMA Dates ==
  ASSUME NEW vs \in Seq(Version)
  PROVE  /\ DOMAIN vs = 1..Len(vs)
         /\ \A i \in DOMAIN vs : vs[i] \in Version
         /\ \A i \in DOMAIN vs : vs[i].eff \in Int /\ Floor <= vs[i].eff /\ vs[i].eff <= Term
         /\ Floor \in Int
<1>. USE TermAssumption, EarliestAssumption
<1>1. DOMAIN vs = 1..Len(vs)
  OBVIOUS
<1>2. \A i \in 1..Len(vs) : vs[i] \in Version
  OBVIOUS
<1>3. \A v \in Version : v.eff \in Int /\ Floor <= v.eff /\ v.eff <= Term
  BY DEF Version, Date, Floor
<1>. QED  BY <1>1, <1>2, <1>3 DEF Floor

\* It is total and transitive.
LEMMA Order ==
  ASSUME NEW vs \in Seq(Version)
  PROVE  /\ \A i, j \in DOMAIN vs : i = j \/ Precedes(vs, i, j) \/ Precedes(vs, j, i)
         /\ \A i, j \in DOMAIN vs : Precedes(vs, i, j) => ~ Precedes(vs, j, i) /\ i # j
         /\ \A i, j, k \in DOMAIN vs :
              Precedes(vs, i, j) /\ Precedes(vs, j, k) => Precedes(vs, i, k)
BY Dates DEF Precedes

\* Some versions have a first one, by date and then as processed.
LEMMA FirstOf ==
  ASSUME NEW vs \in Seq(Version), NEW some \in SUBSET DOMAIN vs, some # {}
  PROVE  \E i \in some : \A j \in some \ {i} : Precedes(vs, i, j)
<1>. DEFINE E == {vs[i].eff : i \in some}
            e == Min(E)
            I == {i \in some : vs[i].eff = e}
<1>1. e \in E /\ \A d \in E : e <= d
  <2>1. E \in SUBSET Int /\ E # {} /\ Floor \in Int /\ \A d \in E : Floor <= d
    BY Dates
  <2>. HIDE DEF E
  <2>. QED  BY <2>1, MinIsLeast
<1>2. I \in SUBSET Nat /\ I # {}
  <2>1. \A i \in some : i \in Nat
    BY Dates
  <2>. QED  BY <1>1, <2>1
<1>3. PICK i \in I : \A k \in I : i <= k
  BY <1>2, LeastNatural
<1>4. ASSUME NEW j \in some \ {i} PROVE Precedes(vs, i, j)
  <2>1. vs[j].eff \in E /\ vs[j].eff \in Int /\ vs[i].eff = e /\ e \in Int /\ j \in Nat /\ i \in Nat
    BY Dates, <1>2
  <2>2. e <= vs[j].eff
    BY <1>1, <2>1
  <2>3. vs[j].eff = e => i <= j
    BY <1>3
  <2>. QED  BY <2>1, <2>2, <2>3 DEF Precedes
<1>. QED  BY <1>4

\* And a last one.
LEMMA LatestIsLast ==
  ASSUME NEW vs \in Seq(Version), NEW some \in SUBSET DOMAIN vs, some # {}
  PROVE  /\ Latest(vs, some) \in some
         /\ \A j \in some \ {Latest(vs, some)} : Precedes(vs, j, Latest(vs, some))
<1>. DEFINE E == {vs[i].eff : i \in some}
            e == Max(E)
            I == {i \in some : vs[i].eff = e}
<1>1. e \in E /\ \A d \in E : d <= e
  <2>1. E \in SUBSET Int /\ E # {} /\ Term \in Int /\ \A d \in E : d <= Term
    BY Dates, TermAssumption
  <2>. HIDE DEF E
  <2>. QED  BY <2>1, MaxIsGreatest
<1>2. I \in SUBSET Int /\ I # {} /\ Len(vs) \in Int /\ \A i \in I : i <= Len(vs)
  <2>1. \A i \in some : i \in Int /\ i <= Len(vs)
    BY Dates
  <2>2. Len(vs) \in Int
    OBVIOUS
  <2>. QED  BY <1>1, <2>1, <2>2
<1>. DEFINE i == Max(I)
<1>3. i \in I /\ \A k \in I : k <= i
  BY <1>2, MaxIsGreatest
<1>4. ASSUME NEW j \in some \ {i} PROVE Precedes(vs, j, i)
  <2>1. vs[j].eff \in E /\ vs[j].eff \in Int /\ vs[i].eff = e /\ e \in Int /\ j \in Int /\ i \in Int
    BY Dates, <1>2, <1>3
  <2>2. vs[j].eff <= e
    BY <1>1, <2>1
  <2>3. vs[j].eff = e => j <= i
    BY <1>3
  <2>. QED  BY <2>1, <2>2, <2>3 DEF Precedes
<1>. HIDE DEF i
<1>5. i \in some
  BY <1>3
<1>. QED  BY <1>4, <1>5 DEF Latest

-----------------------------------------------------------------------------
\* The running payload.
Step(vs, running, i) ==
  IF Before(vs, i) # {} /\ HasChangeSet(vs[i])
  THEN Patch(vs[i].changes, running[Latest(vs, Before(vs, i))])
  ELSE vs[i].payload

UpTo(vs, i) == Before(vs, i) \cup {i}

\* The versions up to one are those before it, with the last of them, and itself.
LEMMA Predecessor ==
  ASSUME NEW vs \in Seq(Version), NEW i \in InTerm(vs), Before(vs, i) # {}
  PROVE  LET p == Latest(vs, Before(vs, i)) IN
           p \in InTerm(vs) /\ Precedes(vs, p, i) /\ UpTo(vs, p) = Before(vs, i)
<1>. DEFINE p == Latest(vs, Before(vs, i))
<1>1. Before(vs, i) \in SUBSET DOMAIN vs /\ InTerm(vs) \in SUBSET DOMAIN vs
  BY DEF Before, InTerm
<1>2. p \in Before(vs, i) /\ \A j \in Before(vs, i) \ {p} : Precedes(vs, j, p)
  BY <1>1, LatestIsLast
<1>. HIDE DEF p
<1>3. \A j \in InTerm(vs) : Precedes(vs, j, p) => Precedes(vs, j, i)
  BY <1>1, <1>2, Order DEF Before
<1>. QED  BY <1>2, <1>3 DEF Before, UpTo, p

\* The recursion from each version to the one before it ends, so that what it
\* defines has the values of its definition.
LEMMA RunningExists ==
  ASSUME NEW vs \in Seq(Version)
  PROVE  \E f : f = [i \in InTerm(vs) |-> Step(vs, f, i)]
<1>. DEFINE Runs(i) == \E g : g = [j \in UpTo(vs, i) |-> Step(vs, g, j)]
            Bad == {i \in InTerm(vs) : ~ Runs(i)}
<1>1. InTerm(vs) \in SUBSET DOMAIN vs
  BY DEF InTerm
<1>2. Bad = {}
  <2>. SUFFICES ASSUME Bad # {} PROVE FALSE
    OBVIOUS
  <2>1. Bad \in SUBSET DOMAIN vs
    BY <1>1
  <2>2. PICK m \in Bad : \A j \in Bad \ {m} : Precedes(vs, m, j)
    <3>. HIDE DEF Bad
    <3>. QED  BY <2>1, FirstOf
  <2>3. m \in InTerm(vs) /\ ~ Runs(m)
    OBVIOUS
  <2>. HIDE DEF Runs
  <2>4. CASE Before(vs, m) = {}
    <3>. DEFINE g == [j \in {m} |-> vs[m].payload]
    <3>1. g = [j \in UpTo(vs, m) |-> Step(vs, g, j)]
      BY <2>4 DEF UpTo, Step
    <3>. QED  BY <2>3, <3>1 DEF Runs
  <2>5. CASE Before(vs, m) # {}
    <3>. DEFINE p == Latest(vs, Before(vs, m))
    <3>1. p \in InTerm(vs) /\ Precedes(vs, p, m) /\ UpTo(vs, p) = Before(vs, m)
      BY <2>3, <2>5, Predecessor
    <3>2. p \notin Bad
      BY <1>1, <2>2, <2>3, <3>1, Order
    <3>3. PICK h : h = [j \in UpTo(vs, p) |-> Step(vs, h, j)]
      BY <3>1, <3>2 DEF Runs
    <3>. DEFINE g == [j \in UpTo(vs, m) |-> IF j = m THEN Step(vs, h, m) ELSE h[j]]
    <3>4. m \notin UpTo(vs, p) /\ UpTo(vs, p) \subseteq UpTo(vs, m)
      BY <1>1, <2>3, <3>1, Order DEF UpTo, Before
    <3>5. Step(vs, g, m) = Step(vs, h, m)
      BY <2>5, <3>1, <3>4 DEF Step, UpTo
    <3>6. ASSUME NEW j \in UpTo(vs, p) PROVE Step(vs, g, j) = h[j]
      <4>1. j \in InTerm(vs) /\ h[j] = Step(vs, h, j)
        BY <3>1, <3>3 DEF Before
      <4>2. CASE Before(vs, j) = {}
        BY <4>1, <4>2 DEF Step
      <4>3. CASE Before(vs, j) # {}
        <5>. DEFINE q == Latest(vs, Before(vs, j))
        <5>1. q \in InTerm(vs) /\ Precedes(vs, q, j)
          BY <4>1, <4>3, Predecessor
        <5>2. q \in UpTo(vs, p)
          BY <1>1, <2>3, <3>1, <4>1, <5>1, Order DEF Before
        <5>3. g[q] = h[q]
          BY <3>4, <5>2
        <5>. QED  BY <4>1, <5>3 DEF Step
      <4>. QED  BY <4>2, <4>3
    <3>7. \A j \in UpTo(vs, m) : g[j] = Step(vs, g, j)
      BY <3>1, <3>4, <3>5, <3>6 DEF UpTo
    <3>8. g = [j \in UpTo(vs, m) |-> Step(vs, g, j)]
      <4>1. g = [j \in UpTo(vs, m) |-> g[j]]
        OBVIOUS
      <4>. HIDE DEF g
      <4>. QED  BY <3>7, <4>1
    <3>. QED  BY <2>3, <3>8 DEF Runs
  <2>. QED  BY <2>4, <2>5
<1>3. CASE InTerm(vs) = {}
  <2>. DEFINE g == [i \in {} |-> 0]
  <2>1. g = [i \in InTerm(vs) |-> Step(vs, g, i)]
    BY <1>3
  <2>. QED  BY <2>1
<1>4. CASE InTerm(vs) # {}
  <2>. DEFINE t == Latest(vs, InTerm(vs))
  <2>1. t \in InTerm(vs) /\ \A j \in InTerm(vs) \ {t} : Precedes(vs, j, t)
    BY <1>1, <1>4, LatestIsLast
  <2>. HIDE DEF t
  <2>2. UpTo(vs, t) = InTerm(vs)
    BY <2>1 DEF UpTo, Before
  <2>3. Runs(t)
    BY <1>2, <2>1
  <2>. QED  BY <2>2, <2>3
<1>. QED  BY <1>3, <1>4

LEMMA RunningPayload ==
  ASSUME NEW vs \in Seq(Version)
  PROVE  /\ DOMAIN Replayed(vs) = InTerm(vs)
         /\ \A i \in InTerm(vs) : Replayed(vs)[i] = Step(vs, Replayed(vs), i)
<1>. DEFINE Is(f) == f = [i \in InTerm(vs) |->
              IF Before(vs, i) # {} /\ HasChangeSet(vs[i])
              THEN Patch(vs[i].changes, f[Latest(vs, Before(vs, i))])
              ELSE vs[i].payload]
<1>1. \E f : Is(f)
  BY RunningExists DEF Step
<1>2. Replayed(vs) = CHOOSE f : Is(f)
  BY DEF Replayed
<1>. HIDE DEF Is
<1>3. Is(Replayed(vs))
  BY <1>1, <1>2
<1>. QED  BY <1>3 DEF Is, Step

LEMMA PatchType ==
  ASSUME NEW changes \in ChangeSet, NEW payload \in Payload
  PROVE  Patch(changes, payload) \in Payload
<1>1. \A f \in DOMAIN changes : changes[f] \in Value
  BY DEF ChangeSet
<1>. QED  BY <1>1 DEF Patch, Payload

LEMMA RunningType ==
  ASSUME NEW vs \in Seq(Version)
  PROVE  \A i \in InTerm(vs) : Replayed(vs)[i] \in Payload
<1>. DEFINE Bad == {i \in InTerm(vs) : Replayed(vs)[i] \notin Payload}
<1>1. InTerm(vs) \in SUBSET DOMAIN vs
  BY DEF InTerm
<1>. SUFFICES ASSUME Bad # {} PROVE FALSE
  OBVIOUS
<1>2. Bad \in SUBSET DOMAIN vs
  BY <1>1
<1>3. PICK m \in Bad : \A j \in Bad \ {m} : Precedes(vs, m, j)
  <2>. HIDE DEF Bad
  <2>. QED  BY <1>2, FirstOf
<1>4. m \in InTerm(vs) /\ vs[m] \in Version /\ Replayed(vs)[m] \notin Payload
  BY <1>1, Dates
<1>5. Replayed(vs)[m] = Step(vs, Replayed(vs), m)
  BY <1>4, RunningPayload
<1>6. vs[m].payload \in Payload /\ vs[m].changes \in ChangeSet
  BY <1>4 DEF Version
<1>7. CASE Before(vs, m) = {} \/ ~ HasChangeSet(vs[m])
  BY <1>4, <1>5, <1>6, <1>7 DEF Step
<1>8. CASE Before(vs, m) # {} /\ HasChangeSet(vs[m])
  <2>. DEFINE p == Latest(vs, Before(vs, m))
  <2>1. p \in InTerm(vs) /\ Precedes(vs, p, m)
    BY <1>4, <1>8, Predecessor
  <2>2. p \notin Bad
    BY <1>1, <1>3, <1>4, <2>1, Order
  <2>3. Replayed(vs)[p] \in Payload
    BY <2>1, <2>2
  <2>4. Replayed(vs)[m] = Patch(vs[m].changes, Replayed(vs)[p])
    BY <1>5, <1>8 DEF Step
  <2>. QED  BY <1>4, <1>6, <2>3, <2>4, PatchType
<1>. QED  BY <1>7, <1>8

-----------------------------------------------------------------------------
\* The segments.
From(vs, i) == IF vs[i].eff < 0 THEN 0 ELSE vs[i].eff
SegmentOf(vs, i) == [start |-> From(vs, i), end |-> NextDate(vs, i), source |-> i,
                     payload |-> Replayed(vs)[i]]
Shown(vs) == {i \in InTerm(vs) : LastOfItsDate(vs, i) /\ From(vs, i) < NextDate(vs, i)}

LEMMA TermDates ==
  ASSUME NEW vs \in Seq(Version)
  PROVE  /\ InTerm(vs) \in SUBSET DOMAIN vs
         /\ \A i \in InTerm(vs) : i \in Nat \ {0} /\ vs[i].eff \in Int /\ vs[i].eff < Term
BY Dates DEF InTerm

LEMMA NextDateIs ==
  ASSUME NEW vs \in Seq(Version), NEW i \in InTerm(vs)
  PROVE  /\ NextDate(vs, i) \in Int
         /\ vs[i].eff < NextDate(vs, i) /\ NextDate(vs, i) <= Term
         /\ NextDate(vs, i) = Term \/ \E j \in InTerm(vs) : vs[j].eff = NextDate(vs, i)
         /\ \A j \in InTerm(vs) : vs[i].eff < vs[j].eff => NextDate(vs, i) <= vs[j].eff
<1>. DEFINE D == {d \in {vs[j].eff : j \in InTerm(vs)} : d > vs[i].eff} \cup {Term}
<1>1. vs[i].eff \in Int /\ vs[i].eff < Term /\ Term \in Int
  BY TermDates, TermAssumption
<1>2. \A d \in D : d \in Int /\ vs[i].eff <= d /\ vs[i].eff < d
  BY <1>1, TermDates
<1>3. D \in SUBSET Int /\ D # {} /\ Term \in D
  BY <1>2
<1>4. NextDate(vs, i) = Min(D)
  BY DEF NextDate
<1>5. Min(D) \in D /\ \A d \in D : Min(D) <= d
  <2>. HIDE DEF D
  <2>. QED  BY <1>1, <1>2, <1>3, MinIsLeast
<1>6. \A j \in InTerm(vs) : vs[i].eff < vs[j].eff => vs[j].eff \in D
  BY <1>1, TermDates
<1>7. Min(D) \in Int /\ vs[i].eff < Min(D) /\ Min(D) <= Term
  <2>. HIDE DEF D
  <2>. QED  BY <1>1, <1>2, <1>3, <1>5
<1>8. Min(D) = Term \/ \E j \in InTerm(vs) : vs[j].eff = Min(D)
  BY <1>5
<1>9. \A j \in InTerm(vs) : vs[i].eff < vs[j].eff => Min(D) <= vs[j].eff
  <2>. HIDE DEF D
  <2>. QED  BY <1>5, <1>6
<1>. QED  BY <1>4, <1>7, <1>8, <1>9

LEMMA DerivedIs ==
  ASSUME NEW vs \in Seq(Version)
  PROVE  Derived(vs) = {SegmentOf(vs, i) : i \in Shown(vs)}
<1>1. \A i \in InTerm(vs) : Max({vs[i].eff, 0}) = From(vs, i)
  BY TermDates, LaterDate DEF From
<1>2. Shown(vs) = {i \in InTerm(vs) : LastOfItsDate(vs, i) /\ Max({vs[i].eff, 0}) < NextDate(vs, i)}
  BY <1>1 DEF Shown
<1>3. \A i \in Shown(vs) : Max({vs[i].eff, 0}) = From(vs, i)
  BY <1>1 DEF Shown
<1>. QED  BY <1>2, <1>3 DEF Derived, SegmentOf

LEMMA DerivedType ==
  ASSUME NEW vs \in Seq(Version), Len(vs) <= MaxVersions
  PROVE  Derived(vs) \subseteq Segment /\ \A s \in Derived(vs) : s.start < s.end
<1>. SUFFICES ASSUME NEW i \in Shown(vs)
              PROVE  SegmentOf(vs, i) \in Segment /\ From(vs, i) < NextDate(vs, i)
  BY DerivedIs DEF SegmentOf
<1>1. i \in InTerm(vs) /\ From(vs, i) < NextDate(vs, i)
  BY DEF Shown
<1>2. NextDate(vs, i) \in Int /\ NextDate(vs, i) <= Term
  BY <1>1, NextDateIs
<1>3. From(vs, i) \in Int /\ From(vs, i) >= 0
  BY <1>1, TermDates DEF From
<1>4. i \in 1..MaxVersions
  BY <1>1, Dates, TermDates, BoundAssumption
<1>5. Replayed(vs)[i] \in Payload
  BY <1>1, RunningType
<1>. QED  BY <1>1, <1>2, <1>3, <1>4, <1>5, TermAssumption DEF SegmentOf, Segment, Day

\* The version that shows at a day, and the versions replayed by then.
UpToDay(vs, d) == {i \in InTerm(vs) : vs[i].eff <= d}
At(vs, d) == Latest(vs, UpToDay(vs, d))

LEMMA AtIsLast ==
  ASSUME NEW vs, Timeline(vs), NEW d \in Day
  PROVE  /\ 1 \in UpToDay(vs, d)
         /\ At(vs, d) \in UpToDay(vs, d)
         /\ \A j \in UpToDay(vs, d) \ {At(vs, d)} : Precedes(vs, j, At(vs, d))
         /\ UpTo(vs, At(vs, d)) = UpToDay(vs, d)
<1>1. vs \in Seq(Version) /\ d \in Nat /\ d < Term
  BY TermAssumption DEF Timeline, Day
<1>2. 1 \in UpToDay(vs, d)
  <2>1. 1 \in DOMAIN vs /\ vs[1].eff = 0
    BY Dates DEF Timeline, NewBusiness
  <2>. QED  BY <1>1, <2>1, TermAssumption DEF UpToDay, InTerm
<1>3. UpToDay(vs, d) \in SUBSET DOMAIN vs
  BY DEF UpToDay, InTerm
<1>4. /\ At(vs, d) \in UpToDay(vs, d)
      /\ \A j \in UpToDay(vs, d) \ {At(vs, d)} : Precedes(vs, j, At(vs, d))
  BY <1>1, <1>2, <1>3, LatestIsLast DEF At
<1>5. ASSUME NEW j \in InTerm(vs), Precedes(vs, j, At(vs, d)) PROVE vs[j].eff <= d
  BY <1>1, <1>4, <1>5, TermDates DEF Precedes, UpToDay
<1>. QED  BY <1>2, <1>4, <1>5 DEF UpTo, Before, UpToDay

\* Every day is in the segment of that version, and in no other.
LEMMA SegmentAt ==
  ASSUME NEW vs, Timeline(vs), NEW d \in Day
  PROVE  {s \in Derived(vs) : s.start <= d /\ d < s.end} = {SegmentOf(vs, At(vs, d))}
<1>. DEFINE k == At(vs, d)
<1>1. vs \in Seq(Version) /\ d \in Nat /\ d < Term
  BY TermAssumption DEF Timeline, Day
<1>2. k \in InTerm(vs) /\ vs[k].eff <= d
  BY AtIsLast DEF UpToDay
<1>3. \A j \in UpToDay(vs, d) \ {k} : Precedes(vs, j, k)
  BY AtIsLast
<1>. HIDE DEF k
<1>4. /\ k \in Nat /\ vs[k].eff \in Int
      /\ \A j \in InTerm(vs) : j \in Nat /\ vs[j].eff \in Int
  BY <1>1, <1>2, TermDates
<1>5. ASSUME NEW j \in InTerm(vs), vs[j].eff <= d, j # k
      PROVE  vs[j].eff < vs[k].eff \/ (vs[j].eff = vs[k].eff /\ j < k)
  BY <1>3, <1>5 DEF UpToDay, Precedes
<1>6. LastOfItsDate(vs, k)
  BY <1>2, <1>4, <1>5 DEF LastOfItsDate
<1>7. From(vs, k) \in Int /\ From(vs, k) <= d
  BY <1>1, <1>2, <1>4 DEF From
<1>8. NextDate(vs, k) \in Int /\ d < NextDate(vs, k)
  <2>1. /\ NextDate(vs, k) \in Int /\ vs[k].eff < NextDate(vs, k)
        /\ NextDate(vs, k) = Term \/ \E j \in InTerm(vs) : vs[j].eff = NextDate(vs, k)
    BY <1>1, <1>2, NextDateIs
  <2>. QED  BY <1>1, <1>4, <1>5, <2>1
<1>9. k \in Shown(vs)
  BY <1>1, <1>2, <1>6, <1>7, <1>8 DEF Shown
<1>10. ASSUME NEW j \in Shown(vs), From(vs, j) <= d, d < NextDate(vs, j)
       PROVE  j = k
  <2>. SUFFICES ASSUME j # k PROVE FALSE
    OBVIOUS
  <2>1. j \in InTerm(vs) /\ vs[j].eff <= d
    BY <1>1, <1>4, <1>10 DEF Shown, From
  <2>2. CASE vs[j].eff < vs[k].eff
    <3>1. NextDate(vs, j) \in Int /\ NextDate(vs, j) <= vs[k].eff
      BY <1>1, <1>2, <2>1, <2>2, NextDateIs
    <3>. QED  BY <1>1, <1>2, <1>4, <1>10, <3>1
  <2>3. CASE vs[j].eff = vs[k].eff /\ j < k
    <3>1. LastOfItsDate(vs, j)
      BY <1>10 DEF Shown
    <3>2. k <= j
      BY <1>2, <2>3, <3>1 DEF LastOfItsDate
    <3>. QED  BY <1>4, <2>1, <2>3, <3>2
  <2>. QED  BY <1>5, <2>1, <2>2, <2>3
<1>11. \A j \in Shown(vs) : /\ SegmentOf(vs, j).start = From(vs, j)
                            /\ SegmentOf(vs, j).end = NextDate(vs, j)
  BY DEF SegmentOf
<1>12. Derived(vs) = {SegmentOf(vs, i) : i \in Shown(vs)}
  BY <1>1, DerivedIs
<1>. HIDE DEF k
<1>13. {s \in Derived(vs) : s.start <= d /\ d < s.end} = {SegmentOf(vs, k)}
  BY <1>7, <1>8, <1>9, <1>10, <1>11, <1>12
<1>. QED  BY <1>13 DEF k

\* So that is what the timeline has at the day.
LEMMA StateAtDay ==
  ASSUME NEW vs, Timeline(vs), NEW d \in Day
  PROVE  /\ StateAt(Derived(vs), d) = SegmentOf(vs, At(vs, d))
         /\ StateAt(Derived(vs), d).payload = Replayed(vs)[At(vs, d)]
         /\ StateAt(Derived(vs), d) \in Derived(vs)
<1>. DEFINE one == SegmentOf(vs, At(vs, d))
<1>1. {s \in Derived(vs) : s.start <= d /\ d < s.end} = {one}
  BY SegmentAt
<1>2. one.payload = Replayed(vs)[At(vs, d)]
  BY DEF SegmentOf
<1>. HIDE DEF one
<1>3. one \in Derived(vs) /\ one.start <= d /\ d < one.end
  BY <1>1
<1>4. \A s \in Derived(vs) : s.start <= d /\ d < s.end => s = one
  BY <1>1
<1>5. StateAt(Derived(vs), d) = one
  BY <1>3, <1>4 DEF StateAt
<1>. QED  BY <1>2, <1>3, <1>5 DEF one

\* Outside of the term there is a segment to take, too.
LEMMA StateAtType ==
  ASSUME NEW segs \in SUBSET Segment, segs # {}, NEW d \in Int
  PROVE  StateAt(segs, d) \in segs
<1>. DEFINE B == {s.start : s \in segs}
<1>1. B \in SUBSET Int /\ B # {} /\ \A b \in B : 0 <= b /\ b <= Term - 1
  BY TermAssumption DEF Segment, Day
<1>2. Min(B) \in B /\ \A b \in B : Min(B) <= b
  <2>. HIDE DEF B
  <2>. QED  BY <1>1, MinIsLeast
<1>3. Max(B) \in B /\ \A b \in B : b <= Max(B)
  <2>1. Term - 1 \in Int
    BY TermAssumption
  <2>. HIDE DEF B
  <2>. QED  BY <1>1, <2>1, MaxIsGreatest
<1>4. PICK s \in segs : s.start = Min(B)
  BY <1>2
<1>5. PICK t \in segs : t.start = Max(B)
  BY <1>3
<1>6. \A u \in segs : u.start \in B /\ s.start <= u.start
  BY <1>2, <1>4
<1>7. \A u \in segs : t.start >= u.start
  BY <1>1, <1>3, <1>5
<1>. QED  BY <1>6, <1>7 DEF StateAt

-----------------------------------------------------------------------------
\* The word of each version on each field.

\* The payload of an endorsement with a change set has its changes.
Recorded(vs) ==
  \A i \in DOMAIN vs : HasChangeSet(vs[i]) =>
    \A f \in DOMAIN vs[i].changes : vs[i].payload[f] = vs[i].changes[f]

\* The last of some versions to set a field.
Settles(vs, some, f, k) ==
  /\ k \in some /\ f \in Sets(vs[k])
  /\ \A j \in some \ {k} : f \in Sets(vs[j]) => Precedes(vs, j, k)

\* From the first day of the term on, replaying gives a field the value of the
\* version that settles it; a version from before the term is not followed up to
\* its own predecessors, but the new business version sets every field after it.
LEMMA Settled ==
  ASSUME NEW vs, Timeline(vs), Recorded(vs), NEW f \in Field
  PROVE  \A i \in InTerm(vs) : i = 1 \/ Precedes(vs, 1, i) =>
           \A k \in UpTo(vs, i) : Settles(vs, UpTo(vs, i), f, k) =>
             Replayed(vs)[i][f] = vs[k].payload[f]
<1>. DEFINE Ok(i) == \A k \in UpTo(vs, i) : Settles(vs, UpTo(vs, i), f, k) =>
                       Replayed(vs)[i][f] = vs[k].payload[f]
            Bad == {i \in InTerm(vs) : (i = 1 \/ Precedes(vs, 1, i)) /\ ~ Ok(i)}
<1>. SUFFICES ASSUME Bad # {} PROVE FALSE
  OBVIOUS
<1>1. vs \in Seq(Version)
  BY DEF Timeline
<1>2. InTerm(vs) \in SUBSET DOMAIN vs
  BY DEF InTerm
<1>3. Bad \in SUBSET DOMAIN vs
  BY <1>2
<1>4. PICK m \in Bad : \A j \in Bad \ {m} : Precedes(vs, m, j)
  <2>. HIDE DEF Bad
  <2>. QED  BY <1>1, <1>3, FirstOf
<1>5. m \in InTerm(vs) /\ (m = 1 \/ Precedes(vs, 1, m)) /\ ~ Ok(m)
  OBVIOUS
<1>6. PICK k \in UpTo(vs, m) : /\ Settles(vs, UpTo(vs, m), f, k)
                               /\ Replayed(vs)[m][f] # vs[k].payload[f]
  BY <1>5
<1>. HIDE DEF Ok
<1>7. Replayed(vs)[m] = Step(vs, Replayed(vs), m)
  BY <1>1, <1>5, RunningPayload
<1>8. UpTo(vs, m) \in SUBSET DOMAIN vs
  BY <1>2, <1>5 DEF UpTo, Before
<1>9. 1 \in InTerm(vs) /\ Sets(vs[1]) = Field /\ ~ HasChangeSet(vs[1])
  BY <1>1, Dates, TermAssumption DEF Timeline, NewBusiness, InTerm, Sets, HasChangeSet
<1>10. CASE f \in Sets(vs[m])
  <2>1. k = m
    BY <1>1, <1>2, <1>5, <1>6, <1>8, <1>10, Order DEF Settles, UpTo, Before
  <2>2. CASE ~ HasChangeSet(vs[m])
    BY <1>6, <1>7, <2>1, <2>2 DEF Step
  <2>3. CASE HasChangeSet(vs[m])
    <3>1. f \in DOMAIN vs[m].changes
      BY <1>10, <2>3 DEF Sets
    <3>2. vs[m].payload[f] = vs[m].changes[f]
      BY <1>2, <1>5, <2>3, <3>1 DEF Recorded
    <3>3. Replayed(vs)[m][f] = vs[m].payload[f]
      BY <1>7, <3>1, <3>2 DEF Step, Patch
    <3>. QED  BY <1>6, <2>1, <3>3
  <2>. QED  BY <2>2, <2>3
<1>11. CASE f \notin Sets(vs[m])
  <2>1. HasChangeSet(vs[m]) /\ f \notin DOMAIN vs[m].changes /\ m # 1
    BY <1>9, <1>11 DEF Sets
  <2>2. 1 \in Before(vs, m)
    BY <1>5, <1>9, <2>1 DEF Before
  <2>. DEFINE p == Latest(vs, Before(vs, m))
  <2>3. p \in InTerm(vs) /\ Precedes(vs, p, m) /\ UpTo(vs, p) = Before(vs, m)
    BY <1>1, <1>5, <2>2, Predecessor
  <2>4. Replayed(vs)[m][f] = Replayed(vs)[p][f]
    BY <1>7, <2>1, <2>2 DEF Step, Patch
  <2>. HIDE DEF p
  <2>5. p = 1 \/ Precedes(vs, 1, p)
    BY <1>9, <2>2, <2>3 DEF UpTo, Before
  <2>6. p \notin Bad
    BY <1>1, <1>2, <1>4, <1>5, <2>3, Order
  <2>7. Ok(p)
    BY <2>3, <2>5, <2>6
  <2>8. k # m /\ k \in UpTo(vs, p) /\ Settles(vs, UpTo(vs, p), f, k)
    BY <1>6, <1>11, <2>3 DEF Settles, UpTo
  <2>. QED  BY <1>6, <2>4, <2>7, <2>8 DEF Ok
<1>. QED  BY <1>10, <1>11

-----------------------------------------------------------------------------
\* Sums over finite sets.
Chosen(T) == CHOOSE x \in T : TRUE

\* What a fold of + computes for each subset of S.
Folds(F, f, S) ==
  F = [T \in SUBSET S |-> IF T = {} THEN 0 ELSE f[Chosen(T)] + F[T \ {Chosen(T)}]]

\* F gives the sum of f over each subset of S, whatever element is taken first.
Sums(F, f, S) ==
  /\ F \in [SUBSET S -> Int]
  /\ F[{}] = 0
  /\ \A T \in SUBSET S : \A x \in T : F[T] = f[x] + F[T \ {x}]

\* Among some subsets there is a smallest one: without one of its elements it is
\* not among them.
LEMMA SmallestSet ==
  ASSUME NEW S, IsFiniteSet(S), NEW some \in SUBSET SUBSET S, some # {}
  PROVE  \E T \in some : \A x \in T : T \ {x} \notin some
<1>. DEFINE sizes == {Cardinality(T) : T \in some}
<1>1. \A T \in SUBSET S : IsFiniteSet(T) /\ Cardinality(T) \in Nat
  BY FS_Subset, FS_CardinalityType
<1>2. sizes \in SUBSET Nat /\ sizes # {}
  BY <1>1
<1>3. PICK n \in sizes : \A k \in sizes : n <= k
  <2>. HIDE DEF sizes
  <2>. QED  BY <1>2, LeastNatural
<1>4. PICK T \in some : Cardinality(T) = n
  OBVIOUS
<1>5. ASSUME NEW x \in T, T \ {x} \in some PROVE FALSE
  <2>1. Cardinality(T \ {x}) = Cardinality(T) - 1
    BY <1>1, FS_RemoveElement
  <2>2. Cardinality(T \ {x}) \in sizes
    BY <1>5
  <2>3. n <= Cardinality(T \ {x}) /\ Cardinality(T) \in Nat
    BY <1>1, <1>3, <2>2
  <2>. QED  BY <1>4, <2>1, <2>3
<1>. QED  BY <1>5

LEMMA ChosenIs ==
  ASSUME NEW T, T # {}
  PROVE  Chosen(T) \in T
BY DEF Chosen

\* The recursion over the subsets ends.
LEMMA SumExists ==
  ASSUME NEW S, IsFiniteSet(S), NEW f
  PROVE  \E F : Folds(F, f, S)
<1>. DEFINE Upto(n) == {T \in SUBSET S : Cardinality(T) <= n}
            Of(g, T) == IF T = {} THEN 0 ELSE f[Chosen(T)] + g[T \ {Chosen(T)}]
            Has(n) == \E g : g = [T \in Upto(n) |-> Of(g, T)]
            Bad == {n \in Nat : ~ Has(n)}
<1>1. \A T \in SUBSET S : /\ IsFiniteSet(T)
                         /\ Cardinality(T) \in Nat /\ Cardinality(T) <= Cardinality(S)
  BY FS_Subset, FS_CardinalityType
<1>2. \A T \in SUBSET S : \A x \in T : Cardinality(T \ {x}) = Cardinality(T) - 1
  BY <1>1, FS_RemoveElement
<1>3. Bad = {}
  <2>. SUFFICES ASSUME Bad # {} PROVE FALSE
    OBVIOUS
  <2>1. Bad \in SUBSET Nat
    OBVIOUS
  <2>2. PICK m \in Bad : \A k \in Bad : m <= k
    <3>. HIDE DEF Bad
    <3>. QED  BY <2>1, LeastNatural
  <2>3. m \in Nat /\ ~ Has(m)
    OBVIOUS
  <2>4. CASE m = 0
    <3>. DEFINE g == [T \in Upto(0) |-> 0]
    <3>1. \A T \in Upto(0) : T = {}
      BY <1>1, FS_EmptySet
    <3>2. g = [T \in Upto(0) |-> Of(g, T)]
      BY <3>1
    <3>. HIDE DEF g, Of, Upto
    <3>. QED  BY <2>3, <2>4, <3>2
  <2>5. CASE m > 0
    <3>1. m - 1 \in Nat /\ m - 1 \notin Bad
      <4>. HIDE DEF Bad
      <4>. QED  BY <2>2, <2>3, <2>5
    <3>2. PICK h : h = [T \in Upto(m - 1) |-> Of(h, T)]
      <4>. HIDE DEF Of, Upto
      <4>. QED  BY <3>1
    <3>. DEFINE g == [T \in Upto(m) |-> Of(h, T)]
    <3>3. \A T \in Upto(m) : T # {} => T \ {Chosen(T)} \in Upto(m - 1)
      BY <1>1, <1>2, <2>3, ChosenIs
    <3>4. Upto(m - 1) \subseteq Upto(m)
      BY <1>1, <2>3
    <3>5. \A T \in Upto(m - 1) : g[T] = h[T]
      <4>. HIDE DEF Of, Upto
      <4>. QED  BY <3>2, <3>4
    <3>6. \A T \in Upto(m) : Of(g, T) = Of(h, T)
      <4>. HIDE DEF g, Upto
      <4>. QED  BY <3>3, <3>5
    <3>7. g = [T \in Upto(m) |-> Of(g, T)]
      <4>. HIDE DEF Of, Upto
      <4>. QED  BY <3>6
    <3>. HIDE DEF g, Of, Upto
    <3>. QED  BY <2>3, <3>7
  <2>. QED  BY <2>3, <2>4, <2>5
<1>4. Cardinality(S) \in Nat /\ Upto(Cardinality(S)) = SUBSET S
  BY <1>1
<1>5. Has(Cardinality(S))
  <2>. HIDE DEF Has
  <2>. QED  BY <1>3, <1>4
<1>. QED  BY <1>4, <1>5 DEF Folds

\* So SumFunction is that sum.
LEMMA SumIs ==
  ASSUME NEW S, IsFiniteSet(S), NEW f \in [S -> Int]
  PROVE  \E F : Sums(F, f, S) /\ SumFunction(f) = F[S]
<1>. DEFINE F == CHOOSE g : Folds(g, f, S)
<1>1. \E g : Folds(g, f, S)
  BY SumExists
<1>2. SumFunction(f) = F[S]
  <2>1. DOMAIN f = S
    OBVIOUS
  <2>2. SumFunction(f) = FoldFunctionOnSet(+, 0, f, S)
    BY <2>1 DEF SumFunction, SumFunctionOnSet
  <2>. QED  BY <2>2 DEF FoldFunctionOnSet, MapThenFoldSet, Folds, Chosen
<1>3. Folds(F, f, S)
  BY <1>1
<1>. HIDE DEF F
<1>4. /\ F[{}] = 0
      /\ \A T \in SUBSET S : T # {} => F[T] = f[Chosen(T)] + F[T \ {Chosen(T)}]
  BY <1>3 DEF Folds
<1>5. \A T \in SUBSET S : F[T] \in Int
  <2>. DEFINE Bad == {T \in SUBSET S : F[T] \notin Int}
  <2>. SUFFICES ASSUME Bad # {} PROVE FALSE
    OBVIOUS
  <2>1. PICK T \in Bad : \A x \in T : T \ {x} \notin Bad
    <3>1. Bad \in SUBSET SUBSET S
      OBVIOUS
    <3>. HIDE DEF Bad
    <3>. QED  BY <3>1, SmallestSet
  <2>0. T \in SUBSET S /\ F[T] \notin Int
    OBVIOUS
  <2>2. T # {} /\ T \in SUBSET S
    <3>1. F[{}] \in Int
      BY <1>4
    <3>. QED  BY <2>0, <3>1
  <2>3. Chosen(T) \in T /\ T \ {Chosen(T)} \in SUBSET S
    BY <2>2, ChosenIs
  <2>4. F[T \ {Chosen(T)}] \in Int /\ f[Chosen(T)] \in Int
    BY <2>1, <2>2, <2>3
  <2>. HIDE DEF Bad
  <2>. QED  BY <1>4, <2>0, <2>2, <2>4
<1>6. \A T \in SUBSET S : \A x \in T : F[T] = f[x] + F[T \ {x}]
  <2>. DEFINE Bad == {T \in SUBSET S : \E x \in T : F[T] # f[x] + F[T \ {x}]}
  <2>. SUFFICES ASSUME Bad # {} PROVE FALSE
    OBVIOUS
  <2>1. PICK T \in Bad : \A x \in T : T \ {x} \notin Bad
    <3>1. Bad \in SUBSET SUBSET S
      OBVIOUS
    <3>. HIDE DEF Bad
    <3>. QED  BY <3>1, SmallestSet
  <2>2. PICK x \in T : F[T] # f[x] + F[T \ {x}]
    OBVIOUS
  <2>. DEFINE c == Chosen(T)
  <2>3. T \in SUBSET S /\ c \in T /\ F[T] = f[c] + F[T \ {c}]
    BY <1>4, <2>2, ChosenIs
  <2>. HIDE DEF c
  <2>4. x # c
    BY <2>2, <2>3
  <2>5. /\ T \ {c} \in SUBSET S /\ x \in T \ {c} /\ T \ {c} \notin Bad
        /\ T \ {x} \in SUBSET S /\ c \in T \ {x} /\ T \ {x} \notin Bad
    BY <2>1, <2>3, <2>4
  <2>. DEFINE R == (T \ {x}) \ {c}
  <2>6. (T \ {c}) \ {x} = R /\ R \in SUBSET S
    BY <2>3
  <2>7. F[T \ {c}] = f[x] + F[R] /\ F[T \ {x}] = f[c] + F[R]
    BY <2>5, <2>6
  <2>8. f[x] \in Int /\ f[c] \in Int /\ F[R] \in Int
    BY <1>5, <2>3, <2>6
  <2>9. F[T] # f[x] + F[T \ {x}]
    BY <2>2
  <2>. HIDE DEF Bad, R
  <2>. QED  BY <2>3, <2>7, <2>8, <2>9
<1>7. F \in [SUBSET S -> Int]
  <2>1. DOMAIN F = SUBSET S /\ F = [T \in DOMAIN F |-> F[T]]
    BY <1>3 DEF Folds
  <2>. QED  BY <1>5, <2>1
<1>8. Sums(F, f, S)
  BY <1>4, <1>6, <1>7 DEF Sums
<1>. QED  BY <1>2, <1>8

LEMMA SumUnion ==
  ASSUME NEW S, IsFiniteSet(S), NEW f \in [S -> Int], NEW F, Sums(F, f, S),
         NEW T \in SUBSET S, NEW U \in SUBSET S, T \cap U = {}
  PROVE  F[T \cup U] = F[T] + F[U]
<1>. DEFINE Bad == {V \in SUBSET S : T \cap V = {} /\ F[T \cup V] # F[T] + F[V]}
<1>. SUFFICES ASSUME Bad # {} PROVE FALSE
  OBVIOUS
<1>1. PICK V \in Bad : \A x \in V : V \ {x} \notin Bad
  <2>1. Bad \in SUBSET SUBSET S
    OBVIOUS
  <2>. HIDE DEF Bad
  <2>. QED  BY <2>1, SmallestSet
<1>2. V \in SUBSET S /\ T \cap V = {} /\ F[T \cup V] # F[T] + F[V]
  OBVIOUS
<1>3. \A W \in SUBSET S : F[W] \in Int
  BY DEF Sums
<1>4. V # {}
  <2>. SUFFICES ASSUME V = {} PROVE FALSE
    OBVIOUS
  <2>1. T \cup V = T /\ F[V] = 0
    BY DEF Sums
  <2>. QED  BY <1>2, <1>3, <2>1
<1>5. PICK x \in V : TRUE
  BY <1>4
<1>6. V \ {x} \in SUBSET S /\ T \cap (V \ {x}) = {} /\ V \ {x} \notin Bad
  BY <1>1, <1>2, <1>5
<1>7. F[T \cup (V \ {x})] = F[T] + F[V \ {x}]
  BY <1>6
<1>8. F[V] = f[x] + F[V \ {x}]
  BY <1>2, <1>5 DEF Sums
<1>9. F[T \cup V] = f[x] + F[T \cup (V \ {x})]
  <2>1. T \cup V \in SUBSET S /\ x \in T \cup V /\ (T \cup V) \ {x} = T \cup (V \ {x})
    BY <1>2, <1>5
  <2>2. F[T \cup V] = f[x] + F[(T \cup V) \ {x}]
    BY <2>1 DEF Sums
  <2>. QED  BY <2>1, <2>2
<1>10. f[x] \in Int
  BY <1>2, <1>5
<1>. QED  BY <1>2, <1>3, <1>6, <1>7, <1>8, <1>9, <1>10

\* Equal amounts have equal sums.
LEMMA SumEqual ==
  ASSUME NEW S, IsFiniteSet(S), NEW f, NEW g, NEW F, NEW G, Sums(F, f, S), Sums(G, g, S),
         NEW T \in SUBSET S, \A x \in T : f[x] = g[x]
  PROVE  F[T] = G[T]
<1>. DEFINE Bad == {V \in SUBSET T : F[V] # G[V]}
<1>. SUFFICES ASSUME Bad # {} PROVE FALSE
  OBVIOUS
<1>1. PICK V \in Bad : \A x \in V : V \ {x} \notin Bad
  <2>1. Bad \in SUBSET SUBSET S
    OBVIOUS
  <2>. HIDE DEF Bad
  <2>. QED  BY <2>1, SmallestSet
<1>2. V \in SUBSET T /\ V \in SUBSET S /\ F[V] # G[V]
  OBVIOUS
<1>3. V # {}
  BY <1>2 DEF Sums
<1>4. PICK x \in V : TRUE
  BY <1>3
<1>5. F[V \ {x}] = G[V \ {x}]
  BY <1>1, <1>2, <1>4
<1>6. F[V] = f[x] + F[V \ {x}] /\ G[V] = g[x] + G[V \ {x}]
  BY <1>2, <1>4 DEF Sums
<1>. QED  BY <1>2, <1>4, <1>5, <1>6

\* The sum of one amount, as often as there are elements.
LEMMA SumConstant ==
  ASSUME NEW S, IsFiniteSet(S), NEW f, NEW F, Sums(F, f, S),
         NEW T \in SUBSET S, NEW c \in Int, \A x \in T : f[x] = c
  PROVE  F[T] = c * Cardinality(T)
<1>. DEFINE Bad == {V \in SUBSET T : F[V] # c * Cardinality(V)}
<1>. SUFFICES ASSUME Bad # {} PROVE FALSE
  OBVIOUS
<1>1. PICK V \in Bad : \A x \in V : V \ {x} \notin Bad
  <2>1. Bad \in SUBSET SUBSET S
    OBVIOUS
  <2>. HIDE DEF Bad
  <2>. QED  BY <2>1, SmallestSet
<1>2. V \in SUBSET T /\ V \in SUBSET S /\ F[V] # c * Cardinality(V)
  OBVIOUS
<1>3. IsFiniteSet(V) /\ Cardinality(V) \in Nat
  BY <1>2, FS_Subset, FS_CardinalityType
<1>4. V # {}
  <2>1. F[{}] = 0 /\ Cardinality({}) = 0 /\ c * 0 = 0
    BY FS_EmptySet DEF Sums
  <2>. HIDE DEF Bad
  <2>. QED  BY <1>2, <2>1
<1>5. PICK x \in V : TRUE
  BY <1>4
<1>6. F[V \ {x}] = c * Cardinality(V \ {x}) /\ Cardinality(V \ {x}) = Cardinality(V) - 1
  BY <1>1, <1>2, <1>3, <1>5, FS_RemoveElement
<1>7. F[V] = c + F[V \ {x}]
  BY <1>2, <1>5 DEF Sums
<1>8. \A n \in Nat : c + c * (n - 1) = c * n
  OBVIOUS
<1>. QED  BY <1>2, <1>3, <1>6, <1>7, <1>8

-----------------------------------------------------------------------------
\* The adjustment between two timelines.

Partition(segs) ==
  /\ segs \subseteq Segment
  /\ \A d \in Day : \E s \in segs : /\ s.start <= d /\ d < s.end
                                    /\ \A t \in segs : t.start <= d /\ d < t.end => t = s

LEMMA DerivedPartition ==
  ASSUME NEW vs, Timeline(vs), Len(vs) <= MaxVersions
  PROVE  Partition(Derived(vs))
<1>1. Derived(vs) \subseteq Segment
  BY DerivedType DEF Timeline
<1>2. ASSUME NEW d \in Day
      PROVE  \E s \in Derived(vs) : /\ s.start <= d /\ d < s.end
               /\ \A t \in Derived(vs) : t.start <= d /\ d < t.end => t = s
  <2>. DEFINE one == SegmentOf(vs, At(vs, d))
  <2>1. {s \in Derived(vs) : s.start <= d /\ d < s.end} = {one}
    BY SegmentAt
  <2>. HIDE DEF one
  <2>2. one \in Derived(vs) /\ one.start <= d /\ d < one.end
    BY <2>1
  <2>3. \A t \in Derived(vs) : t.start <= d /\ d < t.end => t = one
    BY <2>1
  <2>. QED  BY <2>2, <2>3
<1>. QED  BY <1>1, <1>2 DEF Partition

LEMMA DayType ==
  /\ Day \in SUBSET Int /\ IsFiniteSet(Day)
  /\ \A d \in Int : d \in Day <=> 0 <= d /\ d < Term
  BY TermAssumption, FS_Interval DEF Day

LEMMA StateIs ==
  ASSUME NEW segs, Partition(segs), NEW d \in Day
  PROVE  /\ StateAt(segs, d) \in segs
         /\ StateAt(segs, d).start <= d /\ d < StateAt(segs, d).end
         /\ StateAt(segs, d).start \in Int /\ StateAt(segs, d).end \in Int
         /\ StateAt(segs, d).end <= Term
         /\ \A t \in segs : t.start <= d /\ d < t.end => t = StateAt(segs, d)
<1>1. PICK s \in segs : /\ s.start <= d /\ d < s.end
                        /\ \A t \in segs : t.start <= d /\ d < t.end => t = s
  BY DEF Partition
<1>2. StateAt(segs, d) = s
  BY <1>1 DEF StateAt
<1>3. s \in Segment
  BY DEF Partition
<1>4. s.start \in Int /\ s.end \in Int /\ s.end <= Term
  BY <1>3, TermAssumption DEF Segment, Day
<1>. QED  BY <1>1, <1>2, <1>4

LEMMA PremiumType ==
  ASSUME NEW segs, Partition(segs), NEW d \in Day
  PROVE  PremiumAt(segs, d) \in Int
<1>1. StateAt(segs, d) \in Segment
  BY StateIs DEF Partition
<1>2. StateAt(segs, d).payload \in Payload
  BY <1>1 DEF Segment
<1>. QED  BY <1>2, PremiumAssumption DEF PremiumAt

LEMMA BoundariesAre ==
  ASSUME NEW old, NEW new, Partition(old), Partition(new), NEW from \in Day
  PROVE  LET B == Boundaries(old, new, from) IN
         /\ B \in SUBSET Int /\ IsFiniteSet(B)
         /\ from \in B /\ Term \in B
         /\ \A b \in B : from <= b /\ b <= Term
         /\ \A b \in B, s \in old \cup new : s.start <= b /\ b < s.end => s.end \in B
<1>. DEFINE clipped == {[start |-> Max({s.start, from}), end |-> s.end] : s \in old \cup new}
            shown == {c \in clipped : c.start < c.end}
            B == {from, Term} \cup {c.start : c \in shown} \cup {c.end : c \in shown}
<1>1. from \in Int /\ 0 <= from /\ from < Term /\ Term \in Int
  BY DayType, TermAssumption
<1>2. \A s \in old \cup new : s.start \in Int /\ s.end \in Int /\ s.end <= Term
  BY TermAssumption DEF Partition, Segment, Day
<1>3. \A s \in old \cup new : Max({s.start, from}) = IF s.start < from THEN from ELSE s.start
  BY <1>1, <1>2, LaterDate
<1>4. \A c \in shown : /\ c.start \in Int /\ c.end \in Int
                       /\ from <= c.start /\ c.start < c.end /\ c.end <= Term
  <2>. SUFFICES ASSUME NEW c \in shown
                PROVE  /\ c.start \in Int /\ c.end \in Int
                       /\ from <= c.start /\ c.start < c.end /\ c.end <= Term
    OBVIOUS
  <2>1. PICK s \in old \cup new : c = [start |-> Max({s.start, from}), end |-> s.end]
    OBVIOUS
  <2>2. c.start = Max({s.start, from}) /\ c.end = s.end /\ c.start < c.end
    BY <2>1
  <2>. QED  BY <1>1, <1>2, <1>3, <2>2
<1>5. \A b \in B : b \in Int /\ from <= b /\ b <= Term
  <2>. HIDE DEF shown
  <2>. QED  BY <1>1, <1>4
<1>6. B \subseteq from..Term
  <2>. HIDE DEF B
  <2>. QED  BY <1>1, <1>5
<1>7. IsFiniteSet(B)
  <2>. HIDE DEF B
  <2>. QED  BY <1>1, <1>6, FS_Interval, FS_Subset
<1>8. ASSUME NEW b \in B, NEW s \in old \cup new, s.start <= b, b < s.end
      PROVE  s.end \in B
  <2>. DEFINE c == [start |-> Max({s.start, from}), end |-> s.end]
  <2>1. c \in clipped /\ c.end = s.end /\ c.start = Max({s.start, from})
    OBVIOUS
  <2>2. c.start < c.end
    <3>1. b \in Int /\ from <= b
      BY <1>5
    <3>. HIDE DEF c, B
    <3>. QED  BY <1>1, <1>2, <1>3, <1>8, <2>1, <3>1
  <2>. QED  BY <2>1, <2>2
<1>9. Boundaries(old, new, from) = B
  BY DEF Boundaries
<1>. HIDE DEF B
<1>. QED  BY <1>5, <1>7, <1>8, <1>9 DEF B

\* Between a boundary and the next nothing changes.
LEMMA Interval ==
  ASSUME NEW segs, Partition(segs), NEW b \in Day, NEW e \in Int, b < e, e <= Term,
         StateAt(segs, b).end >= e
  PROVE  \A d \in b..(e - 1) : d \in Day /\ PremiumAt(segs, d) = PremiumAt(segs, b)
<1>. SUFFICES ASSUME NEW d \in b..(e - 1)
              PROVE  d \in Day /\ PremiumAt(segs, d) = PremiumAt(segs, b)
  OBVIOUS
<1>1. b \in Int /\ 0 <= b /\ b < Term /\ Term \in Int
  BY DayType, TermAssumption
<1>2. d \in Day
  BY <1>1, DayType
<1>. DEFINE s == StateAt(segs, b)
<1>3. s \in segs /\ s.start \in Int /\ s.end \in Int /\ s.start <= b /\ e <= s.end
  BY StateIs
<1>. HIDE DEF s
<1>4. s.start <= d /\ d < s.end
  BY <1>1, <1>3
<1>5. s = StateAt(segs, d)
  BY <1>2, <1>3, <1>4, StateIs
<1>. QED  BY <1>2, <1>5 DEF PremiumAt, s

LEMMA EarnedIs ==
  ASSUME NEW segs, Partition(segs)
  PROVE  \E F : Sums(F, [d \in Day |-> PremiumAt(segs, d)], Day) /\ Earned(segs) = F[Day]
<1>1. [d \in Day |-> PremiumAt(segs, d)] \in [Day -> Int]
  BY PremiumType
<1>. QED  BY <1>1, DayType, SumIs DEF Earned

\* The adjustment is what the premium of the days changes by, if it does not change
\* before the effective date.
LEMMA RetroIsChange ==
  ASSUME NEW old, NEW new, Partition(old), Partition(new), NEW eff \in Int,
         \A d \in Day : d < eff => PremiumAt(old, d) = PremiumAt(new, d)
  PROVE  /\ Retro(old, new, eff) \in Int
         /\ Retro(old, new, eff) = Earned(new) - Earned(old)
<1>. DEFINE f == [d \in Day |-> PremiumAt(old, d)]
            g == [d \in Day |-> PremiumAt(new, d)]
<1>1. f \in [Day -> Int] /\ g \in [Day -> Int]
  BY PremiumType
<1>2. PICK F : Sums(F, f, Day) /\ Earned(old) = F[Day]
  BY EarnedIs
<1>3. PICK G : Sums(G, g, Day) /\ Earned(new) = G[Day]
  BY EarnedIs
<1>4. \A T \in SUBSET Day : F[T] \in Int /\ G[T] \in Int
  BY <1>2, <1>3 DEF Sums
<1>5. IsFiniteSet(Day)
  BY DayType
<1>0. Term \in Int /\ Day = 0..Term - 1
  BY TermAssumption DEF Day
<1>. DEFINE from == Max({eff, 0})
<1>6. from = IF eff < 0 THEN 0 ELSE eff
  BY LaterDate
<1>7. ASSUME NEW T \in SUBSET Day, \A d \in T : d < eff PROVE F[T] = G[T]
  <2>1. \A d \in T : f[d] = g[d]
    BY <1>7
  <2>. HIDE DEF f, g
  <2>. QED  BY <1>2, <1>3, <1>5, <2>1, SumEqual
<1>. HIDE DEF from
<1>8. CASE from >= Term
  <2>1. Retro(old, new, eff) = 0
    BY <1>8 DEF Retro, from
  <2>2. \A d \in Day : d < eff
    BY <1>0, <1>6, <1>8, TermAssumption
  <2>3. F[Day] = G[Day]
    BY <1>7, <2>2
  <2>. QED  BY <1>2, <1>3, <1>4, <2>1, <2>3
<1>9. CASE ~ (from >= Term)
  <2>. DEFINE B == Boundaries(old, new, from)
              S == B \ {Term}
              end(b) == Min({c \in B : c > b})
              delta == [b \in S |-> (PremiumAt(new, b) - PremiumAt(old, b)) * (end(b) - b)]
  <2>1. Retro(old, new, eff) = SumFunction(delta)
    BY <1>9 DEF Retro, from
  <2>2. from \in Day
    BY <1>0, <1>6, <1>9
  <2>3. /\ B \in SUBSET Int /\ IsFiniteSet(B)
        /\ from \in B /\ Term \in B
        /\ \A b \in B : from <= b /\ b <= Term
        /\ \A b \in B, s \in old \cup new : s.start <= b /\ b < s.end => s.end \in B
    BY <2>2, BoundariesAre
  <2>. HIDE DEF B
  <2>4. S \in SUBSET Day /\ IsFiniteSet(S)
    <3>1. \A b \in S : b \in Int /\ 0 <= b /\ b < Term
      BY <1>0, <1>6, <2>3
    <3>2. S \in SUBSET Day
      <4>. HIDE DEF S
      <4>. QED  BY <3>1, DayType
    <3>. QED  BY <1>5, <3>2, FS_Subset
  <2>5. ASSUME NEW b \in S
        PROVE  /\ end(b) \in B /\ end(b) \in Int /\ b < end(b) /\ end(b) <= Term
               /\ \A c \in B : c > b => end(b) <= c
    <3>. DEFINE C == {c \in B : c > b}
    <3>1. b \in Int /\ b < Term
      BY <2>4, DayType
    <3>2. C \in SUBSET Int /\ C # {} /\ \A c \in C : b <= c
      <4>1. Term \in C
        BY <2>3, <3>1
      <4>2. \A c \in C : c \in Int /\ b <= c
        BY <2>3, <3>1
      <4>. QED  BY <4>1, <4>2
    <3>3. Min(C) \in C /\ \A c \in C : Min(C) <= c
      <4>. HIDE DEF C
      <4>. QED  BY <3>1, <3>2, MinIsLeast
    <3>. QED  BY <2>3, <3>3
  <2>. HIDE DEF S, end
  <2>6. \A b \in S : PremiumAt(old, b) \in Int /\ PremiumAt(new, b) \in Int /\ b \in Int
    BY <2>4, PremiumType, DayType
  <2>7. delta \in [S -> Int]
    BY <2>5, <2>6
  <2>8. PICK D : Sums(D, delta, S) /\ SumFunction(delta) = D[S]
    <3>. HIDE DEF delta
    <3>. QED  BY <2>4, <2>7, SumIs
  <2>. DEFINE Rest(b) == b..(Term - 1)
              Above(b) == {c \in S : c >= b}
              Bad == {b \in B : G[Rest(b)] - F[Rest(b)] # D[Above(b)]}
  <2>9. \A b \in B : Rest(b) \in SUBSET Day /\ Above(b) \in SUBSET S
    BY <1>0, <1>6, <2>3
  <2>10. \A T \in SUBSET S : D[T] \in Int
    BY <2>8 DEF Sums
  <2>11. Bad = {}
    <3>. SUFFICES ASSUME Bad # {} PROVE FALSE
      OBVIOUS
    <3>1. Bad \in SUBSET Int /\ \A b \in Bad : b <= Term
      BY <2>3
    <3>2. PICK b \in Bad : \A c \in Bad : c <= b
      <4>. HIDE DEF Bad
      <4>. QED  BY <1>0, <3>1, MaxIsGreatest
    <3>3. b \in B /\ b \in Int /\ b <= Term /\ G[Rest(b)] - F[Rest(b)] # D[Above(b)]
      BY <3>1
    <3>4. CASE b = Term
      <4>1. Rest(b) = {} /\ Above(b) = {}
        <5>1. Term..(Term - 1) = {}
          BY <1>0
        <5>2. \A c \in S : c \in Int /\ c < Term
          BY <2>4, DayType
        <5>. QED  BY <1>0, <3>4, <5>1, <5>2
      <4>2. F[{}] = 0 /\ G[{}] = 0 /\ D[{}] = 0
        BY <1>2, <1>3, <2>8 DEF Sums
      <4>. HIDE DEF Rest, Above, Bad
      <4>. QED  BY <3>3, <4>1, <4>2
    <3>5. CASE b # Term
      <4>. DEFINE e == end(b)
                  Run == b..(e - 1)
      <4>1. b \in S /\ b \in Day
        BY <2>4, <3>3, <3>5 DEF S
      <4>2. e \in B /\ e \in Int /\ b < e /\ e <= Term /\ \A c \in B : c > b => e <= c
        BY <2>5, <4>1
      <4>. HIDE DEF e
      <4>3. e \notin Bad
        <5>. HIDE DEF Bad
        <5>. QED  BY <3>2, <3>3, <4>2
      <4>4. G[Rest(e)] - F[Rest(e)] = D[Above(e)]
        BY <4>2, <4>3
      <4>5. /\ Run \in SUBSET Day /\ Rest(e) \in SUBSET Day
            /\ Rest(b) = Run \cup Rest(e) /\ Run \cap Rest(e) = {}
        BY <1>0, <1>6, <2>3, <3>3, <4>1, <4>2, DayType
      <4>6. Cardinality(Run) = e - b
        BY <3>3, <4>2, FS_Interval
      <4>7. StateAt(old, b).end >= e /\ StateAt(new, b).end >= e
        <5>1. ASSUME NEW segs \in {old, new} PROVE StateAt(segs, b).end >= e
          <6>1. Partition(segs) /\ segs \subseteq old \cup new
            OBVIOUS
          <6>2. /\ StateAt(segs, b) \in segs /\ StateAt(segs, b).end \in Int
                /\ StateAt(segs, b).start <= b /\ b < StateAt(segs, b).end
            BY <4>1, <6>1, StateIs
          <6>3. StateAt(segs, b).end \in B
            BY <2>3, <3>3, <6>1, <6>2
          <6>. QED  BY <3>3, <4>2, <6>2, <6>3
        <5>. QED  BY <5>1
      <4>8. \A d \in Run : /\ PremiumAt(old, d) = PremiumAt(old, b)
                           /\ PremiumAt(new, d) = PremiumAt(new, b)
        BY <4>1, <4>2, <4>7, Interval
      <4>9. \A d \in Run : f[d] = PremiumAt(old, b) /\ g[d] = PremiumAt(new, b)
        BY <4>5, <4>8
      <4>. DEFINE p == PremiumAt(old, b)
                  q == PremiumAt(new, b)
      <4>10. p \in Int /\ q \in Int
        BY <2>6, <4>1
      <4>. HIDE DEF f, g, p, q, Run
      <4>11. F[Run] = p * (e - b)
        BY <1>2, <1>5, <4>5, <4>6, <4>9, <4>10, SumConstant DEF p
      <4>12. G[Run] = q * (e - b)
        BY <1>3, <1>5, <4>5, <4>6, <4>9, <4>10, SumConstant DEF q
      <4>13. F[Rest(b)] = F[Run] + F[Rest(e)] /\ G[Rest(b)] = G[Run] + G[Rest(e)]
        <5>. HIDE DEF Rest, Above, Bad, delta
        <5>1. F[Run \cup Rest(e)] = F[Run] + F[Rest(e)]
          BY <1>1, <1>2, <1>5, <4>5, SumUnion
        <5>2. G[Run \cup Rest(e)] = G[Run] + G[Rest(e)]
          BY <1>1, <1>3, <1>5, <4>5, SumUnion
        <5>. QED  BY <4>5, <5>1, <5>2
      <4>14. D[Above(b)] = delta[b] + D[Above(e)]
        <5>1. b \in Above(b) /\ Above(b) \in SUBSET S
          BY <3>3, <4>1
        <5>2. Above(b) \ {b} = Above(e)
          <6>1. \A c \in S : c \in Int /\ (c > b => e <= c)
            BY <2>6, <4>2 DEF S
          <6>2. \A c \in S : (c >= b /\ c # b) <=> c >= e
            BY <3>3, <4>2, <6>1
          <6>. QED  BY <6>2
        <5>3. D[Above(b)] = delta[b] + D[Above(b) \ {b}]
          <6>. HIDE DEF delta, Above
          <6>. QED  BY <2>8, <5>1 DEF Sums
        <5>. QED  BY <5>2, <5>3
      <4>15. delta[b] = (q - p) * (e - b)
        BY <4>1 DEF p, q, e
      <4>16. (q - p) * (e - b) = q * (e - b) - p * (e - b)
        <5>1. \A x, y, z \in Int : (x - y) * z = x * z - y * z
          OBVIOUS
        <5>2. e - b \in Int
          BY <3>3, <4>2
        <5>. QED  BY <4>10, <5>1, <5>2
      <4>17. /\ F[Rest(e)] \in Int /\ G[Rest(e)] \in Int /\ D[Above(e)] \in Int
             /\ p * (e - b) \in Int /\ q * (e - b) \in Int
        <5>1. Rest(e) \in SUBSET Day /\ Above(e) \in SUBSET S
          BY <2>9, <4>2
        <5>2. e - b \in Int
          BY <3>3, <4>2
        <5>. HIDE DEF Rest, Above
        <5>. QED  BY <1>4, <2>10, <4>10, <5>1, <5>2
      <4>. HIDE DEF Rest, Above, delta, Bad
      <4>. QED  BY <3>3, <4>4, <4>11, <4>12, <4>13, <4>14, <4>15, <4>16, <4>17
    <3>. QED  BY <3>4, <3>5
  <2>12. G[Rest(from)] - F[Rest(from)] = D[S]
    <3>1. Above(from) = S
      BY <2>3 DEF S
    <3>. QED  BY <2>3, <2>11, <3>1
  <2>. DEFINE Past == 0..(from - 1)
  <2>13. /\ Past \in SUBSET Day /\ Rest(from) \in SUBSET Day
         /\ Day = Past \cup Rest(from) /\ Past \cap Rest(from) = {}
         /\ \A d \in Past : d < eff
    BY <1>0, <1>6, <1>9
  <2>. HIDE DEF Past, Rest, f, g
  <2>14. F[Day] = F[Past] + F[Rest(from)] /\ G[Day] = G[Past] + G[Rest(from)]
    BY <1>1, <1>2, <1>3, <1>5, <2>13, SumUnion
  <2>15. F[Past] = G[Past]
    BY <1>7, <2>13
  <2>16. D[S] \in Int
    BY <2>10
  <2>. HIDE DEF delta
  <2>. QED  BY <1>2, <1>3, <1>4, <2>1, <2>8, <2>12, <2>13, <2>14, <2>15, <2>16
<1>. QED  BY <1>8, <1>9

-----------------------------------------------------------------------------
\* A transaction adds the version processed last.  Before its effective date the
\* same versions are replayed, in the same order.
LEMMA PastStays ==
  ASSUME NEW vs, Timeline(vs), NEW v \in Version, NEW d \in Day, d < v.eff
  PROVE  /\ Timeline(Append(vs, v))
         /\ StateAt(Derived(Append(vs, v)), d).payload = StateAt(Derived(vs), d).payload
<1>. DEFINE ws == Append(vs, v)
            n == Len(vs) + 1
<1>1. /\ vs \in Seq(Version) /\ Len(vs) >= 1 /\ Len(vs) \in Nat /\ DOMAIN vs = 1..Len(vs)
      /\ ws \in Seq(Version) /\ Len(ws) = n /\ DOMAIN ws = DOMAIN vs \cup {n}
      /\ ws[n] = v /\ \A i \in DOMAIN vs : ws[i] = vs[i]
      /\ n \notin DOMAIN vs
  BY DEF Timeline
<1>2. Timeline(ws)
  BY <1>1 DEF Timeline
<1>3. d \in Int /\ v.eff \in Int
  BY DayType, TermAssumption, EarliestAssumption DEF Version, Date
<1>. HIDE DEF ws, n
<1>4. UpToDay(ws, d) = UpToDay(vs, d)
  BY <1>1, <1>3 DEF UpToDay, InTerm
<1>5. \A i, j \in DOMAIN vs : Precedes(ws, i, j) <=> Precedes(vs, i, j)
  BY <1>1 DEF Precedes
<1>6. ASSUME NEW some \in SUBSET DOMAIN vs, some # {} PROVE Latest(ws, some) = Latest(vs, some)
  <2>1. some \in SUBSET DOMAIN ws
    BY <1>1
  <2>2. /\ Latest(ws, some) \in some
        /\ \A j \in some \ {Latest(ws, some)} : Precedes(ws, j, Latest(ws, some))
    BY <1>1, <1>6, <2>1, LatestIsLast
  <2>3. /\ Latest(vs, some) \in some
        /\ \A j \in some \ {Latest(vs, some)} : Precedes(vs, j, Latest(vs, some))
    BY <1>1, <1>6, LatestIsLast
  <2>4. ASSUME Latest(ws, some) # Latest(vs, some) PROVE FALSE
    <3>1. /\ Precedes(vs, Latest(ws, some), Latest(vs, some))
          /\ Precedes(ws, Latest(vs, some), Latest(ws, some))
      BY <2>2, <2>3, <2>4
    <3>2. Precedes(vs, Latest(vs, some), Latest(ws, some))
      BY <1>5, <2>2, <2>3, <3>1
    <3>. QED  BY <1>1, <2>2, <2>3, <3>1, <3>2, Order
  <2>. QED  BY <2>4
<1>7. UpToDay(vs, d) \in SUBSET DOMAIN vs /\ InTerm(vs) \in SUBSET DOMAIN vs
  BY DEF UpToDay, InTerm
<1>8. At(ws, d) = At(vs, d) /\ At(vs, d) \in UpToDay(vs, d)
  BY <1>4, <1>6, <1>7, AtIsLast DEF At
<1>9. ASSUME NEW i \in UpToDay(vs, d)
      PROVE  /\ i \in InTerm(vs) /\ i \in InTerm(ws)
             /\ Before(ws, i) = Before(vs, i) /\ Before(vs, i) \in SUBSET UpToDay(vs, d)
  <2>1. i \in InTerm(vs) /\ i \in InTerm(ws) /\ vs[i].eff <= d /\ vs[i].eff \in Int /\ ws[i] = vs[i]
    BY <1>1, <1>4, <1>7, TermDates DEF UpToDay
  <2>2. ~ Precedes(ws, n, i)
    BY <1>1, <1>3, <2>1 DEF Precedes
  <2>3. \A j \in DOMAIN vs : j \in InTerm(ws) <=> j \in InTerm(vs)
    BY <1>1 DEF InTerm
  <2>4. Before(ws, i) = Before(vs, i)
    <3>1. \A j \in InTerm(ws) : j \in DOMAIN vs \/ j = n
      BY <1>1 DEF InTerm
    <3>. QED  BY <1>5, <1>7, <2>1, <2>2, <2>3, <3>1 DEF Before
  <2>5. ASSUME NEW j \in InTerm(vs), Precedes(vs, j, i) PROVE vs[j].eff <= d
    BY <1>1, <1>3, <2>1, <2>5, TermDates DEF Precedes
  <2>. QED  BY <2>1, <2>4, <2>5 DEF Before, UpToDay
<1>10. \A i \in UpToDay(vs, d) : Replayed(ws)[i] = Replayed(vs)[i]
  <2>. DEFINE Bad == {i \in UpToDay(vs, d) : Replayed(ws)[i] # Replayed(vs)[i]}
  <2>. SUFFICES ASSUME Bad # {} PROVE FALSE
    OBVIOUS
  <2>1. Bad \in SUBSET DOMAIN vs
    BY <1>7
  <2>2. PICK m \in Bad : \A j \in Bad \ {m} : Precedes(vs, m, j)
    <3>. HIDE DEF Bad
    <3>. QED  BY <1>1, <2>1, FirstOf
  <2>3. m \in UpToDay(vs, d) /\ Replayed(ws)[m] # Replayed(vs)[m]
    OBVIOUS
  <2>4. /\ m \in InTerm(vs) /\ m \in InTerm(ws)
        /\ Before(ws, m) = Before(vs, m) /\ Before(vs, m) \in SUBSET UpToDay(vs, d)
    BY <1>9, <2>3
  <2>5. Replayed(vs)[m] = Step(vs, Replayed(vs), m) /\ Replayed(ws)[m] = Step(ws, Replayed(ws), m)
    BY <1>1, <2>4, RunningPayload
  <2>6. ws[m] = vs[m]
    BY <1>1, <1>7, <2>4
  <2>7. CASE Before(vs, m) = {}
    BY <2>3, <2>4, <2>5, <2>6, <2>7 DEF Step
  <2>8. CASE Before(vs, m) # {}
    <3>. DEFINE p == Latest(vs, Before(vs, m))
    <3>1. p \in InTerm(vs) /\ Precedes(vs, p, m)
      BY <1>1, <2>4, <2>8, Predecessor
    <3>2. p \in Before(vs, m)
      BY <3>1 DEF Before
    <3>3. p \notin Bad
      BY <1>1, <1>7, <2>2, <2>4, <3>1, Order
    <3>4. Replayed(ws)[p] = Replayed(vs)[p]
      BY <2>4, <3>2, <3>3
    <3>5. Latest(ws, Before(ws, m)) = p
      <4>1. Before(vs, m) \in SUBSET DOMAIN vs
        BY <1>7 DEF Before
      <4>. QED  BY <1>6, <2>4, <2>8, <4>1
    <3>. HIDE DEF p, Bad
    <3>6. Step(ws, Replayed(ws), m) = Step(vs, Replayed(vs), m)
      BY <2>4, <2>6, <3>4, <3>5 DEF Step, p
    <3>. QED  BY <2>3, <2>5, <3>6
  <2>. QED  BY <2>7, <2>8
<1>11. /\ StateAt(Derived(ws), d).payload = Replayed(ws)[At(ws, d)]
       /\ StateAt(Derived(vs), d).payload = Replayed(vs)[At(vs, d)]
  BY <1>2, StateAtDay
<1>12. StateAt(Derived(ws), d).payload = StateAt(Derived(vs), d).payload
  BY <1>8, <1>10, <1>11
<1>. QED  BY <1>2, <1>12 DEF ws

-----------------------------------------------------------------------------
IInv ==
  /\ TypeOK
  /\ Timeline(versions)
  /\ Recorded(versions)
  /\ segments = Derived(versions)
  /\ AdjustmentsAddUp

\* The term has a day, and so its timeline a segment.
LEMMA SomeSegment ==
  ASSUME NEW segs, Partition(segs)
  PROVE  segs # {} /\ segs \in SUBSET Segment
<1>1. 0 \in Day
  BY DayType, TermAssumption
<1>. QED  BY <1>1 DEF Partition

LEMMA EarnedType ==
  ASSUME NEW segs, Partition(segs)
  PROVE  Earned(segs) \in Int
<1>1. PICK F : Sums(F, [d \in Day |-> PremiumAt(segs, d)], Day) /\ Earned(segs) = F[Day]
  BY EarnedIs
<1>. QED  BY <1>1 DEF Sums

LEMMA NewBusinessAlone ==
  /\ NewBusiness \in Version /\ ~ HasChangeSet(NewBusiness)
  /\ <<NewBusiness>> \in Seq(Version) /\ Timeline(<<NewBusiness>>)
<1>1. NoChanges \in ChangeSet
  <2>1. NoChanges \in [{} -> Value] /\ {} \in SUBSET Field
    BY DEF NoChanges
  <2>. QED  BY <2>1 DEF ChangeSet
<1>2. NewBusiness \in Version /\ ~ HasChangeSet(NewBusiness)
  BY <1>1, FirstAssumption DEF NewBusiness, Version, HasChangeSet
<1>. QED  BY <1>2 DEF Timeline

LEMMA InitIInv == Init => IInv
<1>. SUFFICES ASSUME Init PROVE IInv
  OBVIOUS
<1>1. versions = <<NewBusiness>> /\ segments = Derived(versions) /\ adjusted = 0 /\ noted = 0
  BY DEF Init
<1>2. Timeline(versions) /\ versions \in Seq(Version) /\ Len(versions) = 1
  BY <1>1, NewBusinessAlone
<1>3. Recorded(versions)
  <2>1. \A i \in DOMAIN versions : versions[i] = NewBusiness
    BY <1>1
  <2>. QED  BY <2>1, NewBusinessAlone DEF Recorded
<1>4. Partition(segments)
  <2>1. Len(versions) <= MaxVersions
    BY <1>2, BoundAssumption
  <2>. QED  BY <1>1, <1>2, <2>1, DerivedPartition
<1>5. TypeOK
  BY <1>1, <1>2, <1>4, BoundAssumption DEF TypeOK, Init, Partition
<1>6. AdjustmentsAddUp
  <2>1. Earned(segments) \in Int
    BY <1>4, EarnedType
  <2>. QED  BY <1>1, <2>1 DEF AdjustmentsAddUp
<1>. QED  BY <1>1, <1>2, <1>3, <1>5, <1>6 DEF IInv

\* What a transaction changes of the past: nothing.
Untouched ==
  \A d \in Day : d < Last(versions').eff =>
    StateAt(segments', d).payload = StateAt(segments, d).payload

\* A new version keeps the invariant, if its payload has its changes, since before
\* its date nothing changes and the adjustment is of the days from there on.
LEMMA RebuildPreserves ==
  ASSUME IInv, NEW v \in Version, Rebuild(v), status' \in {"Issued", "Cancelled"},
         \/ adjusted' = adjusted + Moved(v) /\ noted' = noted
         \/ noted' = noted + Moved(v) /\ adjusted' = adjusted,
         HasChangeSet(v) => \A f \in DOMAIN v.changes : v.payload[f] = v.changes[f]
  PROVE  IInv' /\ Untouched
<1>. DEFINE ws == Append(versions, v)
<1>1. /\ versions \in Seq(Version) /\ Len(versions) \in Nat /\ Len(versions) < MaxVersions
      /\ Len(versions) >= 1 /\ MaxVersions \in Nat
      /\ adjusted \in Int /\ noted \in Int /\ segments = Derived(versions) /\ Timeline(versions)
      /\ Recorded(versions) /\ AdjustmentsAddUp
  BY BoundAssumption DEF IInv, TypeOK, Rebuild, Timeline
<1>2. /\ versions' = ws /\ segments' = Derived(ws)
      /\ Moved(v) = Retro(Derived(versions), Derived(ws), v.eff)
  BY DEF Rebuild, Moved
<1>3. /\ ws \in Seq(Version) /\ Len(ws) = Len(versions) + 1 /\ Last(ws) = v
      /\ DOMAIN ws = DOMAIN versions \cup {Len(versions) + 1} /\ ws[Len(versions) + 1] = v
      /\ \A i \in DOMAIN versions : ws[i] = versions[i]
  BY <1>1 DEF Last
<1>4. Timeline(ws)
  BY <1>1, <1>3 DEF Timeline
<1>. HIDE DEF ws
<1>5. \A d \in Day : d < v.eff =>
        StateAt(Derived(ws), d).payload = StateAt(Derived(versions), d).payload
  BY <1>1, PastStays DEF ws
<1>6. Partition(Derived(versions)) /\ Partition(Derived(ws))
  BY <1>1, <1>3, <1>4, DerivedPartition
<1>7. Recorded(ws)
  <2>. SUFFICES ASSUME NEW i \in DOMAIN ws, HasChangeSet(ws[i]), NEW f \in DOMAIN ws[i].changes
                PROVE  ws[i].payload[f] = ws[i].changes[f]
    BY DEF Recorded
  <2>1. CASE i \in DOMAIN versions
    BY <1>1, <1>3, <2>1 DEF Recorded
  <2>2. CASE i = Len(versions) + 1
    BY <1>3, <2>2
  <2>. QED  BY <1>3, <2>1, <2>2
<1>8. v.eff \in Int
  BY TermAssumption, EarliestAssumption DEF Version, Date
<1>9. \A d \in Day : d < v.eff => PremiumAt(Derived(versions), d) = PremiumAt(Derived(ws), d)
  BY <1>5 DEF PremiumAt
<1>10. /\ Retro(Derived(versions), Derived(ws), v.eff) \in Int
       /\ Retro(Derived(versions), Derived(ws), v.eff)
            = Earned(Derived(ws)) - Earned(Derived(versions))
  BY <1>6, <1>8, <1>9, RetroIsChange
<1>11. TypeOK'
  <2>1. segments' \subseteq Segment /\ adjusted' \in Int /\ noted' \in Int
    BY <1>1, <1>2, <1>6, <1>10 DEF Partition
  <2>2. versions' \in Seq(Version) /\ Len(versions') \in 1..MaxVersions
    BY <1>1, <1>2, <1>3
  <2>. QED  BY <2>1, <2>2 DEF TypeOK
<1>12. AdjustmentsAddUp'
  <2>1. /\ Earned(Derived(ws)) \in Int /\ Earned(Derived(versions)) \in Int
        /\ Earned(Derived(<<NewBusiness>>)) \in Int
    <3>1. Partition(Derived(<<NewBusiness>>))
      <4>1. Len(<<NewBusiness>>) <= MaxVersions
        BY BoundAssumption
      <4>. QED  BY <4>1, NewBusinessAlone, DerivedPartition
    <3>. QED  BY <1>6, <3>1, EarnedType
  <2>2. adjusted + noted = Earned(Derived(versions)) - Earned(Derived(<<NewBusiness>>))
    BY <1>1 DEF AdjustmentsAddUp
  <2>3. adjusted' + noted' = Earned(Derived(ws)) - Earned(Derived(<<NewBusiness>>))
    <3>. DEFINE move == Retro(Derived(versions), Derived(ws), v.eff)
                was  == Earned(Derived(versions))
                now  == Earned(Derived(ws))
                base == Earned(Derived(<<NewBusiness>>))
    <3>1. adjusted' + noted' = adjusted + noted + move
      <4>1. move \in Int /\ adjusted \in Int /\ noted \in Int
        BY <1>1, <1>10
      <4>2. \/ adjusted' = adjusted + move /\ noted' = noted
            \/ noted' = noted + move /\ adjusted' = adjusted
        BY <1>2
      <4>. HIDE DEF move
      <4>. QED  BY <4>1, <4>2
    <3>2. move = now - was /\ adjusted + noted = was - base
      BY <1>10, <2>2
    <3>3. now \in Int /\ was \in Int /\ base \in Int /\ move \in Int
      BY <1>10, <2>1
    <3>. HIDE DEF move, was, now, base
    <3>4. adjusted' + noted' = now - base
      BY <1>1, <3>1, <3>2, <3>3
    <3>. QED  BY <3>4 DEF now, base
  <2>. QED  BY <1>2, <2>3 DEF AdjustmentsAddUp
<1>13. Untouched
  BY <1>1, <1>2, <1>3, <1>5 DEF Untouched
<1>. QED  BY <1>2, <1>4, <1>7, <1>11, <1>12, <1>13 DEF IInv

LEMMA EndorsePreserves ==
  ASSUME IInv, NEW eff \in Date, NEW changes \in ChangeSet, Endorse(eff, changes)
  PROVE  IInv' /\ Untouched
<1>. DEFINE previous == StateAt(Derived(versions), eff).payload
            v == [type |-> "Endorse", eff |-> eff, changes |-> changes,
                  payload |-> Patch(changes, previous), given |-> FALSE]
<1>1. /\ Rebuild(v) /\ status' = status /\ status \in {"Issued", "Cancelled"}
      /\ adjusted' = adjusted + Moved(v) /\ noted' = noted
  BY DEF Endorse, IInv, TypeOK
<1>2. Partition(Derived(versions))
  BY DerivedPartition, BoundAssumption DEF IInv, TypeOK
<1>3. previous \in Payload
  <2>1. eff \in Int
    BY TermAssumption, EarliestAssumption DEF Date
  <2>2. StateAt(Derived(versions), eff) \in Segment
    BY <1>2, <2>1, SomeSegment, StateAtType
  <2>. QED  BY <2>2 DEF Segment
<1>4. Patch(changes, previous) \in Payload
  BY <1>3, PatchType
<1>5. v \in Version
  BY <1>4 DEF Version
<1>6. \A f \in DOMAIN changes : Patch(changes, previous)[f] = changes[f]
  <2>1. DOMAIN changes \subseteq Field
    BY DEF ChangeSet
  <2>. QED  BY <2>1 DEF Patch
<1>. QED  BY <1>1, <1>5, <1>6, RebuildPreserves

LEMMA StandsPreserves ==
  ASSUME IInv, NEW type \in {"Cancel", "Reinstate"}, NEW eff \in Date,
         NEW payload \in Payload, NEW given \in BOOLEAN,
         Stands(type, eff, payload, given), status' \in {"Issued", "Cancelled"}
  PROVE  IInv' /\ Untouched
<1>. DEFINE v == [type |-> type, eff |-> eff, changes |-> NoChanges,
                  payload |-> payload, given |-> given]
<1>1. NoChanges \in ChangeSet
  BY NewBusinessAlone DEF NewBusiness, Version
<1>2. /\ v \in Version /\ Rebuild(v) /\ ~ HasChangeSet(v)
      /\ noted' = noted + Moved(v) /\ adjusted' = adjusted
  BY <1>1 DEF Version, Stands, HasChangeSet
<1>. QED  BY <1>2, RebuildPreserves

LEMMA NextPreserves ==
  ASSUME IInv, Next
  PROVE  IInv' /\ Untouched
<1>1. PICK eff \in Date :
        \/ \E changes \in ChangeSet : Endorse(eff, changes)
        \/ \E payload \in Payload, given \in BOOLEAN :
             Cancel(eff, payload, given) \/ Reinstate(eff, payload, given)
  BY DEF Next
<1>2. CASE \E changes \in ChangeSet : Endorse(eff, changes)
  BY <1>2, EndorsePreserves
<1>3. ASSUME NEW payload \in Payload, NEW given \in BOOLEAN,
             Cancel(eff, payload, given) \/ Reinstate(eff, payload, given)
      PROVE  IInv' /\ Untouched
  <2>1. PICK type \in {"Cancel", "Reinstate"} :
          Stands(type, eff, payload, given) /\ status' \in {"Issued", "Cancelled"}
    BY <1>3 DEF Cancel, Reinstate
  <2>. QED  BY <2>1, StandsPreserves
<1>. QED  BY <1>1, <1>2, <1>3

LEMMA StutterPreserves ==
  ASSUME IInv, UNCHANGED vars
  PROVE  IInv'
BY DEF IInv, vars, TypeOK, AdjustmentsAddUp

LEMMA Invariance == Spec => []IInv
<1>1. IInv /\ [Next]_vars => IInv'
  BY NextPreserves, StutterPreserves
<1>. QED  BY <1>1, InitIInv, PTL DEF Spec

-----------------------------------------------------------------------------
\* The segments of a term are its days, each in one of them, for any transactions in
\* any order of their dates (policy-timeline.ts:84-126).
THEOREM TermIsCovered == Spec => []SegmentsCoverTheTerm
<1>1. ASSUME IInv PROVE SegmentsCoverTheTerm
  <2>1. /\ TypeOK /\ Timeline(versions) /\ segments = Derived(versions)
        /\ versions \in Seq(Version) /\ Len(versions) <= MaxVersions
    BY <1>1, BoundAssumption DEF IInv, TypeOK
  <2>2. \A s \in segments : s.start < s.end
    BY <2>1, DerivedType
  <2>3. ASSUME NEW d \in Day
        PROVE  Cardinality({s \in segments : s.start <= d /\ d < s.end}) = 1
    <3>. DEFINE one == SegmentOf(versions, At(versions, d))
    <3>1. {s \in segments : s.start <= d /\ d < s.end} = {one}
      BY <2>1, SegmentAt
    <3>. HIDE DEF one
    <3>. QED  BY <3>1, FS_Singleton
  <2>. QED  BY <2>1, <2>2, <2>3 DEF SegmentsCoverTheTerm
<1>. QED  BY Invariance, <1>1, PTL

\* Whatever order the transactions came in, each field has at each day the value of
\* the last version by effective date that set it (ARCHITECTURE.md:128-131).
THEOREM LastDateWins == Spec => []LaterDateGoverns
<1>1. ASSUME IInv, NEW d \in Day, NEW f \in Field
      PROVE  StateAt(segments, d).payload[f] = versions[LastWord(f, d, Sets)].payload[f]
  <2>1. /\ Timeline(versions) /\ Recorded(versions) /\ segments = Derived(versions)
        /\ versions \in Seq(Version)
    BY <1>1 DEF IInv, Timeline
  <2>. DEFINE k == At(versions, d)
              up == UpToDay(versions, d)
              has == {i \in DOMAIN versions : f \in Sets(versions[i]) /\ versions[i].eff <= d}
  <2>2. StateAt(segments, d).payload = Replayed(versions)[k]
    BY <2>1, StateAtDay
  <2>3. /\ 1 \in up /\ k \in up /\ UpTo(versions, k) = up
        /\ \A j \in up \ {k} : Precedes(versions, j, k)
    BY <2>1, AtIsLast
  <2>4. d \in Int /\ d < Term /\ Term \in Int
    BY DayType, TermAssumption
  <2>5. has = {i \in up : f \in Sets(versions[i])} /\ has \in SUBSET DOMAIN versions
    BY <2>1, <2>4, Dates DEF UpToDay, InTerm
  <2>6. 1 \in has
    BY <2>1, <2>3, <2>5 DEF Timeline, NewBusiness, Sets, HasChangeSet
  <2>. DEFINE w == Latest(versions, has)
  <2>7. w \in has /\ \A j \in has \ {w} : Precedes(versions, j, w)
    <3>. HIDE DEF has
    <3>. QED  BY <2>1, <2>5, <2>6, LatestIsLast
  <2>8. k \in InTerm(versions) /\ (k = 1 \/ Precedes(versions, 1, k))
    BY <2>3 DEF UpToDay
  <2>. HIDE DEF w, k
  <2>9. w \in UpTo(versions, k) /\ Settles(versions, UpTo(versions, k), f, w)
    BY <2>3, <2>5, <2>7 DEF Settles
  <2>10. Replayed(versions)[k][f] = versions[w].payload[f]
    BY <2>1, <2>8, <2>9, Settled
  <2>11. LastWord(f, d, Sets) = w
    <3>1. \A i \in has : i \in Nat /\ versions[i].eff \in Int
      BY <2>1, <2>5, Dates
    <3>. DEFINE Governs(i) ==
                  \A j \in has :
                    \/ versions[j].eff < versions[i].eff
                    \/ versions[j].eff = versions[i].eff /\ j <= i
    <3>2. Governs(w)
      BY <2>7, <3>1 DEF Precedes
    <3>3. \A i \in has : Governs(i) => i = w
      BY <2>7, <3>1, <3>2
    <3>4. LastWord(f, d, Sets) = CHOOSE i \in has : Governs(i)
      BY DEF LastWord
    <3>. HIDE DEF Governs, has
    <3>. QED  BY <2>7, <3>2, <3>3, <3>4
  <2>. QED  BY <2>2, <2>10, <2>11 DEF k
<1>2. IInv => LaterDateGoverns
  BY <1>1 DEF LaterDateGoverns
<1>. QED  BY Invariance, <1>2, PTL

\* What endorsements booked and what cancellations and reinstatements only noted make
\* up what the premium of the term has changed by, for any rating and any dates
\* (policy-timeline.ts:142-214).
THEOREM AdjustmentsMatchTheTimeline == Spec => []AdjustmentsAddUp
<1>1. IInv => AdjustmentsAddUp
  BY DEF IInv
<1>. QED  BY Invariance, <1>1, PTL

\* A transaction changes no day before its effective date (ARCHITECTURE.md:140).
THEOREM PastStands == Spec => PastIsUntouched
<1>1. IInv /\ [Next]_vars => [Untouched]_vars
  BY NextPreserves
<1>. QED  BY Invariance, <1>1, PTL DEF Spec, PastIsUntouched, Untouched
=============================================================================
