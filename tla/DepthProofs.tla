------------------------------ MODULE DepthProofs ------------------------------
(***************************************************************************)
(* Theorems of Depth for every value of its constants: the book clients    *)
(* see is right, only goes forward, and has a snapshot coming while an     *)
(* instrument waits for it.                                                *)
(***************************************************************************)
EXTENDS Depth, SequenceFacts, WellFoundedInduction, TLAPS

----------------------------------------------------------------------------
(* Numbers *)

\* A set of numbers has a least one.
LEMMA LeastNumber ==
  ASSUME NEW T \in SUBSET Nat, T # {}
  PROVE  \E x \in T : \A y \in T : x <= y
<1> DEFINE R == OpToRel(<, Nat)
<1>1. \A x, y \in Nat : <<x, y>> \in R <=> x < y
  BY DEF OpToRel
<1>2. IsWellFoundedOn(R, Nat)
  BY NatLessThanWellFounded
<1> HIDE DEF R
<1>3. PICK x \in T : \A y \in T : ~ (<<y, x>> \in R)
  BY <1>2, WFMin
<1>4. ASSUME NEW y \in T PROVE x <= y
  <2>1. x \in Nat /\ y \in Nat
    OBVIOUS
  <2>2. ~ (y < x)
    <3>1. ~ (<<y, x>> \in R)
      BY <1>3
    <3> QED
      BY <1>1, <2>1, <3>1
  <2> QED
    BY <2>1, <2>2
<1> QED
  BY <1>4

\* One that is bounded has a greatest.
LEMMA GreatestNumber ==
  ASSUME NEW m \in Nat, NEW T \in SUBSET (0 .. m), T # {}
  PROVE  \E x \in T : \A y \in T : y <= x
<1> DEFINE U == {u \in 0 .. m : m - u \in T}
<1>1. U \in SUBSET Nat
  OBVIOUS
<1>2. U # {}
  <2>1. PICK t \in T : TRUE
    OBVIOUS
  <2>2. t \in 0 .. m /\ m - t \in 0 .. m /\ m - (m - t) = t
    OBVIOUS
  <2>3. m - t \in U
    BY <2>1, <2>2
  <2> QED
    BY <2>3
<1>3. PICK u \in U : \A w \in U : u <= w
  <2> HIDE DEF U
  <2> QED
    BY <1>1, <1>2, LeastNumber
<1>4. ASSUME NEW y \in T PROVE y <= m - u
  <2>1. y \in 0 .. m /\ m - y \in 0 .. m /\ m - (m - y) = y /\ u \in 0 .. m
    OBVIOUS
  <2>2. m - y \in U
    BY <2>1
  <2>3. u <= m - y
    BY <1>3, <2>2
  <2> QED
    BY <2>1, <2>3
<1> QED
  BY <1>4

LEMMA MinOf ==
  ASSUME NEW T \in SUBSET Nat, T # {}
  PROVE  Min(T) \in T /\ \A y \in T : Min(T) <= y
<1>1. \E x \in T : \A y \in T : x <= y
  BY LeastNumber
<1> QED
  BY <1>1 DEF Min

LEMMA MaxOf ==
  ASSUME NEW m \in Nat, NEW T \in SUBSET (0 .. m), T # {}
  PROVE  Max(T) \in T /\ \A y \in T : y <= Max(T)
<1>1. \E x \in T : \A y \in T : x >= y
  <2>1. PICK x \in T : \A y \in T : y <= x
    BY GreatestNumber
  <2> QED
    BY <2>1
<1>2. Max(T) \in T /\ \A y \in T : Max(T) >= y
  BY <1>1 DEF Max
<1> QED
  BY <1>2

----------------------------------------------------------------------------
(* Books *)

\* The last change is one, and there is none after it.
LEMMA LastOfChanges ==
  ASSUME NEW l, NEW v \in Nat
  PROVE  /\ LastChange(l, v) \in 0 .. v
         /\ LastChange(l, v) # 0 => hist[LastChange(l, v)] = l
         /\ \A m \in LastChange(l, v) + 1 .. v : hist[m] # l
<1> DEFINE T == {n \in 0 .. v : n = 0 \/ hist[n] = l}
<1>1. T \in SUBSET (0 .. v) /\ 0 \in T
  OBVIOUS
<1>2. PICK x \in T : \A y \in T : y <= x
  <2> HIDE DEF T
  <2> QED
    BY <1>1, GreatestNumber
<1>3. x # 0 => hist[x] = l
  OBVIOUS
<1>4. \A n \in x + 1 .. v : hist[n] # l
  <2> SUFFICES ASSUME NEW n \in x + 1 .. v, hist[n] = l PROVE FALSE
    OBVIOUS
  <2>1. n \in T /\ n > x
    OBVIOUS
  <2> QED
    BY <1>2, <2>1
<1>5. \E n \in 0 .. v : (n # 0 => hist[n] = l) /\ \A m \in n + 1 .. v : hist[m] # l
  BY <1>3, <1>4
<1> QED
  BY <1>5 DEF LastChange

\* A level is the same in two versions if it did not change in between.
LEMMA SameLevel ==
  ASSUME NEW l, NEW v \in Nat, NEW w \in Nat, v <= w, \A n \in v + 1 .. w : hist[n] # l
  PROVE  LastChange(l, v) = LastChange(l, w)
<1> DEFINE n == LastChange(l, v)
           k == LastChange(l, w)
<1>1. n \in 0 .. v /\ (n # 0 => hist[n] = l) /\ \A m \in n + 1 .. v : hist[m] # l
  BY LastOfChanges
<1>2. k \in 0 .. w /\ (k # 0 => hist[k] = l) /\ \A m \in k + 1 .. w : hist[m] # l
  BY LastOfChanges
<1> HIDE DEF n, k
<1>3. ~ (n < k)
  <2> SUFFICES ASSUME n < k PROVE FALSE
    OBVIOUS
  <2>1. k # 0 /\ hist[k] = l
    BY <1>1, <1>2
  <2>2. k <= v
    BY <1>2, <2>1
  <2>3. k \in n + 1 .. v
    BY <1>1, <1>2, <2>2
  <2> QED
    BY <1>1, <2>1, <2>3
<1>4. ~ (k < n)
  <2> SUFFICES ASSUME k < n PROVE FALSE
    OBVIOUS
  <2>1. n # 0 /\ hist[n] = l /\ n \in k + 1 .. w
    BY <1>1, <1>2
  <2> QED
    BY <1>2, <2>1
<1>5. n = k
  BY <1>1, <1>2, <1>3, <1>4
<1> QED
  BY <1>5 DEF n, k

\* An update that follows makes the next version of the book.
LEMMA MergeRight ==
  ASSUME NEW u, u.prev \in Nat, u.last \in Nat, u.prev <= u.last
  PROVE  Merge(BookAt(u.prev), u) = BookAt(u.last)
<1>1. ASSUME NEW l \in Levels
      PROVE  (IF Names(u, l) THEN LastChange(l, u.last) ELSE BookAt(u.prev)[l]) = LastChange(l, u.last)
  <2>1. CASE ~Names(u, l)
    <3>1. LastChange(l, u.prev) = LastChange(l, u.last)
      BY <2>1, SameLevel DEF Names
    <3> QED
      BY <2>1, <3>1 DEF BookAt
  <2> QED
    BY <2>1
<1> QED
  BY <1>1 DEF Merge, BookAt

LEMMA UpdateParts ==
  ASSUME NEW u \in Updates
  PROVE  u.prev \in Nat /\ u.last \in Nat /\ u.prev <= MaxVersion /\ u.last <= MaxVersion
BY BoundsAssumption DEF Updates

LEMMA Members ==
  ASSUME NEW S, NEW q \in Seq(S)
  PROVE  /\ Len(q) \in Nat /\ DOMAIN q = 1 .. Len(q) /\ \A k \in DOMAIN q : q[k] \in S
         /\ q # <<>> => Len(q) > 0
OBVIOUS

LEMMA Appending ==
  ASSUME NEW S, NEW q \in Seq(S), NEW e \in S
  PROVE  /\ Append(q, e) \in Seq(S) /\ Len(Append(q, e)) = Len(q) + 1 /\ Append(q, e) # <<>>
         /\ DOMAIN Append(q, e) = 1 .. Len(q) + 1 /\ Append(q, e)[Len(q) + 1] = e
         /\ \A k \in 1 .. Len(q) : Append(q, e)[k] = q[k]
OBVIOUS

Tells(u, n) == n \in u.prev + 1 .. u.last

\* Updates that go on beyond a snapshot without a gap make the book of the last.
LEMMA AppliedRight ==
  ASSUME NEW v \in Nat, NEW q \in Seq(Updates), q # <<>>, NEW r \in Nat, q[Len(q)].last = r,
         \A k \in DOMAIN q : v < q[k].last,
         \A j, k \in DOMAIN q : j < k => q[j].last <= q[k].last,
         \A n \in v + 1 .. r : \E k \in DOMAIN q : Tells(q[k], n)
  PROVE  Applied(v, q) = BookAt(r)
<1>0. /\ Len(q) \in Nat \ {0} /\ DOMAIN q = 1 .. Len(q)
      /\ \A k \in DOMAIN q : q[k].prev \in Nat /\ q[k].last \in Nat
  BY Members, UpdateParts
<1>1. ASSUME NEW l \in Levels
      PROVE  LET named == {k \in DOMAIN q : Names(q[k], l)} IN
             (IF named = {} THEN BookAt(v)[l] ELSE LastChange(l, q[Max(named)].last))
               = LastChange(l, r)
  <2> DEFINE named == {k \in DOMAIN q : Names(q[k], l)}
  <2>1. CASE named = {}
    <3>1. \A n \in v + 1 .. r : hist[n] # l
      BY <2>1 DEF Tells, Names
    <3>2. v <= r
      BY <1>0
    <3>3. LastChange(l, v) = LastChange(l, r)
      BY <3>1, <3>2, SameLevel
    <3> QED
      BY <2>1, <3>3 DEF BookAt
  <2>2. CASE named # {}
    <3> DEFINE k == Max(named)
    <3>1. k \in named /\ \A j \in named : j <= k
      <4>1. named \in SUBSET (0 .. Len(q))
        BY <1>0
      <4> HIDE DEF named
      <4> QED
        BY <1>0, <2>2, <4>1, MaxOf
    <3> HIDE DEF k
    <3>2. k \in DOMAIN q /\ k <= Len(q) /\ q[k].last <= r
      BY <1>0, <3>1
    <3>3. ASSUME NEW n \in q[k].last + 1 .. r, hist[n] = l PROVE FALSE
      <4>1. n \in v + 1 .. r
        BY <1>0, <3>2
      <4>2. PICK j \in DOMAIN q : Tells(q[j], n)
        BY <4>1
      <4>3. j \in named
        BY <3>3, <4>2 DEF Tells, Names
      <4>4. j <= k
        BY <3>1, <4>3
      <4>5. q[j].last <= q[k].last
        <5>1. j = k \/ j < k
          BY <1>0, <3>2, <4>4
        <5> QED
          BY <1>0, <3>2, <5>1
      <4> QED
        BY <1>0, <3>2, <4>2, <4>5 DEF Tells
    <3>4. LastChange(l, q[k].last) = LastChange(l, r)
      <4>1. q[k].last \in Nat
        BY <1>0, <3>2
      <4> QED
        BY <3>2, <3>3, <4>1, SameLevel
    <3> QED
      BY <2>2, <3>4 DEF k
  <2> QED
    BY <2>1, <2>2
<1> QED
  BY <1>1 DEF Applied, BookAt

----------------------------------------------------------------------------
(* The updates the sequencer has cached *)

\* They follow each other up to the last one received, and miss nothing in
\* between.
Linked(q, r) ==
  /\ q \in Seq(Updates)
  /\ \A k \in DOMAIN q : q[k].prev < q[k].last
  /\ \A j, k \in DOMAIN q : j < k => q[j].last <= q[k].prev
  /\ q # <<>> => q[Len(q)].last = r /\ \A n \in q[1].prev + 1 .. r : \E k \in DOMAIN q : Tells(q[k], n)

LEMMA LinkedNone == ASSUME NEW r PROVE Linked(<<>>, r)
BY EmptySequence DEF Linked

LEMMA LinkedNext ==
  ASSUME NEW r \in Nat, NEW q, Linked(q, r), NEW u \in Updates, u.prev < u.last,
         q # <<>> => u.prev = r
  PROVE  Linked(Append(q, u), u.last)
<1> DEFINE t == Append(q, u)
<1>1. /\ q \in Seq(Updates) /\ t \in Seq(Updates) /\ Len(t) = Len(q) + 1 /\ t # <<>>
      /\ Len(q) \in Nat /\ DOMAIN q = 1 .. Len(q) /\ DOMAIN t = 1 .. Len(q) + 1
      /\ t[Len(q) + 1] = u /\ \A k \in 1 .. Len(q) : t[k] = q[k]
  <2>1. q \in Seq(Updates)
    BY DEF Linked
  <2> QED
    BY <2>1, Members, Appending
<1>2. u.prev \in Nat /\ u.last \in Nat /\ \A k \in DOMAIN q : q[k].prev \in Nat /\ q[k].last \in Nat
  BY <1>1, Members, UpdateParts
<1> HIDE DEF t
<1>3. \A k \in DOMAIN t : t[k].prev < t[k].last
  BY <1>1 DEF Linked
<1>4. \A j \in DOMAIN q : q[j].last <= r
  <2> SUFFICES ASSUME NEW j \in DOMAIN q PROVE q[j].last <= r
    OBVIOUS
  <2>1. q # <<>> /\ Len(q) \in DOMAIN q /\ q[Len(q)].last = r /\ j <= Len(q)
    BY <1>1 DEF Linked
  <2>2. CASE j < Len(q)
    <3>1. q[j].last <= q[Len(q)].prev /\ q[Len(q)].prev < q[Len(q)].last
      BY <2>1, <2>2 DEF Linked
    <3> QED
      BY <1>2, <2>1, <3>1
  <2> QED
    BY <1>2, <2>1, <2>2
<1>5. ASSUME NEW j \in DOMAIN t, NEW k \in DOMAIN t, j < k PROVE t[j].last <= t[k].prev
  <2>1. j \in DOMAIN q /\ t[j] = q[j]
    BY <1>1, <1>5
  <2>2. CASE k = Len(q) + 1
    <3>1. t[k] = u /\ u.prev = r
      BY <1>1, <2>1, <2>2
    <3> QED
      BY <1>4, <2>1, <3>1
  <2>3. CASE k # Len(q) + 1
    BY <1>1, <1>5, <2>1, <2>3 DEF Linked
  <2> QED
    BY <2>2, <2>3
<1>6. ASSUME NEW n \in t[1].prev + 1 .. u.last PROVE \E k \in DOMAIN t : Tells(t[k], n)
  <2>1. CASE q = <<>> \/ n > r
    <3>1. t[1].prev \in Nat /\ (q = <<>> => t[1] = u)
      BY <1>1, <1>2
    <3>2. Tells(u, n)
      BY <1>2, <2>1, <3>1 DEF Tells
    <3> QED
      BY <1>1, <3>2
  <2>2. CASE q # <<>> /\ n <= r
    <3>1. t[1] = q[1] /\ q[1].prev \in Nat
      BY <1>1, <1>2, <2>2
    <3>2. PICK k \in DOMAIN q : Tells(q[k], n)
      BY <1>2, <2>2, <3>1 DEF Linked
    <3> QED
      BY <1>1, <3>2
  <2>3. n \in Nat
    BY <1>1, <1>2
  <2> QED
    BY <2>1, <2>2, <2>3
<1>7. t[Len(t)].last = u.last
  BY <1>1
<1>8. Linked(t, u.last)
  BY <1>1, <1>3, <1>5, <1>6, <1>7 DEF Linked
<1> QED
  BY <1>8 DEF t

\* What Beyond leaves of them goes on from the snapshot, if its first one
\* does not begin after it.
LEMMA BeyondLinked ==
  ASSUME NEW r \in Nat, NEW q, Linked(q, r), NEW v \in Nat, Beyond(q, v) # <<>>
  PROVE  LET kept == Beyond(q, v) IN
         /\ kept \in Seq(Updates) /\ kept[Len(kept)].last = r
         /\ \A k \in DOMAIN kept : v < kept[k].last
         /\ \A j, k \in DOMAIN kept : j < k => kept[j].last <= kept[k].last
         /\ kept[1].prev <= v => \A n \in v + 1 .. r : \E k \in DOMAIN kept : Tells(kept[k], n)
<1> DEFINE T == {k \in DOMAIN q : q[k].last > v} \cup {Len(q) + 1}
           f == Min(T)
           kept == SubSeq(q, f, Len(q))
<1>1. q \in Seq(Updates)
  BY DEF Linked
<1>2. Len(q) \in Nat /\ DOMAIN q = 1 .. Len(q)
      /\ \A k \in DOMAIN q : q[k] \in Updates /\ q[k].prev \in Nat /\ q[k].last \in Nat
  BY <1>1, Members, UpdateParts
<1>3. f \in T /\ \A y \in T : f <= y
  <2>1. T \in SUBSET Nat /\ T # {}
    BY <1>2
  <2> HIDE DEF T
  <2> QED
    BY <2>1, MinOf
<1>4. kept # <<>> /\ Beyond(q, v) = kept
  BY DEF Beyond
<1> HIDE DEF f
<1>5. f \in 1 .. Len(q) + 1 /\ \A k \in DOMAIN q : q[k].last > v => f <= k
  BY <1>2, <1>3
<1>6. f <= Len(q)
  <2> SUFFICES ASSUME f = Len(q) + 1 PROVE FALSE
    BY <1>2, <1>5
  <2> QED
    BY <1>1, <1>2, <1>4
<1>7. q[f].last > v /\ f \in DOMAIN q
  BY <1>2, <1>3, <1>5, <1>6
<1> DEFINE m == Len(q) - f + 1
<1>8. /\ kept \in Seq(Updates) /\ Len(kept) = m /\ m \in Nat \ {0} /\ DOMAIN kept = 1 .. m
      /\ \A k \in 1 .. m : k + f - 1 \in DOMAIN q /\ kept[k] = q[k + f - 1]
  <2>1. \A k \in f .. Len(q) : q[k] \in Updates
    BY <1>2, <1>5, <1>6
  <2>2. Len(kept) = m /\ DOMAIN kept = 1 .. m /\ \A k \in 1 .. m : kept[k] = q[k + f - 1]
    BY <1>1, <1>2, <1>5, <1>6
  <2>3. kept \in Seq(Updates)
    BY <1>2, <1>5, <1>6, <2>1, <2>2
  <2> QED
    BY <1>2, <1>5, <1>6, <2>2, <2>3
<1> HIDE DEF kept
<1>9. kept[Len(kept)].last = r
  <2>1. q # <<>>
    BY <1>2, <1>5, <1>6
  <2>2. m + f - 1 = Len(q)
    BY <1>2, <1>5, <1>6
  <2> QED
    BY <1>8, <2>1, <2>2 DEF Linked
<1>10. \A j, k \in DOMAIN q : j < k => q[j].last <= q[k].last
  <2> SUFFICES ASSUME NEW j \in DOMAIN q, NEW k \in DOMAIN q, j < k PROVE q[j].last <= q[k].last
    OBVIOUS
  <2>1. q[j].last <= q[k].prev /\ q[k].prev < q[k].last
    BY DEF Linked
  <2> QED
    BY <1>2, <2>1
<1>11. ASSUME NEW k \in DOMAIN kept PROVE v < kept[k].last
  <2>1. k + f - 1 \in DOMAIN q /\ kept[k] = q[k + f - 1] /\ (k + f - 1 = f \/ f < k + f - 1)
    <3>1. k \in 1 .. m
      BY <1>8, <1>11
    <3>2. k + f - 1 = f \/ f < k + f - 1
      BY <1>2, <1>5, <1>8, <3>1
    <3> QED
      BY <1>8, <3>1, <3>2
  <2>2. q[f].last <= q[k + f - 1].last
    BY <1>2, <1>7, <1>10, <2>1
  <2> QED
    BY <1>2, <1>7, <2>1, <2>2
<1>12. ASSUME NEW j \in DOMAIN kept, NEW k \in DOMAIN kept, j < k PROVE kept[j].last <= kept[k].last
  <2>1. /\ j + f - 1 \in DOMAIN q /\ kept[j] = q[j + f - 1]
        /\ k + f - 1 \in DOMAIN q /\ kept[k] = q[k + f - 1]
        /\ j + f - 1 < k + f - 1
    <3>1. j \in 1 .. m /\ k \in 1 .. m
      BY <1>8, <1>12
    <3>2. j + f - 1 < k + f - 1
      BY <1>2, <1>5, <1>12, <3>1
    <3> QED
      BY <1>8, <3>1, <3>2
  <2> QED
    BY <1>10, <2>1
<1>13. ASSUME kept[1].prev <= v, NEW n \in v + 1 .. r PROVE \E k \in DOMAIN kept : Tells(kept[k], n)
  <2>1. 1 \in 1 .. m /\ 1 + f - 1 = f
    BY <1>2, <1>5, <1>8
  <2>2. q[f].prev <= v
    BY <1>8, <1>13, <2>1
  <2>3. 1 \in DOMAIN q /\ q # <<>> /\ (1 = f \/ 1 < f)
    BY <1>2, <1>5, <1>6
  <2>4. q[1].prev <= v
    <3>1. CASE 1 = f
      BY <2>2, <3>1
    <3>2. CASE 1 < f
      <4>1. q[1].last <= q[f].prev /\ q[1].prev < q[1].last
        BY <1>7, <2>3, <3>2 DEF Linked
      <4> QED
        BY <1>2, <1>7, <2>2, <2>3, <4>1
    <3> QED
      BY <2>3, <3>1, <3>2
  <2>5. n \in q[1].prev + 1 .. r /\ n \in Nat /\ n > v
    BY <1>2, <2>3, <2>4
  <2>6. PICK k \in DOMAIN q : Tells(q[k], n)
    BY <2>3, <2>5 DEF Linked
  <2>7. q[k].last > v
    BY <1>2, <2>5, <2>6 DEF Tells
  <2>8. f <= k /\ k - f + 1 \in 1 .. m /\ (k - f + 1) + f - 1 = k
    BY <1>2, <1>5, <2>7
  <2>9. kept[k - f + 1] = q[k]
    BY <1>8, <2>8
  <2> QED
    BY <1>8, <2>6, <2>8, <2>9
<1> QED
  BY <1>4, <1>8, <1>9, <1>11, <1>12, <1>13

----------------------------------------------------------------------------
(* What a call of the sequencer leaves *)

\* It waits for a snapshot, having received version r last, or is at r.
Waiting(s, r) == s \in Sequencers /\ ~s.synced /\ Linked(s.cached, r)
Synced(s, r)  == s = [Cleared EXCEPT !.synced = TRUE, !.last = r]

\* A call to a sequencer that waits: nothing, a request, or the book at r.
Outcome(c, s, r) ==
  \/ c.out = "NONE" /\ Waiting(c.state, r) /\ c.state.retries = s.retries
  \/ c.out = "REQUEST" /\ Waiting(c.state, r)
  \/ /\ c.out = "SNAPSHOT" /\ Synced(c.state, r)
     /\ Applied(c.snapshot, c.updates) = BookAt(r)

LEMMA SyncedParts ==
  ASSUME NEW r \in 0 .. MaxVersion, NEW s, Synced(s, r)
  PROVE  s \in Sequencers /\ s.synced /\ s.last = r /\ s.cached = <<>> /\ s.held = None
         /\ s.retries = 0
<1>1. Cleared \in Sequencers /\ Cleared.cached = <<>> /\ Cleared.held = None /\ Cleared.retries = 0
  BY EmptySequence, BoundsAssumption DEF Cleared, Sequencers, None
<1>2. s = [synced |-> TRUE, last |-> r, cached |-> <<>>, held |-> None, retries |-> 0]
  BY DEF Synced, Cleared
<1> QED
  BY <1>2, EmptySequence, BoundsAssumption DEF Sequencers, None

LEMMA ClearedWaits == ASSUME NEW r PROVE Waiting(Cleared, r) /\ Cleared.retries = 0
BY LinkedNone, EmptySequence, BoundsAssumption DEF Waiting, Cleared, Sequencers, None

LEMMA CachedChanges ==
  ASSUME NEW s \in Sequencers, NEW q \in Seq(Updates)
  PROVE  LET t == [s EXCEPT !.cached = q] IN
         /\ t \in Sequencers /\ t.cached = q /\ t.synced = s.synced /\ t.held = s.held
         /\ t.retries = s.retries
BY DEF Sequencers

LEMMA HeldChanges ==
  ASSUME NEW s \in Sequencers, NEW v \in 0 .. None
  PROVE  LET t == [s EXCEPT !.held = v] IN
         /\ t \in Sequencers /\ t.cached = s.cached /\ t.synced = s.synced /\ t.held = v
         /\ t.retries = s.retries
BY DEF Sequencers

LEMMA AgainWaits ==
  ASSUME NEW s, NEW r, Waiting(s, r)
  PROVE  Again(s).out = "REQUEST" /\ Waiting(Again(s).state, r)
<1> DEFINE t == [s EXCEPT !.retries = @ + 1]
<1>1. t \in Sequencers /\ t.synced = s.synced /\ t.cached = s.cached
  BY DEF Waiting, Sequencers
<1>2. Waiting(t, r)
  BY <1>1 DEF Waiting
<1> QED
  BY <1>2 DEF Again, Call

LEMMA JoinRight ==
  ASSUME NEW r \in 0 .. MaxVersion, NEW s, Waiting(s, r), s.held # None
  PROVE  Outcome(Join(s), s, r)
<1> DEFINE kept == Beyond(s.cached, s.held)
<1>1. s \in Sequencers /\ s.held \in 0 .. None /\ s.held \in Nat /\ r \in Nat /\ Linked(s.cached, r)
  BY BoundsAssumption DEF Waiting, Sequencers, None
<1>2. CASE kept = <<>>
  <2>1. Join(s) = Quiet([s EXCEPT !.cached = <<>>])
    BY <1>2 DEF Join
  <2>2. Waiting([s EXCEPT !.cached = <<>>], r) /\ [s EXCEPT !.cached = <<>>].retries = s.retries
    BY <1>1, EmptySequence, CachedChanges, LinkedNone DEF Waiting
  <2> DEFINE state == [s EXCEPT !.cached = <<>>]
  <2> HIDE DEF state, kept
  <2>3. Join(s).out = "NONE" /\ Join(s).state = state
    BY <2>1 DEF Quiet, Call, state
  <2>4. Waiting(state, r) /\ state.retries = s.retries
    BY <2>2 DEF state
  <2> QED
    BY <2>3, <2>4 DEF Outcome
<1>3. CASE kept # <<>> /\ kept[1].prev > s.held
  <2>1. Join(s) = Again([s EXCEPT !.held = None])
    BY <1>3 DEF Join
  <2>2. None \in 0 .. None
    BY BoundsAssumption DEF None
  <2>3. Waiting([s EXCEPT !.held = None], r)
    BY <1>1, <2>2, HeldChanges DEF Waiting
  <2> QED
    BY <2>1, <2>3, AgainWaits DEF Outcome
<1>4. CASE kept # <<>> /\ ~(kept[1].prev > s.held)
  <2>1. Join(s) = Call([Cleared EXCEPT !.synced = TRUE, !.last = kept[Len(kept)].last],
                       "SNAPSHOT", s.held, kept)
    BY <1>4 DEF Join
  <2>2. /\ kept \in Seq(Updates) /\ kept[Len(kept)].last = r
        /\ \A k \in DOMAIN kept : s.held < kept[k].last
        /\ \A j, k \in DOMAIN kept : j < k => kept[j].last <= kept[k].last
        /\ kept[1].prev <= s.held => \A n \in s.held + 1 .. r : \E k \in DOMAIN kept : Tells(kept[k], n)
    BY <1>1, <1>4, BeyondLinked
  <2> HIDE DEF kept
  <2>3. kept[1].prev \in Nat
    <3>1. 1 \in DOMAIN kept
      BY <1>4, <2>2, Members
    <3> QED
      BY <2>2, <3>1, Members, UpdateParts
  <2>4. kept[1].prev <= s.held
    BY <1>1, <1>4, <2>3
  <2>5. Applied(s.held, kept) = BookAt(r)
    BY <1>1, <1>4, <2>2, <2>4, AppliedRight
  <2>6. Synced([Cleared EXCEPT !.synced = TRUE, !.last = kept[Len(kept)].last], r)
    BY <2>2 DEF Synced
  <2> DEFINE state == [Cleared EXCEPT !.synced = TRUE, !.last = kept[Len(kept)].last]
  <2> HIDE DEF state
  <2>7. Outcome(Call(state, "SNAPSHOT", s.held, kept), s, r)
    BY <2>5, <2>6 DEF Call, Outcome, state
  <2> QED
    BY <2>1, <2>7 DEF state
<1> QED
  BY <1>2, <1>3, <1>4

LEMMA UpdateRight ==
  ASSUME NEW r \in 0 .. MaxVersion, NEW s, Waiting(s, r), NEW u \in Updates, u.prev < u.last,
         ~Gap(s, u), NEW late \in BOOLEAN
  PROVE  Outcome(OnUpdate(s, u, late), s, u.last)
<1> DEFINE q == Append(s.cached, u)
           t == [s EXCEPT !.cached = q]
<1>1. s \in Sequencers /\ ~s.synced /\ Linked(s.cached, r) /\ r \in Nat /\ u.last \in 0 .. MaxVersion
  BY UpdateParts, BoundsAssumption DEF Waiting
<1>2. s.cached # <<>> => u.prev = r
  BY <1>1 DEF Gap, Linked
<1>3. Linked(q, u.last) /\ q \in Seq(Updates)
  BY <1>1, <1>2, LinkedNext DEF Linked
<1>4. t \in Sequencers /\ t.cached = q /\ ~t.synced /\ t.held = s.held /\ t.retries = s.retries
  <2> HIDE DEF q
  <2> QED
    BY <1>1, <1>3, CachedChanges
<1>5. Waiting(t, u.last)
  BY <1>3, <1>4 DEF Waiting
<1> HIDE DEF q, t
<1>6. CASE s.held # None
  <2>1. OnUpdate(s, u, late) = Join(t)
    BY <1>1, <1>6 DEF OnUpdate, t, q
  <2>2. Outcome(Join(t), t, u.last)
    BY <1>1, <1>4, <1>5, <1>6, JoinRight
  <2> QED
    BY <1>4, <2>1, <2>2 DEF Outcome
<1>7. CASE s.held = None /\ s.cached = <<>>
  <2>1. OnUpdate(s, u, late) = Call(t, "REQUEST", None, <<>>)
    BY <1>1, <1>7 DEF OnUpdate, t, q
  <2> QED
    BY <1>5, <2>1 DEF Call, Outcome
<1>8. CASE s.held = None /\ s.cached # <<>>
  <2>1. OnUpdate(s, u, late) = IF late THEN Again(t) ELSE Quiet(t)
    BY <1>1, <1>8 DEF OnUpdate, t, q
  <2>2. CASE late
    BY <1>5, <2>1, <2>2, AgainWaits DEF Outcome
  <2>3. CASE ~late
    BY <1>4, <1>5, <2>1, <2>3 DEF Quiet, Call, Outcome
  <2> QED
    BY <2>2, <2>3
<1> QED
  BY <1>6, <1>7, <1>8

LEMMA SnapshotRight ==
  ASSUME NEW r \in 0 .. MaxVersion, NEW s, Waiting(s, r), NEW v \in 0 .. MaxVersion
  PROVE  Outcome(OnSnapshot(s, v), s, r)
<1> DEFINE t == [s EXCEPT !.held = v]
<1>1. v \in 0 .. None /\ v # None
  BY BoundsAssumption DEF None
<1>2. t.held = v /\ t.retries = s.retries /\ Waiting(t, r)
  BY <1>1, HeldChanges DEF Waiting
<1>3. OnSnapshot(s, v) = Join(t)
  BY DEF OnSnapshot, Waiting
<1> HIDE DEF t
<1>4. Outcome(Join(t), t, r)
  BY <1>1, <1>2, JoinRight
<1> QED
  BY <1>2, <1>3, <1>4 DEF Outcome

----------------------------------------------------------------------------
(* The invariant *)

\* Updates on their way follow what was received, and each other, up to what
\* was sent.
WireOK ==
  /\ wire \in Seq(Updates)
  /\ \A k \in DOMAIN wire :
       received <= wire[k].prev /\ wire[k].prev < wire[k].last /\ wire[k].last <= sent
  /\ \A j, k \in DOMAIN wire : j < k => wire[j].last <= wire[k].prev

\* The sequencer has cached what it received since it was cleared, or is where
\* the published book is.
SequencerOK ==
  \/ Waiting(sequencer, received)
  \/ (Synced(sequencer, received) /\ bookSeq = received)

RetriesOK == ~dead /\ MaxRetries # 0 => sequencer.retries <= MaxRetries

RangesOK ==
  /\ hist \in Seq(Levels) /\ Len(hist) <= MaxVersion /\ sent \in 0 .. Len(hist)
  /\ received \in 0 .. sent /\ bookSeq \in 0 .. received
  /\ answers \in Seq(0 .. Len(hist)) /\ asked \in Nat /\ queue \in Nat /\ drops \in 0 .. MaxDrops
  /\ up \in BOOLEAN /\ rest \in BOOLEAN /\ failed \in BOOLEAN /\ dead \in BOOLEAN

BookInv == RangesOK /\ WireOK /\ SequencerOK /\ RetriesOK /\ BookExact

\* What a handler leaves of the book and the sequencer, r being the last version
\* received.
Handled(r) ==
  /\ Waiting(sequencer', r) \/ (Synced(sequencer', r) /\ bookSeq' = r)
  /\ bookSeq' \in bookSeq .. r /\ book' = BookAt(bookSeq')
  /\ ~dead' /\ MaxRetries # 0 => sequencer'.retries <= MaxRetries
  /\ queue' \in Nat /\ failed' \in BOOLEAN /\ dead' \in BOOLEAN

LEMMA RequestRight ==
  ASSUME NEW n, RequestSnapshot(n), queue \in Nat, n \in Nat
  PROVE  /\ queue' \in Nat /\ failed' \in BOOLEAN /\ dead' \in BOOLEAN
         /\ ~dead' /\ MaxRetries # 0 => n <= MaxRetries
<1>1. dead' \in BOOLEAN /\ (~dead' /\ MaxRetries # 0 => ~(MaxRetries < n))
  BY DEF RequestSnapshot, Fatal
<1>0. failed' \in BOOLEAN
  BY DEF RequestSnapshot
<1>2. queue' \in Nat
  BY DEF RequestSnapshot, Queued
<1>3. MaxRetries # 0 /\ ~(MaxRetries < n) => n <= MaxRetries
  BY BoundsAssumption
<1> QED
  BY <1>0, <1>1, <1>2, <1>3, Zenon

LEMMA BadStateRight ==
  ASSUME BookInv, BadState, NEW r \in received .. MaxVersion
  PROVE  Handled(r)
<1>1. /\ sequencer' = Cleared /\ failed' \in BOOLEAN /\ dead' \in BOOLEAN
      /\ book' = book /\ bookSeq' = bookSeq
  BY DEF BadState, AfterBadState, Unpublished, BookInv, RangesOK
<1>0. queue' \in Nat
  BY DEF BadState, Resubscribed, Queued, BookInv, RangesOK
<1>2. Waiting(sequencer', r) /\ sequencer'.retries = 0
  BY <1>1, ClearedWaits
<1>3. bookSeq' \in bookSeq .. r
  BY <1>1, BoundsAssumption DEF BookInv, RangesOK
<1>4. ~dead' /\ MaxRetries # 0 => sequencer'.retries <= MaxRetries
  BY <1>2, BoundsAssumption
<1>5. book' = BookAt(bookSeq')
  BY <1>1 DEF BookInv, BookExact
<1> QED
  BY <1>0, <1>1, <1>2, <1>3, <1>4, <1>5, Zenon DEF Handled

LEMMA OutcomeRight ==
  ASSUME BookInv, ~dead, NEW r \in received .. MaxVersion, NEW c,
         Outcome(c, sequencer, r), Handle(c)
  PROVE  Handled(r)
<1>1. /\ r \in 0 .. MaxVersion /\ r \in Nat /\ bookSeq \in Nat /\ bookSeq <= r /\ queue \in Nat
      /\ failed \in BOOLEAN /\ dead \in BOOLEAN /\ book = BookAt(bookSeq)
      /\ MaxRetries # 0 => sequencer.retries <= MaxRetries
      /\ bookSeq \in bookSeq .. r /\ r \in bookSeq .. r
  <2>1. r \in Nat /\ r <= MaxVersion /\ bookSeq \in Nat /\ bookSeq <= r /\ queue \in Nat
    BY BoundsAssumption DEF BookInv, RangesOK
  <2>2. failed \in BOOLEAN /\ dead \in BOOLEAN
    BY DEF BookInv, RangesOK
  <2>3. r \in 0 .. MaxVersion /\ bookSeq \in bookSeq .. r /\ r \in bookSeq .. r
    BY <2>1, BoundsAssumption
  <2>4. book = BookAt(bookSeq) /\ (MaxRetries # 0 => sequencer.retries <= MaxRetries)
    BY DEF BookInv, BookExact, RetriesOK
  <2> QED
    BY <2>1, <2>2, <2>3, <2>4
<1>2. sequencer' = c.state
  BY DEF Handle
<1>3. CASE c.out = "NONE" /\ Waiting(c.state, r) /\ c.state.retries = sequencer.retries
  <2>1. UNCHANGED <<book, bookSeq, queue, failed, dead>>
    BY <1>3 DEF Handle
  <2> QED
    BY <1>1, <1>2, <1>3, <2>1, Zenon DEF Handled
<1>4. CASE c.out = "REQUEST" /\ Waiting(c.state, r)
  <2>1. UNCHANGED <<book, bookSeq>> /\ RequestSnapshot(c.state.retries)
    BY <1>4 DEF Handle
  <2>2. c.state.retries \in Nat
    BY <1>4 DEF Waiting, Sequencers
  <2>3. /\ queue' \in Nat /\ failed' \in BOOLEAN /\ dead' \in BOOLEAN
        /\ ~dead' /\ MaxRetries # 0 => c.state.retries <= MaxRetries
    BY <1>1, <2>1, <2>2, RequestRight
  <2> QED
    BY <1>1, <1>2, <1>4, <2>1, <2>3, Zenon DEF Handled
<1>5. CASE c.out = "SNAPSHOT" /\ Synced(c.state, r) /\ Applied(c.snapshot, c.updates) = BookAt(r)
  <2>1. PublishSnapshot(c) /\ UNCHANGED <<queue, failed, dead>>
    BY <1>5 DEF Handle
  <2>2. c.state.last = r /\ c.state.retries = 0
    BY <1>1, <1>5, SyncedParts
  <2>3. bookSeq' = r /\ book' = BookAt(r)
    BY <1>5, <2>1, <2>2 DEF PublishSnapshot
  <2>4. MaxRetries # 0 => c.state.retries <= MaxRetries
    BY <2>2, BoundsAssumption
  <2> QED
    BY <1>1, <1>2, <1>5, <2>1, <2>3, <2>4, Zenon DEF Handled
<1> QED
  BY <1>3, <1>4, <1>5 DEF Outcome

\* The book does not depend on what is appended to the exchange's history.
LEMMA SameBook ==
  ASSUME bookSeq \in Nat, bookSeq' = bookSeq, \A n \in 1 .. bookSeq : hist'[n] = hist[n]
  PROVE  BookAt(bookSeq)' = BookAt(bookSeq)
<1>1. ASSUME NEW l PROVE LastChange(l, bookSeq)' = LastChange(l, bookSeq)
  <2>1. \A n \in 0 .. bookSeq :
          ((n # 0 => hist[n] = l) /\ \A m \in n + 1 .. bookSeq : hist[m] # l)
            <=> ((n # 0 => hist'[n] = l) /\ \A m \in n + 1 .. bookSeq : hist'[m] # l)
    OBVIOUS
  <2> QED
    BY <2>1 DEF LastChange
<1> QED
  BY <1>1 DEF BookAt

LEMMA HandledKeeps ==
  ASSUME BookInv, NEW r \in received .. MaxVersion, Handled(r), received' = r, hist' = hist
  PROVE  /\ SequencerOK' /\ RetriesOK' /\ BookExact' /\ bookSeq' \in 0 .. r /\ bookSeq' >= bookSeq
         /\ queue' \in Nat /\ failed' \in BOOLEAN /\ dead' \in BOOLEAN
<1>1. SequencerOK'
  BY DEF Handled, SequencerOK
<1>2. RetriesOK'
  BY DEF Handled, RetriesOK
<1>3. BookExact'
  BY DEF Handled, BookExact, BookAt, LastChange
<1>4. bookSeq' \in 0 .. r /\ bookSeq' >= bookSeq
  BY DEF Handled, BookInv, RangesOK
<1> QED
  BY <1>1, <1>2, <1>3, <1>4 DEF Handled

LEMMA UpdateKeeps ==
  ASSUME BookInv, DepthUpdate
  PROVE  BookInv' /\ bookSeq' >= bookSeq
<1> DEFINE u == wire[1]
           r == u.last
<1>1. /\ wire \in Seq(Updates) /\ wire # <<>> /\ wire' = Tail(wire) /\ received' = r /\ ~dead
      /\ hist' = hist /\ sent' = sent
  BY DEF BookInv, WireOK, DepthUpdate, exchangeVars
<1>2. u \in Updates /\ 1 \in DOMAIN wire
  BY <1>1, Members
<1>3. received <= u.prev /\ u.prev < u.last /\ u.last <= sent
  BY <1>2 DEF BookInv, WireOK
<1>4. /\ u.prev \in Nat /\ u.last \in Nat /\ received \in Nat /\ sent \in Nat
      /\ r \in received .. MaxVersion /\ received \in 0 .. MaxVersion /\ r \in 0 .. sent
      /\ sent <= MaxVersion /\ bookSeq \in Nat
  <2>1. u.prev \in Nat /\ u.last \in Nat
    BY <1>2, UpdateParts
  <2>2. received \in Nat /\ sent \in Nat /\ sent <= MaxVersion /\ received <= MaxVersion /\ bookSeq \in Nat
    BY BoundsAssumption DEF BookInv, RangesOK
  <2> QED
    BY <1>3, <2>1, <2>2, BoundsAssumption
<1>5. WireOK'
  <2>1. /\ Tail(wire) \in Seq(Updates)
        /\ \A j \in DOMAIN Tail(wire) : j \in Nat /\ j + 1 \in DOMAIN wire /\ Tail(wire)[j] = wire[j + 1]
    BY <1>1, TailElements
  <2>2. ASSUME NEW k \in DOMAIN wire'
        PROVE  r <= wire'[k].prev /\ wire'[k].prev < wire'[k].last /\ wire'[k].last <= sent
    <3>1. k + 1 \in DOMAIN wire /\ wire'[k] = wire[k + 1] /\ 1 < k + 1
      <4>1. k \in 1 .. Len(Tail(wire))
        BY <1>1, <2>1, Members
      <4> QED
        BY <1>1, <2>1, <4>1
    <3> QED
      BY <1>2, <3>1 DEF BookInv, WireOK
  <2>3. ASSUME NEW j \in DOMAIN wire', NEW k \in DOMAIN wire', j < k
        PROVE  wire'[j].last <= wire'[k].prev
    <3>1. /\ j + 1 \in DOMAIN wire /\ wire'[j] = wire[j + 1] /\ j \in Nat
          /\ k + 1 \in DOMAIN wire /\ wire'[k] = wire[k + 1] /\ k \in Nat
      BY <1>1, <2>1
    <3>2. j + 1 < k + 1
      BY <2>3, <3>1
    <3> QED
      BY <3>1, <3>2 DEF BookInv, WireOK
  <2> QED
    BY <1>1, <2>1, <2>2, <2>3 DEF WireOK
<1>6. Handled(r)
  <2>1. CASE Gap(sequencer, u)
    <3>1. BadState
      BY <2>1 DEF DepthUpdate
    <3> QED
      BY <1>4, <3>1, BadStateRight
  <2>2. CASE ~Gap(sequencer, u)
    <3>1. PICK late \in BOOLEAN : Handle(OnUpdate(sequencer, u, late))
      BY <2>2 DEF DepthUpdate
    <3>2. CASE Waiting(sequencer, received)
      <4>1. Outcome(OnUpdate(sequencer, u, late), sequencer, r)
        BY <1>2, <1>3, <1>4, <2>2, <3>2, UpdateRight
      <4> QED
        BY <1>1, <1>4, <3>1, <4>1, OutcomeRight
    <3>3. CASE Synced(sequencer, received) /\ bookSeq = received
      <4>1. sequencer.synced /\ sequencer.last = received /\ sequencer.retries = 0
        BY <1>4, <3>3, SyncedParts
      <4>2. u.prev = bookSeq
        BY <2>2, <3>3, <4>1 DEF Gap
      <4>3. OnUpdate(sequencer, u, late) = Call([sequencer EXCEPT !.last = r], "UPDATE", None, <<u>>)
        BY <4>1 DEF OnUpdate
      <4> DEFINE state == [sequencer EXCEPT !.last = r]
      <4>4. Synced(state, r)
        BY <3>3 DEF Synced, Cleared
      <4>0. r \in 0 .. MaxVersion
        BY <1>4
      <4> HIDE DEF state, u, r
      <4>11. state.retries = 0
        BY <4>0, <4>4, SyncedParts
      <4>5. /\ sequencer' = state /\ book' = Merge(book, u) /\ bookSeq' = u.last
            /\ UNCHANGED <<queue, failed, dead>>
        BY <3>1, <4>3 DEF Call, Handle, PublishUpdate, state
      <4>6. book' = BookAt(u.last)
        BY <1>3, <1>4, <4>2, <4>5, MergeRight DEF BookInv, BookExact
      <4>7. Synced(sequencer', r) /\ bookSeq' = r /\ sequencer'.retries = 0
        BY <4>4, <4>5, <4>11 DEF r
      <4>8. bookSeq' \in bookSeq .. r /\ book' = BookAt(bookSeq')
        BY <1>3, <1>4, <4>2, <4>5, <4>6 DEF r
      <4>9. ~dead' /\ MaxRetries # 0 => sequencer'.retries <= MaxRetries
        BY <4>7, BoundsAssumption
      <4>10. queue' \in Nat /\ failed' \in BOOLEAN /\ dead' \in BOOLEAN
        BY <4>5 DEF BookInv, RangesOK
      <4> QED
        BY <4>7, <4>8, <4>9, <4>10, Zenon DEF Handled
    <3> QED
      BY <3>2, <3>3 DEF BookInv, SequencerOK
  <2> QED
    BY <2>1, <2>2
<1>7. /\ SequencerOK' /\ RetriesOK' /\ BookExact' /\ bookSeq' \in 0 .. r /\ bookSeq' >= bookSeq
      /\ queue' \in Nat /\ failed' \in BOOLEAN /\ dead' \in BOOLEAN
  <2> HIDE DEF r
  <2> QED
    BY <1>1, <1>4, <1>6, HandledKeeps
<1>8. RangesOK'
  <2>1. UNCHANGED <<hist, sent, up, rest, asked, answers, drops>>
    BY DEF DepthUpdate, exchangeVars, restVars
  <2> QED
    BY <1>1, <1>4, <1>7, <2>1 DEF BookInv, RangesOK
<1> QED
  BY <1>5, <1>7, <1>8 DEF BookInv

LEMMA AckKeeps ==
  ASSUME BookInv, DepthAck
  PROVE  BookInv' /\ bookSeq' >= bookSeq
<1> DEFINE r == received
           v == answers[1]
<1>1. /\ ~dead /\ answers \in Seq(0 .. Len(hist)) /\ answers # <<>> /\ answers' = Tail(answers)
      /\ UNCHANGED <<hist, sent, up, wire, rest, asked, received, drops>>
  BY DEF BookInv, RangesOK, DepthAck, exchangeVars, streamVars
<1>2. v \in 0 .. MaxVersion /\ answers' \in Seq(0 .. Len(hist))
  <2>1. answers[1] \in 0 .. Len(hist)
    BY <1>1, Members
  <2>2. Len(hist) \in Nat /\ Len(hist) <= MaxVersion
    BY DEF BookInv, RangesOK
  <2>3. Tail(answers) \in Seq(0 .. Len(hist))
    BY <1>1, TailElements
  <2> QED
    BY <1>1, <2>1, <2>2, <2>3, BoundsAssumption
<1>3. r \in received .. MaxVersion /\ r \in 0 .. MaxVersion /\ r \in 0 .. sent
  BY BoundsAssumption DEF BookInv, RangesOK
<1> HIDE DEF v
<1>4. Handled(r)
  <2>1. CASE BadState
    BY <1>3, <2>1, BadStateRight
  <2>2. CASE Handle(OnSnapshot(sequencer, v))
    <3>1. CASE Waiting(sequencer, received)
      <4>1. Outcome(OnSnapshot(sequencer, v), sequencer, r)
        BY <1>2, <1>3, <3>1, SnapshotRight
      <4> QED
        BY <1>1, <1>3, <2>2, <4>1, OutcomeRight
    <3>2. CASE Synced(sequencer, received) /\ bookSeq = received
      <4>1. sequencer.synced /\ sequencer.retries = 0
        BY <1>3, <3>2, SyncedParts
      <4>2. OnSnapshot(sequencer, v) = Quiet(sequencer)
        BY <4>1 DEF OnSnapshot
      <4>3. UNCHANGED <<sequencer, book, bookSeq, queue, failed, dead>>
        BY <2>2, <4>2 DEF Quiet, Call, Handle
      <4>4. bookSeq' \in bookSeq .. r
        BY <1>3, <3>2, <4>3
      <4>5. MaxRetries # 0 => sequencer'.retries <= MaxRetries
        BY <4>1, <4>3, BoundsAssumption
      <4>6. queue' \in Nat /\ failed' \in BOOLEAN /\ dead' \in BOOLEAN
        BY <4>3 DEF BookInv, RangesOK
      <4>7. book' = BookAt(bookSeq')
        BY <4>3 DEF BookInv, BookExact
      <4> QED
        BY <3>2, <4>3, <4>4, <4>5, <4>6, <4>7 DEF Handled
    <3> QED
      BY <3>1, <3>2 DEF BookInv, SequencerOK
  <2> QED
    BY <2>1, <2>2 DEF DepthAck, v
<1>5. /\ SequencerOK' /\ RetriesOK' /\ BookExact' /\ bookSeq' \in 0 .. r /\ bookSeq' >= bookSeq
      /\ queue' \in Nat /\ failed' \in BOOLEAN /\ dead' \in BOOLEAN
  BY <1>1, <1>3, <1>4, HandledKeeps
<1>6. RangesOK'
  BY <1>1, <1>2, <1>3, <1>5 DEF BookInv, RangesOK
<1>7. WireOK'
  BY <1>1 DEF BookInv, WireOK
<1> QED
  BY <1>5, <1>6, <1>7 DEF BookInv

\* What keeps the invariant when nothing is handled: the book and the sequencer
\* are as they were.
LEMMA BookRests ==
  ASSUME BookInv, UNCHANGED <<hist, bookVars, received, dead>>
  PROVE  SequencerOK' /\ RetriesOK' /\ BookExact' /\ bookSeq' >= bookSeq
<1>1. UNCHANGED <<sequencer, book, bookSeq, hist, received, dead>>
  BY DEF bookVars
<1>2. BookExact'
  BY <1>1 DEF BookInv, BookExact, BookAt, LastChange
<1>3. bookSeq' >= bookSeq
  BY <1>1 DEF BookInv, RangesOK
<1> QED
  BY <1>1, <1>2, <1>3 DEF BookInv, SequencerOK, RetriesOK

LEMMA OthersKeep ==
  ASSUME BookInv,
         StreamReady \/ StreamDisconnected \/ GetDepth \/ DepthError \/ RestReady
           \/ RestDisconnected \/ Answer \/ UNCHANGED vars
  PROVE  BookInv' /\ bookSeq' >= bookSeq
<1>1. UNCHANGED <<hist, sent, bookVars, received, dead>>
  BY DEF StreamReady, StreamDisconnected, GetDepth, DepthError, RestReady, RestDisconnected, Answer,
         vars, exchangeVars
<1>2. SequencerOK' /\ RetriesOK' /\ BookExact' /\ bookSeq' >= bookSeq
  BY <1>1, BookRests
<1>3. WireOK'
  <2>1. wire' \in {wire, <<>>}
    BY DEF StreamReady, StreamDisconnected, GetDepth, DepthError, RestReady, RestDisconnected,
           Answer, vars, streamVars
  <2>2. CASE wire' = wire
    BY <1>1, <2>2 DEF BookInv, WireOK
  <2>3. CASE wire' = <<>>
    BY <2>3, EmptySequence DEF WireOK
  <2> QED
    BY <2>1, <2>2, <2>3
<1>4. RangesOK'
  <2>1. UNCHANGED <<hist, sent, received, bookSeq, dead>>
    BY <1>1 DEF bookVars
  <2> USE DEF BookInv, RangesOK, exchangeVars, streamVars, restVars
  <2>2. CASE StreamReady
    BY <2>1, <2>2 DEF StreamReady
  <2>3. CASE StreamDisconnected
    <3>1. drops' \in 0 .. MaxDrops
      BY <2>3, BoundsAssumption DEF StreamDisconnected
    <3>2. up' \in BOOLEAN /\ UNCHANGED <<rest, asked, answers, queue, failed>>
      BY <2>3 DEF StreamDisconnected
    <3> QED
      BY <2>1, <3>1, <3>2
  <2>4. CASE GetDepth
    BY <2>1, <2>4 DEF GetDepth
  <2>5. CASE DepthError
    BY <2>1, <2>5 DEF DepthError
  <2>6. CASE RestReady
    BY <2>1, <2>6 DEF RestReady
  <2>7. CASE RestDisconnected
    <3>1. answers' \in Seq(0 .. Len(hist)) /\ asked' \in Nat
      BY <2>7, EmptySequence DEF RestDisconnected
    <3>2. failed' \in BOOLEAN /\ rest' \in BOOLEAN
      BY <2>7 DEF RestDisconnected
    <3>3. drops' \in 0 .. MaxDrops
      BY <2>7, BoundsAssumption DEF RestDisconnected
    <3>4. queue' \in Nat /\ up' \in BOOLEAN
      BY <2>7 DEF RestDisconnected
    <3> QED
      BY <2>1, <3>1, <3>2, <3>3, <3>4
  <2>8. CASE Answer
    <3>1. Version \in 0 .. Len(hist)
      BY DEF Version
    <3>2. answers' \in Seq(0 .. Len(hist)) /\ asked' \in Nat
      BY <2>8, <3>1, Appending DEF Answer
    <3> QED
      BY <2>1, <2>8, <3>2 DEF Answer
  <2>9. CASE UNCHANGED vars
    BY <2>1, <2>9 DEF vars
  <2> QED
    BY <2>2, <2>3, <2>4, <2>5, <2>6, <2>7, <2>8, <2>9
<1> QED
  BY <1>2, <1>3, <1>4 DEF BookInv

LEMMA ChangeKeeps ==
  ASSUME BookInv, NEW l \in Levels, Change(l)
  PROVE  BookInv' /\ bookSeq' >= bookSeq
<1>1. /\ hist' = Append(hist, l) /\ Len(hist) < MaxVersion
      /\ UNCHANGED <<sent, up, wire, rest, asked, answers, queue, sequencer, book, bookSeq,
                     received, failed, dead, drops>>
  BY DEF Change, Version, streamVars, restVars, bookVars
<1>2. /\ hist' \in Seq(Levels) /\ Len(hist') = Len(hist) + 1 /\ Len(hist) \in Nat
      /\ \A n \in 1 .. Len(hist) : hist'[n] = hist[n]
  BY <1>1 DEF BookInv, RangesOK
<1>3. bookSeq \in Nat /\ bookSeq <= Len(hist)
  BY DEF BookInv, RangesOK
<1>4. BookExact'
  <2>1. BookAt(bookSeq)' = BookAt(bookSeq)
    BY <1>1, <1>2, <1>3, SameBook
  <2> QED
    BY <1>1, <2>1 DEF BookInv, BookExact
<1>5. answers' \in Seq(0 .. Len(hist'))
  <2>1. answers \in Seq(0 .. Len(hist)) /\ 0 .. Len(hist) \subseteq 0 .. Len(hist')
    BY <1>2 DEF BookInv, RangesOK
  <2> QED
    BY <1>1, <2>1, WiderSequence
<1>6. RangesOK'
  BY <1>1, <1>2, <1>5, BoundsAssumption DEF BookInv, RangesOK
<1> QED
  BY <1>1, <1>3, <1>4, <1>6 DEF BookInv, WireOK, SequencerOK, RetriesOK

LEMMA TellKeeps ==
  ASSUME BookInv, Tell
  PROVE  BookInv' /\ bookSeq' >= bookSeq
<1> DEFINE u == [prev |-> sent, last |-> Version]
<1>1. /\ sent < Version /\ sent' = Version /\ wire' \in {wire, Append(wire, u)}
      /\ UNCHANGED <<hist, up, rest, asked, answers, queue, bookVars, received, failed, dead, drops>>
  BY DEF Tell, restVars
<1>2. /\ sent \in Nat /\ Version \in Nat /\ Version <= MaxVersion /\ received <= sent /\ received \in Nat
      /\ Version = Len(hist)
  BY BoundsAssumption DEF BookInv, RangesOK, Version
<1>3. u \in Updates /\ u.prev = sent /\ u.last = Version
  BY <1>1, <1>2, BoundsAssumption DEF Updates
<1> HIDE DEF u
<1>4. SequencerOK' /\ RetriesOK' /\ BookExact' /\ bookSeq' >= bookSeq
  BY <1>1, BookRests
<1>5. RangesOK'
  BY <1>1, <1>2 DEF BookInv, RangesOK, bookVars
<1>6. wire \in Seq(Updates) /\ \A k \in DOMAIN wire :
         /\ wire[k].prev \in Nat /\ wire[k].last \in Nat
         /\ received <= wire[k].prev /\ wire[k].prev < wire[k].last /\ wire[k].last <= sent
  BY Members, UpdateParts DEF BookInv, WireOK
<1>7. CASE wire' = wire
  <2>1. \A k \in DOMAIN wire : wire[k].last <= Version
    BY <1>1, <1>2, <1>6
  <2> QED
    BY <1>1, <1>4, <1>5, <1>7, <2>1 DEF BookInv, WireOK
<1>8. CASE wire' = Append(wire, u)
  <2> DEFINE m == Len(wire)
  <2>1. /\ wire' \in Seq(Updates) /\ DOMAIN wire' = 1 .. m + 1 /\ wire'[m + 1] = u
        /\ \A k \in 1 .. m : wire'[k] = wire[k]
        /\ m \in Nat /\ DOMAIN wire = 1 .. m
    BY <1>3, <1>6, <1>8, Appending, Members
  <2> HIDE DEF m
  <2>2. ASSUME NEW k \in DOMAIN wire'
        PROVE  received <= wire'[k].prev /\ wire'[k].prev < wire'[k].last /\ wire'[k].last <= Version
    <3>1. CASE k = m + 1
      BY <1>1, <1>2, <1>3, <2>1, <3>1
    <3>2. CASE k # m + 1
      <4>1. k \in DOMAIN wire /\ wire'[k] = wire[k]
        BY <2>1, <3>2
      <4> QED
        BY <1>1, <1>2, <1>6, <4>1
    <3> QED
      BY <3>1, <3>2
  <2>3. ASSUME NEW j \in DOMAIN wire', NEW k \in DOMAIN wire', j < k
        PROVE  wire'[j].last <= wire'[k].prev
    <3>1. j \in DOMAIN wire /\ wire'[j] = wire[j]
      BY <2>1, <2>3
    <3>2. CASE k = m + 1
      BY <1>3, <1>6, <2>1, <3>1, <3>2
    <3>3. CASE k # m + 1
      <4>1. k \in DOMAIN wire /\ wire'[k] = wire[k]
        BY <2>1, <3>3
      <4> QED
        BY <2>3, <3>1, <4>1 DEF BookInv, WireOK
    <3> QED
      BY <3>2, <3>3
  <2>4. WireOK'
    BY <1>1, <2>1, <2>2, <2>3 DEF WireOK
  <2> QED
    BY <1>4, <1>5, <2>4 DEF BookInv
<1> QED
  BY <1>1, <1>7, <1>8

LEMMA BookStep == BookInv /\ [Next]_vars => BookInv' /\ bookSeq' >= bookSeq
<1> SUFFICES ASSUME BookInv, [Next]_vars PROVE BookInv' /\ bookSeq' >= bookSeq
  OBVIOUS
<1> QED
  BY UpdateKeeps, AckKeeps, OthersKeep, ChangeKeeps, TellKeeps DEF Next

LEMMA BookInit == Init => BookInv
<1> SUFFICES ASSUME Init PROVE BookInv
  OBVIOUS
<1>1. <<>> \in Seq(Levels) /\ <<>> \in Seq(Updates) /\ Len(<<>>) = 0 /\ <<>> \in Seq(0 .. 0)
  BY EmptySequence
<1>2. RangesOK
  <2>1. hist = <<>> /\ answers = <<>> /\ Len(hist) = 0
    BY <1>1 DEF Init
  <2>2. sent = 0 /\ received = 0 /\ bookSeq = 0 /\ asked = 0 /\ queue = 0 /\ drops = 0
    BY DEF Init
  <2>3. up \in BOOLEAN /\ rest \in BOOLEAN /\ failed \in BOOLEAN /\ dead \in BOOLEAN
    BY DEF Init
  <2>4. hist \in Seq(Levels) /\ answers \in Seq(0 .. Len(hist))
    BY <1>1, <2>1
  <2> QED
    BY <2>1, <2>2, <2>3, <2>4, BoundsAssumption DEF RangesOK
<1>3. WireOK
  BY <1>1 DEF Init, WireOK
<1>4. SequencerOK /\ sequencer.retries = 0
  BY ClearedWaits DEF Init, SequencerOK
<1>5. RetriesOK
  BY <1>4, BoundsAssumption DEF RetriesOK
<1>6. BookExact
  BY DEF Init, BookExact
<1> QED
  BY <1>2, <1>3, <1>4, <1>5, <1>6 DEF BookInv

LEMMA BookInductive == Spec => []BookInv
BY BookInit, BookStep, PTL DEF Spec

\* What clients see is the exchange's book at the version it is published for:
\* for any book and number of changes, sessions and snapshots.
THEOREM BookIsRight == Spec => []BookExact
<1>1. BookInv => BookExact
  BY DEF BookInv
<1> QED
  BY <1>1, BookInductive, PTL

\* A sequencer that publishes updates has followed every update received.
THEOREM SyncedFollows == Spec => []SyncedIsCurrent
<1>1. BookInv => SyncedIsCurrent
  <2> SUFFICES ASSUME BookInv, sequencer.synced
               PROVE  sequencer.last = bookSeq /\ bookSeq = received
    BY DEF SyncedIsCurrent
  <2>1. Synced(sequencer, received) /\ bookSeq = received
    BY DEF BookInv, SequencerOK, Waiting
  <2>2. received \in 0 .. MaxVersion
    BY BoundsAssumption DEF BookInv, RangesOK
  <2> QED
    BY <2>1, <2>2, SyncedParts
<1> QED
  BY <1>1, BookInductive, PTL

\* The published book only goes forward: a snapshot that was asked for before a
\* gap and arrives after it never takes clients back.
THEOREM OnlyForward == Spec => NeverBack
<1>1. BookInv /\ [Next]_vars => bookSeq' >= bookSeq
  BY BookStep
<1>2. Spec => [][bookSeq' >= bookSeq]_vars
  BY <1>1, BookInductive, PTL DEF Spec
<1> QED
  BY <1>2 DEF NeverBack

\* Every variable stays in its domain; what is synchronised keeps nothing back,
\* and the process ends before the retries exceed their limit.
THEOREM TypeCorrect == Spec => []TypeOK
<1>1. BookInv => TypeOK
  <2> SUFFICES ASSUME BookInv PROVE TypeOK
    OBVIOUS
  <2>1. bookSeq \in 0 .. Len(hist) /\ received \in 0 .. MaxVersion /\ bookSeq \in Nat /\ Len(hist) \in Nat
    BY BoundsAssumption DEF BookInv, RangesOK
  <2>2. book \in [Levels -> 0 .. Len(hist)]
    <3>1. \A l \in Levels : LastChange(l, bookSeq) \in 0 .. Len(hist)
      <4> SUFFICES ASSUME NEW l \in Levels PROVE LastChange(l, bookSeq) \in 0 .. Len(hist)
        OBVIOUS
      <4>1. LastChange(l, bookSeq) \in 0 .. bookSeq
        BY <2>1, LastOfChanges
      <4> QED
        BY <2>1, <4>1
    <3> QED
      BY <3>1 DEF BookInv, BookExact, BookAt
  <2>3. sequencer \in Sequencers
    BY <2>1, SyncedParts DEF BookInv, SequencerOK, Waiting
  <2>4. sequencer.synced => sequencer = [Cleared EXCEPT !.synced = TRUE, !.last = sequencer.last]
    <3>1. CASE Waiting(sequencer, received)
      BY <3>1 DEF Waiting
    <3>2. CASE Synced(sequencer, received)
      <4>1. sequencer.last = received
        BY <2>1, <3>2, SyncedParts
      <4> QED
        BY <3>2, <4>1 DEF Synced
    <3> QED
      BY <3>1, <3>2 DEF BookInv, SequencerOK
  <2> QED
    BY <2>1, <2>2, <2>3, <2>4 DEF BookInv, RangesOK, WireOK, RetriesOK, TypeOK, Version
<1> QED
  BY <1>1, BookInductive, PTL

----------------------------------------------------------------------------
(* The promise of MarketBook *)

\* Two ways to say which version changed a level last.
LEMMA ShownBook ==
  ASSUME NEW v \in Nat, bookSeq' = v, book' = BookAt(v)
  PROVE  Market!Show(v)
<1>1. ASSUME NEW l \in Levels
      PROVE  /\ book'[l] \in 0 .. v
             /\ book'[l] \in Market!ChangesOf(l, v) \cup {0}
             /\ \A n \in Market!ChangesOf(l, v) : n <= book'[l]
  <2> DEFINE k == LastChange(l, v)
  <2>1. book'[l] = k
    BY DEF BookAt
  <2>2. k \in 0 .. v /\ (k # 0 => hist[k] = l) /\ \A m \in k + 1 .. v : hist[m] # l
    BY LastOfChanges
  <2> HIDE DEF k
  <2>3. k \in Market!ChangesOf(l, v) \cup {0}
    BY <2>2 DEF Market!ChangesOf
  <2>4. ASSUME NEW n \in Market!ChangesOf(l, v) PROVE n <= k
    <3>1. n \in 1 .. v /\ hist[n] = l
      BY DEF Market!ChangesOf
    <3>2. n \notin k + 1 .. v
      BY <2>2, <3>1
    <3> QED
      BY <2>2, <3>1, <3>2
  <2> QED
    BY <2>1, <2>2, <2>3, <2>4
<1>2. book' \in [Levels -> 0 .. v]
  BY <1>1 DEF BookAt
<1> QED
  BY <1>1, <1>2 DEF Market!Show

\* While the sequencer waits the book clients have stands still.
LEMMA SilentWait ==
  ASSUME BookInv, DepthUpdate \/ DepthAck, ~sequencer'.synced
  PROVE  UNCHANGED <<book, bookSeq>>
<1>1. ASSUME NEW s PROVE Join(s).out = "SNAPSHOT" => Join(s).state.synced
  <2> DEFINE kept == Beyond(s.cached, s.held)
             t    == [Cleared EXCEPT !.synced = TRUE, !.last = kept[Len(kept)].last]
  <2>1. t.synced
    BY DEF Cleared
  <2> HIDE DEF t, kept
  <2>2. CASE kept = <<>>
    BY <2>2 DEF Join, Quiet, Call, kept
  <2>3. CASE kept # <<>> /\ kept[1].prev > s.held
    BY <2>3 DEF Join, Again, Call, kept
  <2>4. CASE kept # <<>> /\ ~(kept[1].prev > s.held)
    <3>1. Join(s) = Call(t, "SNAPSHOT", s.held, kept)
      BY <2>4 DEF Join, kept, t
    <3> QED
      BY <2>1, <3>1 DEF Call
  <2> QED
    BY <2>2, <2>3, <2>4
<1>2. ASSUME NEW s PROVE Join(s).out \in {"NONE", "REQUEST", "SNAPSHOT"}
  BY DEF Join, Quiet, Again, Call
<1>3. ASSUME NEW c, Handle(c), c.out \in {"UPDATE", "SNAPSHOT"} => c.state.synced
      PROVE  UNCHANGED <<book, bookSeq>>
  <2>1. sequencer' = c.state
    BY <1>3 DEF Handle
  <2> QED
    BY <1>3, <2>1 DEF Handle
<1>4. ASSUME BadState PROVE UNCHANGED <<book, bookSeq>>
  BY <1>4 DEF BadState, Unpublished
<1>5. sequencer.synced => DOMAIN sequencer = DOMAIN Cleared
  <2>1. received \in 0 .. MaxVersion
    BY BoundsAssumption DEF BookInv, RangesOK
  <2> QED
    BY <2>1, SyncedParts DEF BookInv, SequencerOK, Waiting, Sequencers, Cleared
<1>6. CASE DepthUpdate
  <2> DEFINE u == wire[1]
             t == [sequencer EXCEPT !.cached = Append(@, u)]
  <2>1. ASSUME NEW late \in BOOLEAN
        PROVE  LET c == OnUpdate(sequencer, u, late) IN
               c.out \in {"UPDATE", "SNAPSHOT"} => c.state.synced
    <3>1. CASE sequencer.synced
      BY <1>5, <3>1 DEF OnUpdate, Call, Cleared
    <3>2. CASE ~sequencer.synced /\ sequencer.held # None
      <4>1. OnUpdate(sequencer, u, late) = Join(t)
        BY <3>2 DEF OnUpdate
      <4> HIDE DEF t
      <4> QED
        BY <1>1, <1>2, <4>1
    <3>3. CASE ~sequencer.synced /\ sequencer.held = None
      BY <3>3 DEF OnUpdate, Again, Quiet, Call
    <3> QED
      BY <3>1, <3>2, <3>3
  <2>2. BadState \/ \E late \in BOOLEAN : Handle(OnUpdate(sequencer, u, late))
    BY <1>6 DEF DepthUpdate
  <2> QED
    BY <1>3, <1>4, <2>1, <2>2
<1>7. CASE DepthAck
  <2> DEFINE v == answers[1]
             t == [sequencer EXCEPT !.held = v]
             c == OnSnapshot(sequencer, v)
  <2>1. CASE Handle(c)
    <3>1. CASE sequencer.synced
      <4>1. c.out = "NONE"
        BY <3>1 DEF OnSnapshot, Quiet, Call
      <4> HIDE DEF c
      <4> QED
        BY <1>3, <2>1, <4>1
    <3>2. CASE ~sequencer.synced
      <4>1. c = Join(t)
        BY <3>2 DEF OnSnapshot
      <4>2. c.out \in {"UPDATE", "SNAPSHOT"} => c.state.synced
        <5> HIDE DEF t
        <5> QED
          BY <1>1, <1>2, <4>1
      <4> HIDE DEF c
      <4> QED
        BY <1>3, <2>1, <4>2
    <3> QED
      BY <3>1, <3>2
  <2> QED
    BY <1>4, <1>7, <2>1 DEF DepthAck
<1> QED
  BY <1>6, <1>7

\* Every step is a step of MarketBook, or nothing that its clients see.
LEMMA MarketStep ==
  ASSUME BookInv, BookInv', [Next]_vars
  PROVE  [Market!Next]_<<hist, book, bookSeq, sequencer.synced>>
<1>1. CASE DepthUpdate \/ DepthAck
  <2>1. hist' = hist
    BY <1>1 DEF DepthUpdate, DepthAck, exchangeVars
  <2>2. /\ bookSeq \in Nat /\ bookSeq' \in Nat /\ bookSeq' >= bookSeq
        /\ bookSeq' <= Len(hist) /\ Len(hist) \in Nat
    <3>1. bookSeq' >= bookSeq
      BY BookStep
    <3>2. bookSeq \in Nat /\ received \in Nat /\ sent \in Nat /\ Len(hist) \in Nat
      BY DEF BookInv, RangesOK
    <3>3. /\ bookSeq' \in Nat /\ bookSeq' <= received' /\ received' <= sent'
          /\ sent' <= Len(hist') /\ received' \in Nat /\ sent' \in Nat
      BY DEF BookInv, RangesOK
    <3> QED
      BY <2>1, <3>1, <3>2, <3>3
  <2>3. book' = BookAt(bookSeq')
    BY <2>1 DEF BookInv, BookExact, BookAt, LastChange
  <2>4. Market!Show(bookSeq')
    BY <2>2, <2>3, ShownBook
  <2>5. sequencer.synced \in BOOLEAN /\ sequencer'.synced \in BOOLEAN
    <3>1. sequencer \in Sequencers
      <4>1. received \in 0 .. MaxVersion
        BY BoundsAssumption DEF BookInv, RangesOK
      <4> QED
        BY <4>1, SyncedParts DEF BookInv, SequencerOK, Waiting
    <3>2. sequencer' \in Sequencers
      <4>1. received' \in 0 .. MaxVersion
        BY BoundsAssumption DEF BookInv, RangesOK
      <4>2. Waiting(sequencer', received') \/ Synced(sequencer', received')
        BY DEF BookInv, SequencerOK, Waiting, Synced, Linked
      <4> QED
        BY <4>1, <4>2, SyncedParts DEF Waiting
    <3> QED
      BY <3>1, <3>2 DEF Sequencers
  <2>6. CASE ~sequencer'.synced
    <3>1. UNCHANGED <<book, bookSeq>>
      BY <1>1, <2>6, SilentWait
    <3>2. CASE sequencer.synced
      <4>1. Market!LoseTrack
        BY <2>1, <2>6, <3>1, <3>2 DEF Market!LoseTrack
      <4> QED
        BY <4>1 DEF Market!Next
    <3>3. CASE ~sequencer.synced
      BY <2>1, <2>5, <2>6, <3>1, <3>3
    <3> QED
      BY <3>2, <3>3
  <2>7. CASE sequencer'.synced /\ ~sequencer.synced
    <3>1. bookSeq' \in bookSeq .. Len(hist)
      BY <2>2
    <3>2. Market!Snapshot
      BY <2>1, <2>4, <2>7, <3>1 DEF Market!Snapshot
    <3> QED
      BY <3>2 DEF Market!Next
  <2>8. CASE sequencer'.synced /\ sequencer.synced
    <3>1. CASE bookSeq' = bookSeq
      <4>1. book' = book
        BY <2>3, <3>1 DEF BookInv, BookExact
      <4> QED
        BY <2>1, <2>5, <2>8, <3>1, <4>1
    <3>2. CASE bookSeq' # bookSeq
      <4>1. bookSeq' \in bookSeq + 1 .. Len(hist)
        BY <2>2, <3>2
      <4>2. Market!Update
        BY <2>1, <2>4, <2>8, <4>1 DEF Market!Update
      <4> QED
        BY <4>2 DEF Market!Next
    <3> QED
      BY <3>1, <3>2
  <2> QED
    BY <2>6, <2>7, <2>8
<1>2. CASE \E l \in Levels : Change(l)
  <2>1. PICK l \in Levels : Change(l)
    BY <1>2
  <2>2. Market!Change(l)
    BY <2>1 DEF Change, Market!Change, bookVars
  <2> QED
    BY <2>2 DEF Market!Next
<1>3. CASE \/ StreamReady \/ StreamDisconnected \/ GetDepth \/ DepthError \/ RestReady
           \/ RestDisconnected \/ Tell \/ Answer \/ UNCHANGED vars
  BY <1>3 DEF StreamReady, StreamDisconnected, GetDepth, DepthError, RestReady, RestDisconnected,
              Tell, Answer, vars, exchangeVars, bookVars
<1> QED
  BY <1>1, <1>2, <1>3 DEF Next

\* MarketData, Rest and the sequencer keep the promise of MarketBook, for any
\* levels, changes, lost sessions and retries: a snapshot first, then updates that
\* carry on from it, and after a gap nothing until the next snapshot.
THEOREM MarketBookImplemented == Spec => ImplementsMarketBook
<1>1. Init => Market!Init
  <2> SUFFICES ASSUME Init PROVE Market!Init
    OBVIOUS
  <2>1. \A l \in Levels : LastChange(l, 0) = 0
    BY LastOfChanges
  <2>2. book = [l \in Levels |-> 0]
    BY <2>1 DEF Init, BookAt
  <2>3. sequencer.synced = FALSE
    BY DEF Init, Cleared
  <2> QED
    BY <2>2, <2>3 DEF Init, Market!Init
<1>2. BookInv /\ BookInv' /\ [Next]_vars
        => [Market!Next]_<<hist, book, bookSeq, sequencer.synced>>
  BY MarketStep
<1> QED
  BY <1>1, <1>2, BookInductive, PTL DEF Spec, ImplementsMarketBook, Market!Spec

----------------------------------------------------------------------------
(* A waiting instrument has a snapshot coming *)

Fields == {"synced", "last", "cached", "held", "retries"}

\* Is a depth request queued, on its way, answered, or has one failed?
Coming == queue > 0 \/ asked > 0 \/ answers # <<>> \/ failed

\* Does the sequencer need none?
Served(s) == s.synced \/ s.held # None

\* The inductive strengthening of SnapshotComing. Before the first update there
\* is nothing the sequencer could have cached, so that the first one requests.
ComingInv ==
  /\ hist \in Seq(Levels) /\ Len(hist) <= MaxVersion /\ sent \in Nat
  /\ wire \in Seq([prev : Nat, last : Nat \ {0}])
  /\ queue \in Nat /\ asked \in Nat /\ answers \in Seq(0 .. MaxVersion)
  /\ DOMAIN sequencer = Fields
  /\ received = 0 => sequencer.cached = <<>>
  /\ received # 0 /\ ~dead => Served(sequencer) \/ Coming

----------------------------------------------------------------------------
(* Is a snapshot coming? *)

LEMMA ClearedFields == DOMAIN Cleared = Fields
BY DEF Cleared, Fields

\* Joining a snapshot publishes it, requests another one, or keeps it.
LEMMA JoinOutcome ==
  ASSUME NEW s, DOMAIN s = Fields, s.held # None
  PROVE  /\ DOMAIN Join(s).state = Fields
         /\ Join(s).out = "REQUEST" \/ Served(Join(s).state)
         /\ s.cached = <<>> => Join(s).state.cached = <<>>
<1> DEFINE kept == Beyond(s.cached, s.held)
<1>1. CASE kept = <<>>
  <2>1. Join(s) = Quiet([s EXCEPT !.cached = <<>>])
    BY <1>1 DEF Join
  <2>2. Join(s).state = [s EXCEPT !.cached = <<>>]
    BY <2>1 DEF Quiet, Call
  <2>3. /\ DOMAIN Join(s).state = Fields
        /\ Join(s).state.held = s.held
        /\ Join(s).state.cached = <<>>
    BY <2>2 DEF Fields
  <2> QED BY <2>3 DEF Served
<1>2. CASE kept # <<>> /\ kept[1].prev > s.held
  <2>1. Join(s) = Again([s EXCEPT !.held = None])
    BY <1>2 DEF Join
  <2>2. /\ Join(s).state = [s EXCEPT !.held = None, !.retries = s.retries + 1]
        /\ Join(s).out = "REQUEST"
    BY <2>1 DEF Again, Call, Fields
  <2>3. DOMAIN Join(s).state = Fields /\ Join(s).state.cached = s.cached
    BY <2>2 DEF Fields
  <2> QED BY <2>2, <2>3
<1>3. CASE kept # <<>> /\ ~(kept[1].prev > s.held)
  <2>1. Join(s) = Call([Cleared EXCEPT !.synced = TRUE, !.last = kept[Len(kept)].last],
                       "SNAPSHOT", s.held, kept)
    BY <1>3 DEF Join
  <2>2. Join(s).state = [Cleared EXCEPT !.synced = TRUE, !.last = kept[Len(kept)].last]
    BY <2>1 DEF Call
  <2>3. /\ DOMAIN Join(s).state = DOMAIN Cleared
        /\ Join(s).state.synced
        /\ Join(s).state.cached = <<>>
    BY <2>2 DEF Cleared
  <2> QED BY <2>3, ClearedFields DEF Served
<1> QED BY <1>1, <1>2, <1>3

\* An update leaves the sequencer served, requests, or was not the first.
LEMMA UpdateOutcome ==
  ASSUME NEW s, NEW u, NEW late, DOMAIN s = Fields
  PROVE  /\ DOMAIN OnUpdate(s, u, late).state = Fields
         /\ \/ OnUpdate(s, u, late).out = "REQUEST"
            \/ Served(OnUpdate(s, u, late).state)
            \/ ~Served(s) /\ s.cached # <<>>
<1> DEFINE t == [s EXCEPT !.cached = Append(@, u)]
<1>1. DOMAIN t = Fields /\ t.held = s.held
  BY DEF Fields
<1>2. CASE s.synced
  <2>1. OnUpdate(s, u, late) = Call([s EXCEPT !.last = u.last], "UPDATE", None, <<u>>)
    BY <1>2 DEF OnUpdate
  <2> QED BY <1>2, <2>1 DEF Call, Served, Fields
<1>3. CASE ~s.synced /\ s.held # None
  <2>1. OnUpdate(s, u, late) = Join(t)
    BY <1>3 DEF OnUpdate
  <2> QED BY <1>1, <1>3, <2>1, JoinOutcome
<1>4. CASE ~s.synced /\ s.held = None /\ s.cached = <<>>
  <2>1. OnUpdate(s, u, late) = Call(t, "REQUEST", None, <<>>)
    BY <1>4 DEF OnUpdate
  <2> QED BY <1>1, <2>1 DEF Call
<1>5. CASE ~s.synced /\ s.held = None /\ s.cached # <<>>
  <2>1. OnUpdate(s, u, late) = IF late THEN Again(t) ELSE Quiet(t)
    BY <1>5 DEF OnUpdate
  <2> QED BY <1>1, <1>5, <2>1 DEF Again, Quiet, Call, Served, Fields
<1> QED BY <1>2, <1>3, <1>4, <1>5

\* A snapshot leaves the sequencer served, or requests.
LEMMA SnapshotOutcome ==
  ASSUME NEW s, NEW v, DOMAIN s = Fields, v # None
  PROVE  /\ DOMAIN OnSnapshot(s, v).state = Fields
         /\ OnSnapshot(s, v).out = "REQUEST" \/ Served(OnSnapshot(s, v).state)
         /\ s.cached = <<>> => OnSnapshot(s, v).state.cached = <<>>
<1>1. CASE s.synced
  BY <1>1 DEF OnSnapshot, Quiet, Call, Served
<1>2. CASE ~s.synced
  <2> DEFINE t == [s EXCEPT !.held = v]
  <2>1. DOMAIN t = Fields /\ t.held = v /\ t.cached = s.cached
    BY DEF Fields
  <2>2. OnSnapshot(s, v) = Join(t)
    BY <1>2 DEF OnSnapshot
  <2> QED BY <2>1, <2>2, JoinOutcome
<1> QED BY <1>1, <1>2

----------------------------------------------------------------------------
(* Every step keeps the invariant *)

\* What is enough for a step that may take a snapshot away: afterwards the
\* sequencer is served, or a request is coming, or the process has ended.
LEMMA HandleComing ==
  ASSUME NEW c, Handle(c), queue \in Nat, c.out = "REQUEST" \/ Served(c.state)
  PROVE  dead' \/ Served(sequencer') \/ Coming'
<1>1. CASE c.out = "REQUEST"
  BY <1>1 DEF Handle, RequestSnapshot, Queued, Coming
<1>2. CASE c.out # "REQUEST"
  BY <1>2 DEF Handle
<1> QED BY <1>1, <1>2

\* The queue holds a number of entries, and is kept or grows.
LEMMA HandleQueue ==
  ASSUME NEW c, Handle(c), queue \in Nat
  PROVE  /\ queue' \in Nat
         /\ sequencer' = c.state
         /\ c.out # "REQUEST" => UNCHANGED <<queue, failed, dead>>
BY DEF Handle, RequestSnapshot, Queued

LEMMA BadStateComing ==
  ASSUME BadState, queue \in Nat
  PROVE  queue' \in Nat /\ Coming' /\ sequencer' = Cleared
BY DEF BadState, Resubscribed, Queued, AfterBadState, Coming

LEMMA DepthUpdateComing == ComingInv /\ DepthUpdate => ComingInv'
<1> SUFFICES ASSUME ComingInv, DepthUpdate PROVE ComingInv'
  OBVIOUS
<1> DEFINE U == [prev : Nat, last : Nat \ {0}]
<1>1. wire \in Seq(U) /\ wire # <<>> /\ wire' = Tail(wire) /\ received' = wire[1].last
  BY DEF ComingInv, DepthUpdate
<1>2. wire' \in Seq(U) /\ wire[1] \in U
  <2> HIDE DEF U
  <2> QED BY <1>1, Members, TailElements
<1>3. received' # 0
  BY <1>1, <1>2
<1>4. hist' \in Seq(Levels) /\ sent' \in Nat /\ asked' \in Nat /\ answers' = answers /\ asked' = asked
      /\ answers' \in Seq(0 .. MaxVersion) /\ Len(hist') <= MaxVersion
  BY DEF ComingInv, DepthUpdate, exchangeVars, restVars
<1>5. CASE BadState
  <2>1. queue' \in Nat /\ Coming' /\ sequencer' = Cleared
    BY <1>5, BadStateComing DEF ComingInv
  <2> QED BY <1>2, <1>3, <1>4, <2>1, ClearedFields DEF ComingInv
<1>6. CASE \E late \in BOOLEAN : Handle(OnUpdate(sequencer, wire[1], late))
  <2>1. PICK late \in BOOLEAN : Handle(OnUpdate(sequencer, wire[1], late))
    BY <1>6
  <2> DEFINE c == OnUpdate(sequencer, wire[1], late)
  <2>2. /\ DOMAIN c.state = Fields
        /\ c.out = "REQUEST" \/ Served(c.state) \/ (~Served(sequencer) /\ sequencer.cached # <<>>)
    BY UpdateOutcome DEF ComingInv
  <2>3. /\ queue' \in Nat /\ sequencer' = c.state
        /\ c.out # "REQUEST" => UNCHANGED <<queue, failed, dead>>
    BY <2>1, HandleQueue DEF ComingInv
  <2>4. dead' \/ Served(sequencer') \/ Coming'
    <3>1. CASE c.out = "REQUEST" \/ Served(c.state)
      BY <2>1, <3>1, HandleComing DEF ComingInv
    <3>2. CASE c.out # "REQUEST" /\ ~Served(sequencer) /\ sequencer.cached # <<>>
      BY <1>4, <2>3, <3>2 DEF ComingInv, Coming
    <3> QED BY <2>2, <3>1, <3>2
  <2> QED BY <1>2, <1>3, <1>4, <2>2, <2>3, <2>4 DEF ComingInv
<1> QED BY <1>5, <1>6 DEF DepthUpdate

LEMMA DepthAckComing == ComingInv /\ DepthAck => ComingInv'
<1> SUFFICES ASSUME ComingInv, DepthAck PROVE ComingInv'
  OBVIOUS
<1>1. answers[1] # None /\ answers' \in Seq(0 .. MaxVersion)
  BY BoundsAssumption DEF ComingInv, DepthAck, None
<1>2. /\ hist' \in Seq(Levels) /\ Len(hist') <= MaxVersion /\ sent' \in Nat
      /\ wire' \in Seq([prev : Nat, last : Nat \ {0}]) /\ asked' \in Nat
      /\ received' = received
  BY DEF ComingInv, DepthAck, exchangeVars, streamVars
<1>3. CASE BadState
  <2>1. queue' \in Nat /\ Coming' /\ sequencer' = Cleared
    BY <1>3, BadStateComing DEF ComingInv
  <2>2. sequencer'.cached = <<>>
    BY <2>1 DEF Cleared
  <2> QED BY <1>1, <1>2, <2>1, <2>2, ClearedFields DEF ComingInv
<1>4. CASE Handle(OnSnapshot(sequencer, answers[1]))
  <2> DEFINE c == OnSnapshot(sequencer, answers[1])
  <2>1. /\ DOMAIN c.state = Fields
        /\ c.out = "REQUEST" \/ Served(c.state)
        /\ sequencer.cached = <<>> => c.state.cached = <<>>
    BY <1>1, SnapshotOutcome DEF ComingInv
  <2>2. queue' \in Nat /\ sequencer' = c.state
    BY <1>4, HandleQueue DEF ComingInv
  <2>3. dead' \/ Served(sequencer') \/ Coming'
    BY <1>4, <2>1, HandleComing DEF ComingInv
  <2> QED BY <1>1, <1>2, <2>1, <2>2, <2>3 DEF ComingInv
<1> QED BY <1>3, <1>4 DEF DepthAck

LEMMA ComingStep == ComingInv /\ [Next]_vars => ComingInv'
<1> SUFFICES ASSUME ComingInv, [Next]_vars PROVE ComingInv'
  OBVIOUS
<1> USE DEF ComingInv, Coming, exchangeVars, streamVars, restVars, bookVars
<1>1. CASE StreamReady
  BY <1>1 DEF StreamReady
<1>2. CASE StreamDisconnected
  BY <1>2 DEF StreamDisconnected
<1>3. CASE GetDepth
  BY <1>3 DEF GetDepth
<1>4. CASE DepthError
  BY <1>4 DEF DepthError
<1>5. CASE RestReady
  BY <1>5 DEF RestReady
<1>6. CASE RestDisconnected
  <2>1. asked' = 0 /\ answers' = <<>> /\ answers' \in Seq(0 .. MaxVersion)
    BY <1>6 DEF RestDisconnected
  <2>2. Coming => Coming'
    BY <1>6 DEF RestDisconnected
  <2> QED BY <1>6, <2>1, <2>2 DEF RestDisconnected
<1>7. ASSUME NEW l \in Levels, Change(l) PROVE ComingInv'
  <2>1. hist' \in Seq(Levels) /\ Len(hist') <= MaxVersion
    BY <1>7, BoundsAssumption DEF Change, Version
  <2> QED BY <1>7, <2>1 DEF Change
<1>8. CASE Tell
  <2>1. sent' \in Nat \ {0}
    BY <1>8 DEF Tell, Version
  <2>2. wire' \in Seq([prev : Nat, last : Nat \ {0}])
    <3> DEFINE U == [prev : Nat, last : Nat \ {0}]
           e == [prev |-> sent, last |-> Version]
    <3>1. e \in U
      BY <1>8, <2>1 DEF Tell
    <3>2. wire \in Seq(U) /\ wire' \in {wire, Append(wire, e)}
      BY <1>8 DEF Tell
    <3> HIDE DEF U, e
    <3>3. Append(wire, e) \in Seq(U)
      BY <3>1, <3>2, Appending
    <3>4. wire' \in Seq(U)
      BY <3>2, <3>3
    <3> QED BY <3>4 DEF U
  <2> QED BY <1>8, <2>1, <2>2 DEF Tell
<1>9. CASE Answer
  <2>1. Version \in 0 .. MaxVersion
    BY BoundsAssumption DEF Version
  <2>2. answers' \in Seq(0 .. MaxVersion) /\ answers' # <<>>
    <3>1. answers' = Append(answers, Version) /\ answers \in Seq(0 .. MaxVersion)
      BY <1>9 DEF Answer
    <3> QED BY <2>1, <3>1, Appending
  <2> QED BY <1>9, <2>2 DEF Answer
<1>10. CASE UNCHANGED vars
  BY <1>10 DEF vars
<1> QED BY <1>1, <1>2, <1>3, <1>4, <1>5, <1>6, <1>7, <1>8, <1>9, <1>10,
           DepthUpdateComing, DepthAckComing DEF Next

\* An instrument that has received updates and waits for its book has a depth
\* request queued, on its way or answered, or a snapshot held, unless one
\* failed: gaps, late snapshots and lost connections never leave it without.
THEOREM WaitingHasRequest == Spec => []SnapshotComing
<1>1. Init => ComingInv
  BY BoundsAssumption, ClearedFields DEF Init, ComingInv, Cleared, Version
<1>2. ComingInv => SnapshotComing
  BY DEF ComingInv, SnapshotComing, Served, Coming
<1> QED BY <1>1, <1>2, ComingStep, PTL DEF Spec
=============================================================================
