------------------------- MODULE SubscriptionsProofs -------------------------
(***************************************************************************)
(* Theorems of Subscriptions for every set of symbols and every limit of   *)
(* subscriptions per stream.                                               *)
(***************************************************************************)
EXTENDS Subscriptions, SequenceFacts, FiniteSetTheorems, SequenceTheorems, TLAPS

----------------------------------------------------------------------------
(* Slices *)

\* The streams have room for all symbols, and none of them is idle.
LEMMA SliceCount ==
  ASSUME NEW n \in Nat
  PROVE  /\ Slices(n) \in Nat
         /\ n <= Max * Slices(n) /\ Max * Slices(n) < n + Max
BY MaxAssumption DEF Slices

\* Where slice i begins, and ends.
LEMMA SliceBounds ==
  ASSUME NEW i \in Nat \ {0}
  PROVE  (i - 1) * Max \in Nat /\ i * Max = (i - 1) * Max + Max
BY MaxAssumption

LEMMA SliceSequence ==
  ASSUME NEW S, NEW all \in Seq(S), NEW i \in Nat \ {0}, NEW from \in Nat
  PROVE  Slice(all, i, from) \in Seq(S)
<1> DEFINE p == (i - 1) * Max
           m == Greater(p, from) + 1
           n == Smaller(p + Max, Len(all))
<1>1. p \in Nat /\ i * Max = p + Max /\ Max \in Nat /\ Len(all) \in Nat
  BY SliceBounds, MaxAssumption
<1> HIDE DEF p
<1>2. m \in Nat \ {0} /\ n \in Nat /\ n <= Len(all)
  BY <1>1 DEF Greater, Smaller
<1> HIDE DEF m, n
<1>3. \A j \in m .. n : all[j] \in S
  BY <1>1, <1>2
<1>4. SubSeq(all, m, n) \in Seq(S)
  BY <1>2, <1>3, SubSeqProperties
<1> QED
  BY <1>1, <1>4 DEF Slice, p, m, n

\* What a stream has of the symbols, and what it adds of those that are new,
\* is its slice of all of them.
LEMMA SliceExtends ==
  ASSUME NEW S, NEW q \in Seq(S), NEW new \in Seq(S), NEW i \in Nat \ {0}
  PROVE  Slice(q, i, 0) \o Slice(q \o new, i, Len(q)) = Slice(q \o new, i, 0)
<1> DEFINE p   == (i - 1) * Max
           all == q \o new
           k   == Len(q)
           n   == Smaller(p + Max, Len(all))
<1>1. /\ p \in Nat /\ i * Max = p + Max /\ Max \in Nat \ {0}
      /\ all \in Seq(S) /\ Len(all) = k + Len(new) /\ k \in Nat /\ Len(new) \in Nat
      /\ (i - 1) * Max = p /\ q \o new = all /\ Len(q) = k
  BY SliceBounds, MaxAssumption, ConcatProperties
<1> HIDE DEF p, all, k
<1>2. /\ Slice(q, i, 0) = SubSeq(q, p + 1, Smaller(p + Max, k))
      /\ Slice(all, i, k) = SubSeq(all, Greater(p, k) + 1, n)
      /\ Slice(all, i, 0) = SubSeq(all, p + 1, n)
  <2>1. Greater((i - 1) * Max, 0) = p /\ Greater((i - 1) * Max, k) = Greater(p, k)
    BY <1>1 DEF Greater
  <2>2. Smaller(i * Max, k) = Smaller(p + Max, k) /\ Smaller(i * Max, Len(all)) = n
    BY <1>1
  <2>3. Slice(q, i, 0) = SubSeq(q, Greater((i - 1) * Max, 0) + 1, Smaller(i * Max, k))
    BY <1>1 DEF Slice
  <2>4. /\ Slice(all, i, k) = SubSeq(all, Greater((i - 1) * Max, k) + 1, Smaller(i * Max, Len(all)))
        /\ Slice(all, i, 0) = SubSeq(all, Greater((i - 1) * Max, 0) + 1, Smaller(i * Max, Len(all)))
    BY DEF Slice
  <2> QED
    BY <2>1, <2>2, <2>3, <2>4
<1>3. n \in Nat /\ n <= Len(all)
  BY <1>1 DEF Smaller
<1>4. Slice(all, i, 0) \in Seq(S)
  BY <1>1, SliceSequence
<1> DEFINE Goal == Slice(q, i, 0) \o Slice(all, i, k) = Slice(all, i, 0)
<1>5. ASSUME p + Max <= k PROVE Goal
  <2>1. Smaller(p + Max, k) = p + Max /\ n = p + Max /\ Greater(p, k) = k
    <3>1. p < k /\ p + Max <= Len(all)
      BY <1>1, <1>5
    <3> QED
      BY <1>1, <1>5, <3>1 DEF Smaller, Greater
  <2>2. SubSeq(all, p + 1, p + Max) = SubSeq(q, p + 1, p + Max)
    BY <1>1, <1>5, SubSeqOfConcat1 DEF all, k
  <2>3. SubSeq(all, k + 1, n) = <<>>
    BY <1>1, <1>5, <2>1, SubSeqEmpty
  <2>4. Slice(q, i, 0) = Slice(all, i, 0) /\ Slice(all, i, k) = <<>>
    BY <1>2, <2>1, <2>2, <2>3
  <2> QED
    BY <1>4, <2>4, ConcatEmptySeq
<1>6. ASSUME p < k, k < p + Max PROVE Goal
  <2>1. Smaller(p + Max, k) = k /\ Greater(p, k) = k /\ n \in k .. Len(all)
    BY <1>1, <1>6 DEF Smaller, Greater
  <2>2. SubSeq(all, p + 1, k) = SubSeq(q, p + 1, k)
    BY <1>1, <1>6, SubSeqOfConcat1 DEF all, k
  <2>3. SubSeq(all, p + 1, k) \o SubSeq(all, k + 1, n) = SubSeq(all, p + 1, n)
    <3>1. p + 1 \in 1 .. Len(all) + 1 /\ k \in (p + 1) - 1 .. Len(all)
      BY <1>1, <1>6
    <3> HIDE DEF n
    <3> QED
      BY <1>1, <2>1, <3>1, ConcatAdjacentSubSeq
  <2> QED
    BY <1>1, <1>2, <2>1, <2>2, <2>3
<1>7. ASSUME k <= p PROVE Goal
  <2>1. Smaller(p + Max, k) = k /\ Greater(p, k) = p
    BY <1>1, <1>7 DEF Smaller, Greater
  <2>2. SubSeq(q, p + 1, k) = <<>>
    BY <1>1, <1>7, SubSeqEmpty
  <2>3. Slice(q, i, 0) = <<>> /\ Slice(all, i, k) = Slice(all, i, 0)
    BY <1>2, <2>1, <2>2
  <2> QED
    BY <1>4, <2>3, ConcatEmptySeq
<1>8. Goal
  BY <1>1, <1>5, <1>6, <1>7
<1> QED
  BY <1>8 DEF all, k

----------------------------------------------------------------------------
(* The list of symbols *)

ListInv ==
  /\ listed \subseteq Symbols /\ known \subseteq Symbols
  /\ symbols \in Seq(Symbols)
  /\ Elements(symbols) = known
  /\ Len(symbols) = Cardinality(known)

\* An arrangement of a set is a sequence of its elements, each of them once.
LEMMA ArrangementParts ==
  ASSUME NEW S \in SUBSET Symbols, NEW q \in Arrangements(S)
  PROVE  /\ q \in Seq(Symbols) /\ Elements(q) = S /\ Len(q) = Cardinality(S)
         /\ IsFiniteSet(S) /\ Cardinality(S) \in Nat
<1>1. IsFiniteSet(S) /\ Cardinality(S) \in Nat
  BY SymbolsAssumption, FS_Subset, FS_CardinalityType
<1>2. q \in [1 .. Cardinality(S) -> S] /\ Elements(q) = S
  BY DEF Arrangements, Elements
<1>3. q \in [1 .. Cardinality(S) -> Symbols]
  BY <1>2
<1> QED
  BY <1>1, <1>2, <1>3

LEMMA JoinedSymbols ==
  ASSUME NEW p \in Seq(Symbols), NEW q \in Seq(Symbols)
  PROVE  Elements(p \o q) = Elements(p) \cup Elements(q)
<1>1. /\ p \o q \in Seq(Symbols) /\ Len(p \o q) = Len(p) + Len(q)
      /\ \A i \in 1 .. Len(p) + Len(q) :
           (p \o q)[i] = IF i <= Len(p) THEN p[i] ELSE q[i - Len(p)]
  BY ConcatProperties
<1>2. Len(p) \in Nat /\ Len(q) \in Nat
  OBVIOUS
<1>3. ASSUME NEW s \in Elements(p \o q) PROVE s \in Elements(p) \cup Elements(q)
  <2>1. PICK i \in 1 .. Len(p) + Len(q) : s = (p \o q)[i]
    BY <1>1 DEF Elements
  <2>2. CASE i <= Len(p)
    BY <1>1, <1>2, <2>1, <2>2 DEF Elements
  <2>3. CASE i > Len(p)
    <3>1. i - Len(p) \in 1 .. Len(q) /\ s = q[i - Len(p)]
      BY <1>1, <1>2, <2>1, <2>3
    <3> QED
      BY <3>1 DEF Elements
  <2> QED
    BY <1>2, <2>2, <2>3
<1>4. ASSUME NEW s \in Elements(p) PROVE s \in Elements(p \o q)
  <2>1. PICK i \in 1 .. Len(p) : s = p[i]
    BY <1>4 DEF Elements
  <2>2. i \in 1 .. Len(p) + Len(q) /\ (p \o q)[i] = s
    BY <1>1, <1>2, <2>1
  <2> QED
    BY <1>1, <2>2 DEF Elements
<1>5. ASSUME NEW s \in Elements(q) PROVE s \in Elements(p \o q)
  <2>1. PICK i \in 1 .. Len(q) : s = q[i]
    BY <1>5 DEF Elements
  <2>2. Len(p) + i \in 1 .. Len(p) + Len(q) /\ (p \o q)[Len(p) + i] = s
    BY <1>1, <1>2, <2>1
  <2> QED
    BY <1>1, <2>2 DEF Elements
<1> QED
  BY <1>3, <1>4, <1>5

\* New symbols join the list.
LEMMA ListGrows ==
  ASSUME ListInv, NEW S \in SUBSET Symbols, S \cap known = {}, NEW new \in Arrangements(S),
         symbols' = symbols \o new, known' = known \cup S, listed' = listed
  PROVE  ListInv'
<1>1. /\ new \in Seq(Symbols) /\ Elements(new) = S /\ Len(new) = Cardinality(S)
      /\ IsFiniteSet(S) /\ IsFiniteSet(known)
  BY ArrangementParts, SymbolsAssumption, FS_Subset DEF ListInv
<1>2. Cardinality(known \cup S) = Cardinality(known) + Cardinality(S)
  <2>1. Cardinality(known \cap S) = 0 /\ Cardinality(known) \in Nat /\ Cardinality(S) \in Nat
    <3>1. known \cap S = {}
      OBVIOUS
    <3> QED
      BY <1>1, <3>1, FS_EmptySet, FS_CardinalityType
  <2>2. Cardinality(known \cup S) = Cardinality(known) + Cardinality(S) - Cardinality(known \cap S)
    BY <1>1, FS_Union
  <2> QED
    BY <2>1, <2>2
<1>3. symbols' \in Seq(Symbols) /\ Len(symbols') = Len(symbols) + Len(new)
  BY <1>1, ConcatProperties DEF ListInv
<1>4. Elements(symbols)' = Elements(symbols) \cup Elements(new)
  <2>1. Elements(symbols \o new) = Elements(symbols) \cup Elements(new)
    BY <1>1, JoinedSymbols DEF ListInv
  <2> QED
    BY <2>1 DEF Elements
<1> QED
  BY <1>1, <1>2, <1>3, <1>4 DEF ListInv

----------------------------------------------------------------------------
(* The streams *)

StreamInv ==
  /\ ready \in Seq(BOOLEAN) /\ queue \in Seq(Seq(Symbols)) /\ sub \in Seq(Seq(Symbols))
  /\ Len(queue) = Len(ready) /\ Len(sub) = Len(ready)
  /\ Len(symbols) <= Max * Len(ready) /\ Max * Len(ready) < Len(symbols) + Max
  /\ SubscribedOnce

\* Queues are joined in any grouping.
LEMMA Regrouped ==
  ASSUME NEW s \in Seq(Symbols), NEW t \in Seq(Symbols), NEW u \in Seq(Symbols)
  PROVE  s \o (t \o u) = (s \o t) \o u
OBVIOUS

\* An update of the symbols leaves every stream with its slice of all of them.
LEMMA StreamGrows ==
  ASSUME ListInv, StreamInv, NEW new \in Seq(Symbols), SymbolsUpdate(new)
  PROVE  StreamInv' /\ symbols' = symbols \o new
<1> DEFINE all   == symbols \o new
           count == Greater(Len(ready), Slices(Len(all)))
           old   == 1 .. Len(ready)
<1>1. /\ symbols' = all
      /\ ready' = [i \in 1 .. count |-> i \in old /\ ready[i]]
      /\ queue' = [i \in 1 .. count |->
                     IF i \in old
                     THEN queue[i] \o (IF ready[i] THEN Slice(all, i, Len(symbols)) ELSE <<>>)
                     ELSE <<>>]
      /\ sub' = [i \in 1 .. count |-> IF i \in old THEN sub[i] ELSE <<>>]
  BY DEF SymbolsUpdate, Streams, Added
<1>2. /\ symbols \in Seq(Symbols) /\ ready \in Seq(BOOLEAN)
      /\ queue \in Seq(Seq(Symbols)) /\ sub \in Seq(Seq(Symbols))
      /\ Len(queue) = Len(ready) /\ Len(sub) = Len(ready)
      /\ Len(symbols) <= Max * Len(ready) /\ Max * Len(ready) < Len(symbols) + Max
  BY DEF ListInv, StreamInv
<1>3. /\ all \in Seq(Symbols) /\ Len(all) = Len(symbols) + Len(new)
      /\ Len(all) \in Nat /\ Len(symbols) \in Nat /\ Len(new) \in Nat /\ Len(ready) \in Nat
  BY <1>2, ConcatProperties
<1>4. /\ Slices(Len(all)) \in Nat
      /\ Len(all) <= Max * Slices(Len(all)) /\ Max * Slices(Len(all)) < Len(all) + Max
  BY <1>3, SliceCount
<1>5. count \in Nat /\ Len(ready) <= count /\ (count = Len(ready) \/ count = Slices(Len(all)))
      /\ Slices(Len(all)) <= count
  BY <1>3, <1>4 DEF Greater
<1>6. /\ Len(all) <= Max * count /\ Max * count < Len(all) + Max
  <2>1. Max * Slices(Len(all)) <= Max * count
    BY <1>4, <1>5, MaxAssumption
  <2>2. Max * count \in Nat /\ Max * Slices(Len(all)) \in Nat /\ Max * Len(ready) \in Nat /\ Max \in Nat
    BY <1>3, <1>4, <1>5, MaxAssumption
  <2> QED
    BY <1>2, <1>3, <1>4, <1>5, <2>1, <2>2
<1> HIDE DEF all, count
<1>7. ASSUME NEW i \in old
      PROVE  /\ i \in Nat \ {0} /\ i \in 1 .. Len(ready) /\ ready[i] \in BOOLEAN
             /\ queue[i] \in Seq(Symbols) /\ sub[i] \in Seq(Symbols)
             /\ Slice(all, i, Len(symbols)) \in Seq(Symbols)
  <2>1. i \in Nat \ {0} /\ i \in 1 .. Len(ready)
    BY <1>3
  <2>2. Slice(all, i, Len(symbols)) \in Seq(Symbols)
    BY <1>3, <2>1, SliceSequence
  <2> QED
    BY <1>2, <2>1, <2>2, ElementOfSeq
<1>8. <<>> \in Seq(Symbols)
  BY EmptySeq
<1>9. \A i \in old : queue[i] \o <<>> \in Seq(Symbols) /\ queue[i] \o Slice(all, i, Len(symbols)) \in Seq(Symbols)
  BY <1>7, <1>8, ConcatProperties
<1>10. /\ ready' \in [1 .. count -> BOOLEAN] /\ queue' \in [1 .. count -> Seq(Symbols)]
       /\ sub' \in [1 .. count -> Seq(Symbols)]
  <2>1. \A i \in 1 .. count : (i \in old /\ ready[i]) \in BOOLEAN
    BY <1>7
  <2>2. \A i \in 1 .. count :
          (IF i \in old THEN queue[i] \o (IF ready[i] THEN Slice(all, i, Len(symbols)) ELSE <<>>)
           ELSE <<>>) \in Seq(Symbols)
    BY <1>8, <1>9
  <2>3. \A i \in 1 .. count : (IF i \in old THEN sub[i] ELSE <<>>) \in Seq(Symbols)
    BY <1>7, <1>8
  <2> HIDE DEF old
  <2> QED
    BY <1>1, <2>1, <2>2, <2>3
<1>11. /\ ready' \in Seq(BOOLEAN) /\ Len(ready') = count /\ DOMAIN ready' = 1 .. count
       /\ queue' \in Seq(Seq(Symbols)) /\ Len(queue') = count
       /\ sub' \in Seq(Seq(Symbols)) /\ Len(sub') = count
  BY <1>5, <1>10
<1>12. ASSUME NEW i \in 1 .. count
       PROVE  IF ready'[i] THEN sub'[i] \o queue'[i] = Slice(all, i, 0)
                           ELSE sub'[i] = <<>> /\ queue'[i] = <<>>
  <2>1. CASE i \notin old
    BY <1>1, <2>1
  <2> DEFINE more == Slice(all, i, Len(symbols))
  <2>2. ASSUME i \in old
        PROVE  /\ i \in DOMAIN ready /\ sub[i] \in Seq(Symbols) /\ queue[i] \in Seq(Symbols)
               /\ more \in Seq(Symbols) /\ i \in Nat \ {0}
    BY <1>2, <1>7, <2>2
  <2>3. CASE i \in old /\ ~ready[i]
    <3>1. sub[i] = <<>> /\ queue[i] = <<>>
      BY <2>2, <2>3 DEF StreamInv, SubscribedOnce
    <3>2. queue[i] \o <<>> = <<>>
      BY <1>8, <3>1, ConcatEmptySeq
    <3>3. ~ready'[i] /\ sub'[i] = sub[i] /\ queue'[i] = queue[i] \o <<>>
      BY <1>1, <2>3
    <3> QED
      BY <3>1, <3>2, <3>3
  <2>4. CASE i \in old /\ ready[i]
    <3>1. sub[i] \o queue[i] = Slice(symbols, i, 0)
      BY <2>2, <2>4 DEF StreamInv, SubscribedOnce
    <3>2. ready'[i] /\ sub'[i] = sub[i] /\ queue'[i] = queue[i] \o more
      BY <1>1, <2>4
    <3>3. sub[i] \o (queue[i] \o more) = (sub[i] \o queue[i]) \o more
      <4>1. sub[i] \in Seq(Symbols) /\ queue[i] \in Seq(Symbols) /\ more \in Seq(Symbols)
        BY <2>2, <2>4
      <4>2. \A s, t, u \in Seq(Symbols) : s \o (t \o u) = (s \o t) \o u
        BY Regrouped
      <4> HIDE DEF more
      <4> QED
        BY <4>1, <4>2, Zenon
    <3>4. Slice(symbols, i, 0) \o more = Slice(all, i, 0)
      BY <1>2, <2>2, <2>4, SliceExtends DEF all
    <3> HIDE DEF more
    <3> QED
      BY <2>4, <3>1, <3>2, <3>3, <3>4
  <2> QED
    BY <2>1, <2>3, <2>4
<1>13. SubscribedOnce'
  BY <1>1, <1>11, <1>12 DEF SubscribedOnce
<1> QED
  BY <1>1, <1>6, <1>11, <1>13 DEF StreamInv, all

\* Symbols that are new join the list, and every stream's slice.
LEMMA SymbolsJoin ==
  ASSUME ListInv, StreamInv, NEW S \in SUBSET Symbols, S \cap known = {},
         NEW new \in Arrangements(S), SymbolsUpdate(new),
         known' = known \cup S, listed' = listed
  PROVE  ListInv' /\ StreamInv'
<1>1. new \in Seq(Symbols)
  BY ArrangementParts
<1>2. StreamInv' /\ symbols' = symbols \o new
  BY <1>1, StreamGrows
<1>3. ListInv'
  BY <1>2, ListGrows
<1> QED
  BY <1>2, <1>3

\* A stream changes, the others stay as they are.
LEMMA StreamChanges ==
  ASSUME StreamInv, NEW i \in DOMAIN ready, NEW r \in BOOLEAN,
         NEW q \in Seq(Symbols), NEW s \in Seq(Symbols),
         ready' = [ready EXCEPT ![i] = r], queue' = [queue EXCEPT ![i] = q],
         sub' = [sub EXCEPT ![i] = s], symbols' = symbols,
         IF r THEN s \o q = Slice(symbols, i, 0) ELSE s = <<>> /\ q = <<>>
  PROVE  StreamInv'
<1>1. /\ ready \in Seq(BOOLEAN) /\ queue \in Seq(Seq(Symbols)) /\ sub \in Seq(Seq(Symbols))
      /\ Len(queue) = Len(ready) /\ Len(sub) = Len(ready)
      /\ DOMAIN queue = DOMAIN ready /\ DOMAIN sub = DOMAIN ready
  BY DEF StreamInv
<1>2. /\ ready' \in Seq(BOOLEAN) /\ Len(ready') = Len(ready) /\ DOMAIN ready' = DOMAIN ready
      /\ \A j \in DOMAIN ready : ready'[j] = IF j = i THEN r ELSE ready[j]
  BY <1>1, ReplacedElement
<1>3. /\ queue' \in Seq(Seq(Symbols)) /\ Len(queue') = Len(ready)
      /\ \A j \in DOMAIN ready : queue'[j] = IF j = i THEN q ELSE queue[j]
  BY <1>1, ReplacedElement
<1>4. /\ sub' \in Seq(Seq(Symbols)) /\ Len(sub') = Len(ready)
      /\ \A j \in DOMAIN ready : sub'[j] = IF j = i THEN s ELSE sub[j]
  BY <1>1, ReplacedElement
<1>5. ASSUME NEW j \in DOMAIN ready
      PROVE  IF ready'[j] THEN sub'[j] \o queue'[j] = Slice(symbols, j, 0)
                          ELSE sub'[j] = <<>> /\ queue'[j] = <<>>
  <2>1. CASE j = i
    BY <1>2, <1>3, <1>4, <2>1
  <2>2. CASE j # i
    BY <1>2, <1>3, <1>4, <2>2 DEF StreamInv, SubscribedOnce
  <2> QED
    BY <2>1, <2>2
<1> QED
  BY <1>2, <1>3, <1>4, <1>5 DEF StreamInv, SubscribedOnce

\* What a stream has and where it stands.
LEMMA StreamParts ==
  ASSUME ListInv, StreamInv, NEW i \in DOMAIN ready
  PROVE  /\ queue[i] \in Seq(Symbols) /\ sub[i] \in Seq(Symbols) /\ ready[i] \in BOOLEAN
         /\ Slice(symbols, i, 0) \in Seq(Symbols)
         /\ IF ready[i] THEN sub[i] \o queue[i] = Slice(symbols, i, 0)
                        ELSE sub[i] = <<>> /\ queue[i] = <<>>
<1>1. /\ ready \in Seq(BOOLEAN) /\ queue \in Seq(Seq(Symbols)) /\ sub \in Seq(Seq(Symbols))
      /\ DOMAIN queue = DOMAIN ready /\ DOMAIN sub = DOMAIN ready
      /\ symbols \in Seq(Symbols)
  BY DEF StreamInv, ListInv
<1>2. i \in Nat \ {0}
  BY <1>1
<1>3. Slice(symbols, i, 0) \in Seq(Symbols)
  BY <1>1, <1>2, SliceSequence
<1> QED
  BY <1>1, <1>3 DEF StreamInv, SubscribedOnce

LEMMA ReadyKeeps ==
  ASSUME ListInv, StreamInv, NEW i \in DOMAIN ready, StreamReady(i)
  PROVE  StreamInv'
<1> DEFINE slice == Slice(symbols, i, 0)
<1>1. sub[i] = <<>> /\ queue[i] = <<>> /\ slice \in Seq(Symbols)
  BY StreamParts DEF StreamReady
<1>2. <<>> \o slice = slice
  <2> HIDE DEF slice
  <2> QED
    BY <1>1, ConcatEmptySeq
<1>3. /\ ready' = [ready EXCEPT ![i] = TRUE] /\ queue' = [queue EXCEPT ![i] = slice]
      /\ symbols' = symbols
  BY <1>1, <1>2 DEF StreamReady, sharedVars
<1>4. sub' = [sub EXCEPT ![i] = <<>>]
  BY <1>1 DEF StreamReady, StreamInv
<1>5. <<>> \in Seq(Symbols)
  BY EmptySequence
<1> HIDE DEF slice
<1> QED
  BY <1>1, <1>2, <1>3, <1>4, <1>5, StreamChanges DEF slice

LEMMA LossKeeps ==
  ASSUME ListInv, StreamInv, NEW i \in DOMAIN ready, StreamDisconnected(i)
  PROVE  StreamInv'
<1>1. <<>> \in Seq(Symbols)
  BY EmptySequence
<1> QED
  BY <1>1, StreamChanges DEF StreamDisconnected, sharedVars

LEMMA TimerKeeps ==
  ASSUME ListInv, StreamInv, NEW i \in DOMAIN ready, StreamTimer(i)
  PROVE  StreamInv'
<1> DEFINE q == queue[i]
           s == sub[i]
<1>1. q \in Seq(Symbols) /\ s \in Seq(Symbols) /\ q # <<>> /\ s \o q = Slice(symbols, i, 0)
  BY StreamParts DEF StreamTimer
<1>2. /\ queue' = [queue EXCEPT ![i] = Tail(q)] /\ sub' = [sub EXCEPT ![i] = Append(s, Head(q))]
      /\ symbols' = symbols /\ ready[i]
  BY DEF StreamTimer, sharedVars
<1>3. ready' = [ready EXCEPT ![i] = TRUE]
  BY <1>2 DEF StreamTimer, StreamInv
<1> HIDE DEF q, s
<1>4. /\ Tail(q) \in Seq(Symbols) /\ Append(s, Head(q)) \in Seq(Symbols)
      /\ Append(s, Head(q)) \o Tail(q) = s \o q
  BY <1>1
<1> QED
  BY <1>1, <1>2, <1>3, <1>4, StreamChanges

\* Nothing is left of the streams' invariant to look at when no stream changes.
LEMMA StreamsRest ==
  ASSUME StreamInv, UNCHANGED <<symbols, streamVars>>
  PROVE  StreamInv'
BY DEF StreamInv, SubscribedOnce, streamVars

----------------------------------------------------------------------------
(* Where a symbol belongs *)

\* What slice i holds: the list from where it begins to where it ends.
LEMMA SliceElements ==
  ASSUME NEW S, NEW all \in Seq(S), NEW i \in Nat \ {0}
  PROVE  /\ \A s \in Elements(Slice(all, i, 0)) :
              \E k \in DOMAIN all : (i - 1) * Max < k /\ k <= i * Max /\ all[k] = s
         /\ \A k \in DOMAIN all :
              (i - 1) * Max < k /\ k <= i * Max => all[k] \in Elements(Slice(all, i, 0))
         /\ Len(Slice(all, i, 0)) <= Max
<1> DEFINE p == (i - 1) * Max
           n == Smaller(p + Max, Len(all))
           q == SubSeq(all, p + 1, n)
<1>1. p \in Nat /\ i * Max = p + Max /\ Max \in Nat /\ Len(all) \in Nat
  BY SliceBounds, MaxAssumption
<1>2. (i - 1) * Max = p
  OBVIOUS
<1> HIDE DEF p
<1>3. Slice(all, i, 0) = q
  <2>1. Greater((i - 1) * Max, 0) = p /\ Smaller(i * Max, Len(all)) = n
    BY <1>1, <1>2 DEF Greater
  <2>2. Slice(all, i, 0) = SubSeq(all, Greater((i - 1) * Max, 0) + 1, Smaller(i * Max, Len(all)))
    BY DEF Slice
  <2> QED
    BY <2>1, <2>2
<1>4. n \in Nat /\ n <= Len(all) /\ n <= p + Max /\ (n = Len(all) \/ n = p + Max)
  BY <1>1 DEF Smaller
<1> HIDE DEF n
<1>5. /\ q \in Seq(S) /\ Len(q) = IF p + 1 <= n THEN n - p ELSE 0
      /\ DOMAIN q = 1 .. Len(q)
      /\ \A j \in DOMAIN q : p + j \in DOMAIN all /\ p + j <= n /\ q[j] = all[p + j]
  <2>1. \A j \in p + 1 .. n : all[j] \in S
    BY <1>1, <1>4
  <2>2. q \in Seq(S) /\ Len(q) = IF p + 1 <= n THEN n - p ELSE 0
    BY <1>1, <1>4, <2>1, SubSeqProperties
  <2>3. \A j \in 1 .. Len(q) : q[j] = all[p + j]
    BY <1>1, <1>4, <2>2
  <2> HIDE DEF q
  <2>4. DOMAIN q = 1 .. Len(q) /\ DOMAIN all = 1 .. Len(all) /\ Len(q) \in Nat
    BY <2>2
  <2>5. \A j \in 1 .. Len(q) : p + j \in 1 .. Len(all) /\ p + j <= n
    BY <1>1, <1>4, <2>2
  <2> QED
    BY <2>2, <2>3, <2>4, <2>5
<1> HIDE DEF q
<1>6. ASSUME NEW s \in Elements(q)
      PROVE  \E k \in DOMAIN all : p < k /\ k <= p + Max /\ all[k] = s
  <2>1. PICK j \in DOMAIN q : s = q[j]
    BY DEF Elements
  <2>2. p + j \in DOMAIN all /\ p < p + j /\ p + j <= p + Max /\ all[p + j] = s
    BY <1>1, <1>4, <1>5, <2>1
  <2> QED
    BY <2>2
<1>7. ASSUME NEW k \in DOMAIN all, p < k, k <= p + Max
      PROVE  all[k] \in Elements(q)
  <2>1. k - p \in DOMAIN q /\ p + (k - p) = k
    BY <1>1, <1>4, <1>5, <1>7
  <2>2. q[k - p] = all[k]
    BY <1>5, <2>1
  <2> QED
    BY <2>1, <2>2 DEF Elements
<1>8. Len(q) <= Max
  BY <1>1, <1>4, <1>5
<1> QED
  BY <1>1, <1>2, <1>3, <1>6, <1>7, <1>8

\* Every position of the list is in a slice, and in one only.
LEMMA SliceOf ==
  ASSUME NEW k \in Nat \ {0}
  PROVE  \E i \in Nat \ {0} :
           /\ (i - 1) * Max < k /\ k <= i * Max
           /\ \A j \in Nat \ {0} : (j - 1) * Max < k /\ k <= j * Max => j = i
<1> DEFINE d == (k - 1) \div Max
<1>1. d \in Nat /\ d * Max <= k - 1 /\ k - 1 < d * Max + Max /\ d * Max \in Nat
  BY MaxAssumption
<1> HIDE DEF d
<1>2. d + 1 \in Nat \ {0} /\ (d + 1) - 1 = d /\ (d + 1) * Max = d * Max + Max /\ Max \in Nat \ {0}
  BY <1>1, MaxAssumption
<1>3. (d + 1 - 1) * Max < k /\ k <= (d + 1) * Max
  BY <1>1, <1>2
<1>4. ASSUME NEW j \in Nat \ {0}, (j - 1) * Max < k, k <= j * Max
      PROVE  j = d + 1
  <2>1. j * Max \in Nat /\ (j - 1) * Max \in Nat
    BY MaxAssumption
  <2>2. CASE j <= d
    <3>1. j * Max <= d * Max
      BY <1>1, <2>2, MaxAssumption
    <3> QED
      BY <1>1, <1>4, <2>1, <3>1
  <2>3. CASE d + 1 <= j - 1
    <3>1. (d + 1) * Max <= (j - 1) * Max
      BY <1>1, <2>3, MaxAssumption
    <3> QED
      BY <1>1, <1>2, <1>4, <2>1, <3>1
  <2> QED
    BY <1>1, <2>2, <2>3
<1> QED
  BY <1>2, <1>3, <1>4

\* A list as long as its elements are many holds each of them once.
LEMMA ListedOnce ==
  ASSUME ListInv, NEW j \in DOMAIN symbols, NEW k \in DOMAIN symbols, symbols[j] = symbols[k]
  PROVE  j = k
<1> DEFINE n == Len(symbols)
<1>1. /\ n \in Nat /\ n = Cardinality(known) /\ DOMAIN symbols = 1 .. n
      /\ IsFiniteSet(known) /\ Elements(symbols) = known
      /\ symbols \in [1 .. n -> Symbols]
  BY SymbolsAssumption, FS_Subset DEF ListInv
<1>2. IsFiniteSet(1 .. n) /\ Cardinality(1 .. n) = n
  BY <1>1, FS_Interval
<1>3. symbols \in Surjection(1 .. n, known)
  <2>1. symbols \in [1 .. n -> known]
    BY <1>1 DEF Elements
  <2>2. \A s \in known : \E h \in 1 .. n : symbols[h] = s
    BY <1>1 DEF Elements
  <2> QED
    BY <2>1, <2>2 DEF Surjection
<1>4. symbols \in Injection(1 .. n, known)
  BY <1>1, <1>2, <1>3, FS_SurjSameCardinalityImpliesInj
<1> HIDE DEF n
<1>5. j \in 1 .. n /\ k \in 1 .. n
  BY <1>1
<1> QED
  BY <1>4, <1>5, Zenon DEF Injection, IsInjective

\* A stream carries its slice, or nothing while it is not ready.
LEMMA StreamCarries ==
  ASSUME ListInv, StreamInv, NEW i \in DOMAIN ready
  PROVE  sub[i] \o queue[i] = IF ready[i] THEN Slice(symbols, i, 0) ELSE <<>>
<1>1. CASE ready[i]
  BY <1>1, StreamParts
<1>2. CASE ~ready[i]
  <2>1. sub[i] = <<>> /\ queue[i] = <<>>
    BY <1>2, StreamParts
  <2>2. <<>> \o <<>> = <<>>
    BY EmptySequence, ConcatEmptySeq
  <2> QED
    BY <1>2, <2>1, <2>2
<1> QED
  BY <1>1, <1>2

LEMMA OneServes ==
  ASSUME ListInv, StreamInv
  PROVE  ServedByOne
<1>1. /\ symbols \in Seq(Symbols) /\ Len(symbols) \in Nat /\ Len(ready) \in Nat
      /\ DOMAIN ready = 1 .. Len(ready) /\ DOMAIN symbols = 1 .. Len(symbols)
      /\ Len(symbols) <= Max * Len(ready) /\ Elements(symbols) = known
  BY DEF ListInv, StreamInv
<1>2. ASSUME NEW s \in known
      PROVE  \E i \in DOMAIN ready : /\ s \in Elements(Slice(symbols, i, 0))
                                     /\ Serving(s) = IF ready[i] THEN {i} ELSE {}
  <2>1. PICK k \in DOMAIN symbols : symbols[k] = s
    BY <1>1, <1>2 DEF Elements
  <2>2. PICK i \in Nat \ {0} :
          /\ (i - 1) * Max < k /\ k <= i * Max
          /\ \A j \in Nat \ {0} : (j - 1) * Max < k /\ k <= j * Max => j = i
    <3>1. k \in Nat \ {0}
      BY <1>1, <2>1
    <3> QED
      BY <3>1, SliceOf
  <2>3. i \in DOMAIN ready
    <3>1. CASE Len(ready) <= i - 1
      <4>1. Len(ready) * Max <= (i - 1) * Max /\ Len(ready) * Max = Max * Len(ready)
        BY <1>1, <3>1, MaxAssumption
      <4>2. (i - 1) * Max \in Nat /\ Max * Len(ready) \in Nat
        BY <1>1, MaxAssumption
      <4> QED
        BY <1>1, <2>1, <2>2, <4>1, <4>2
    <3> QED
      BY <1>1, <3>1
  <2>4. s \in Elements(Slice(symbols, i, 0))
    BY <1>1, <2>1, <2>2, SliceElements
  <2>5. ASSUME NEW j \in DOMAIN ready, s \in Elements(Slice(symbols, j, 0))
        PROVE  j = i
    <3>1. PICK h \in DOMAIN symbols : (j - 1) * Max < h /\ h <= j * Max /\ symbols[h] = s
      <4>1. j \in Nat \ {0}
        BY <1>1
      <4> QED
        BY <1>1, <2>5, <4>1, SliceElements, Zenon
    <3>2. h = k
      BY <2>1, <3>1, ListedOnce
    <3> QED
      BY <1>1, <2>2, <3>1, <3>2
  <2>6. \A j \in DOMAIN ready : s \in Elements(sub[j] \o queue[j]) <=> ready[j] /\ j = i
    <3>1. Elements(<<>>) = {}
      BY DEF Elements
    <3> TAKE j \in DOMAIN ready
    <3>2. sub[j] \o queue[j] = IF ready[j] THEN Slice(symbols, j, 0) ELSE <<>>
      BY StreamCarries
    <3> QED
      BY <2>4, <2>5, <3>1, <3>2
  <2>7. Serving(s) = IF ready[i] THEN {i} ELSE {}
    BY <2>3, <2>6 DEF Serving
  <2> QED
    BY <2>3, <2>4, <2>7
<1>3. ASSUME NEW i \in DOMAIN ready
      PROVE  Len(sub[i] \o queue[i]) <= Max
  <2>1. Len(Slice(symbols, i, 0)) <= Max
    BY <1>1, SliceElements
  <2>2. Len(<<>>) <= Max
    BY MaxAssumption
  <2> QED
    BY <2>1, <2>2, StreamCarries
<1> QED
  BY <1>2, <1>3 DEF ServedByOne

----------------------------------------------------------------------------
(* The list and the streams together: every step *)

ListStreams == ListInv /\ StreamInv

LEMMA SubscribeKeeps ==
  ASSUME ListStreams, NEW wanted \in SUBSET Symbols, Subscribe(wanted)
  PROVE  ListStreams'
<1> DEFINE S == wanted \ known
<1>1. PICK new \in Arrangements(S) : SymbolsUpdate(new)
  BY DEF Subscribe
<1>2. S \in SUBSET Symbols /\ S \cap known = {} /\ known' = known \cup S /\ listed' = listed
  BY DEF Subscribe, restVars
<1> HIDE DEF S
<1> QED
  BY <1>1, <1>2, SymbolsJoin DEF ListStreams

LEMMA AnswerKeeps ==
  ASSUME ListStreams, ExchangeInfoAck
  PROVE  ListStreams'
<1> DEFINE S == New(listed)
<1>1. /\ S \in SUBSET Symbols /\ S \cap known = {} /\ known' = known \cup S
      /\ listed' = listed
  BY DEF ListStreams, ListInv, New, ExchangeInfoAck
<1>2. CASE S = {}
  <2>1. UNCHANGED <<symbols, streamVars>> /\ known' = known
    BY <1>1, <1>2 DEF ExchangeInfoAck
  <2>2. ListInv'
    BY <1>1, <2>1 DEF ListStreams, ListInv, Elements
  <2> QED
    BY <2>1, <2>2, StreamsRest DEF ListStreams
<1>3. CASE S # {}
  <2>1. PICK new \in Arrangements(S) : SymbolsUpdate(new)
    BY <1>3 DEF ExchangeInfoAck
  <2> HIDE DEF S
  <2> QED
    BY <1>1, <2>1, SymbolsJoin DEF ListStreams
<1> QED
  BY <1>2, <1>3

\* Every other step leaves the list alone.
LEMMA ListRests ==
  ASSUME ListInv, UNCHANGED sharedVars, listed' \subseteq Symbols
  PROVE  ListInv'
  BY DEF sharedVars, ListInv, Elements

LEMMA ListStreamsInit == Init => ListStreams
<1> SUFFICES ASSUME Init PROVE ListStreams
  OBVIOUS
<1>1. ListInv
  <2>1. Elements(<<>>) = {} /\ Cardinality({}) = 0
    BY FS_EmptySet DEF Elements
  <2>2. <<>> \in Seq(Symbols) /\ Len(<<>>) = 0
    BY EmptySequence
  <2> QED
    BY <2>1, <2>2 DEF Init, ListInv
<1>2. StreamInv
  <2>1. /\ <<>> \in Seq(BOOLEAN) /\ <<>> \in Seq(Seq(Symbols)) /\ Len(<<>>) = 0
        /\ DOMAIN <<>> = {}
    BY EmptySequence
  <2> QED
    BY <2>1, MaxAssumption DEF Init, StreamInv, SubscribedOnce
<1> QED
  BY <1>1, <1>2 DEF ListStreams

LEMMA ListStreamsStep ==
  ASSUME ListStreams, [Next]_vars
  PROVE  ListStreams'
<1> USE DEF ListStreams
<1>1. ASSUME NEW wanted \in SUBSET Symbols, Subscribe(wanted)
      PROVE  ListStreams'
  BY <1>1, SubscribeKeeps
<1>2. CASE ExchangeInfoAck
  BY <1>2, AnswerKeeps
<1>3. CASE RestConnected
  <2>1. UNCHANGED <<listed, sharedVars, streamVars>>
    BY <1>3 DEF RestConnected
  <2> QED
    BY <2>1, ListRests, StreamsRest DEF ListInv, sharedVars
<1>4. CASE RestDisconnected \/ ExchangeInfoError
  <2>1. UNCHANGED <<listed, sharedVars, streamVars>>
    BY <1>4 DEF RestDisconnected, ExchangeInfoError
  <2> QED
    BY <2>1, ListRests, StreamsRest DEF ListInv, sharedVars
<1>5. ASSUME NEW i \in DOMAIN ready, StreamReady(i) \/ StreamDisconnected(i) \/ StreamTimer(i)
      PROVE  ListStreams'
  <2>1. UNCHANGED <<listed, sharedVars>>
    BY <1>5 DEF StreamReady, StreamDisconnected, StreamTimer, restVars
  <2>2. StreamInv'
    BY <1>5, ReadyKeeps, LossKeeps, TimerKeeps
  <2> QED
    BY <2>1, <2>2, ListRests DEF ListInv
<1>6. ASSUME NEW s \in Symbols, List(s)
      PROVE  ListStreams'
  <2>1. UNCHANGED <<sharedVars, streamVars>> /\ listed' \subseteq Symbols
    BY <1>6 DEF List, ListInv
  <2> QED
    BY <2>1, ListRests, StreamsRest DEF sharedVars
<1>7. CASE UNCHANGED vars
  <2>1. UNCHANGED <<listed, sharedVars, streamVars>>
    BY <1>7 DEF vars, restVars
  <2> QED
    BY <2>1, ListRests, StreamsRest DEF ListInv, sharedVars
<1> QED
  BY <1>1, <1>2, <1>3, <1>4, <1>5, <1>6, <1>7 DEF Next

----------------------------------------------------------------------------
(* Rest *)

\* READY stands for an answer received on this connection, an outstanding
\* request for a connection that is up; what is neither has got an error.
RestInv ==
  /\ rest \in BOOLEAN /\ asked \in BOOLEAN /\ answer \in {"NONE", "OK", "ERROR"}
  /\ download \in {"UNDEFINED", "EXCHANGE_INFO", "DONE"}
  /\ status \in {"UNDEFINED", "DISCONNECTED", "DOWNLOADING", "READY"}
  /\ drops \in Nat
  /\ download = "DONE" <=> status = "READY"
  /\ status = "READY" => rest /\ answer = "OK" /\ ~asked
  /\ asked => rest
  /\ rest /\ status # "READY" => asked \/ answer = "ERROR"

LEMMA RestInit == Init => RestInv
<1>1. 0 \in Nat
  OBVIOUS
<1> QED
  BY <1>1, Zenon DEF Init, RestInv

LEMMA RestStep == RestInv /\ [Next]_vars => RestInv'
<1> SUFFICES ASSUME RestInv, [Next]_vars PROVE RestInv'
  OBVIOUS
<1>1. ASSUME NEW wanted \in SUBSET Symbols, Subscribe(wanted) PROVE RestInv'
  BY <1>1 DEF Subscribe, restVars, RestInv
<1>2. CASE RestConnected
  <2>1. download # "DONE"
    BY <1>2 DEF RestConnected, RestInv
  <2>2. Asks(download)
    BY <2>1 DEF Asks, RestInv
  <2> QED
    BY <1>2, <2>2 DEF RestConnected, Ask, RestInv
<1>3. CASE RestDisconnected
  <2>1. drops' \in Nat
    BY <1>3 DEF RestDisconnected, RestInv
  <2>2. AfterLoss(download) \in {"UNDEFINED", "EXCHANGE_INFO"}
    BY DEF AfterLoss, RestInv
  <2> QED
    BY <1>3, <2>1, <2>2 DEF RestDisconnected, RestInv
<1>4. CASE ExchangeInfoAck
  BY <1>4 DEF ExchangeInfoAck, RestInv
<1>5. CASE ExchangeInfoError
  BY <1>5 DEF ExchangeInfoError, RestInv
<1>6. ASSUME NEW i \in DOMAIN ready, StreamReady(i) \/ StreamDisconnected(i) \/ StreamTimer(i)
      PROVE  RestInv'
  BY <1>6 DEF StreamReady, StreamDisconnected, StreamTimer, restVars, RestInv
<1>7. ASSUME NEW s \in Symbols, List(s) PROVE RestInv'
  BY <1>7 DEF List, RestInv
<1>8. CASE UNCHANGED vars
  BY <1>8 DEF vars, restVars, RestInv
<1> QED
  BY <1>1, <1>2, <1>3, <1>4, <1>5, <1>6, <1>7, <1>8 DEF Next

----------------------------------------------------------------------------
(* Theorems *)

LEMMA Inductive == Spec => [](ListStreams /\ RestInv)
<1>1. Init => ListStreams /\ RestInv
  BY ListStreamsInit, RestInit
<1>2. ListStreams /\ RestInv /\ [Next]_vars => (ListStreams /\ RestInv)'
  BY ListStreamsStep, RestStep
<1> QED
  BY <1>1, <1>2, PTL DEF Spec

\* In a session every stream subscribes its slice, whole, in order and each
\* symbol once: for any number of symbols, any limit per stream, any
\* interleaving of updates, sessions and held back messages.
THEOREM SliceSubscribed == Spec => []SubscribedOnce
<1>1. ListStreams => SubscribedOnce
  BY DEF ListStreams, StreamInv
<1> QED
  BY <1>1, Inductive, PTL

\* Rest and the clients' requests feed one list: a symbol that arrives by both
\* ways, or is answered again after every reconnect, is on it once.
THEOREM NoDuplicates == Spec => []KnownOnce
<1>1. ListStreams => KnownOnce
  BY DEF ListStreams, ListInv, KnownOnce
<1> QED
  BY <1>1, Inductive, PTL

\* For any list of symbols and any limit per stream, every known symbol is served
\* by one stream and no stream is asked to take more than the limit.
THEOREM EachSymbolOneStream == Spec => []ServedByOne
<1>1. ListStreams => ServedByOne
  BY OneServes DEF ListStreams
<1> QED
  BY <1>1, Inductive, PTL

\* A download of exchange-info that is lost with its connection is asked again
\* on the next one, and READY is never a left-over of an earlier connection.
THEOREM AskedAgain == Spec => []RestNeverIdle
<1>1. RestInv => RestNeverIdle
  BY DEF RestInv, RestNeverIdle
<1> QED
  BY <1>1, Inductive, PTL

\* The state stays in its domains; the streams are as many as the symbols need.
THEOREM TypeCorrect == Spec => []TypeOK
<1>1. ListStreams /\ RestInv => TypeOK
  <2> SUFFICES ASSUME ListStreams, RestInv PROVE TypeOK
    OBVIOUS
  <2>1. \A i \in DOMAIN ready :
          ready[i] \in BOOLEAN /\ queue[i] \in Seq(Symbols) /\ sub[i] \in Seq(Symbols)
    BY StreamParts DEF ListStreams
  <2> QED
    BY <2>1 DEF ListStreams, ListInv, StreamInv, RestInv, TypeOK
<1> QED
  BY <1>1, Inductive, PTL
=============================================================================
