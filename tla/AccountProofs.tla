--------------------------- MODULE AccountProofs ---------------------------
(***************************************************************************)
(* Proofs about Signing, Throttle, and their composition in Account.       *)
(***************************************************************************)
EXTENDS Account, SequenceFacts, TLAPS

----------------------------------------------------------------------------
(* Signing *)

\* Events lie between the earliest and the latest time, which the clock is
\* never far from; a nonce is at most the last one of this process, or so old
\* that even what the clock may still be stepped back does not reach it.
NonceInv ==
  /\ low <= now /\ now <= high /\ high <= now + drift
  /\ \A n \in issued :
       n <= now + drift + Ahead /\ (n <= nonce \/ n + MaxDrift < low + drift)

\* The nonces an event signs with are above all that were signed with before.
LEMMA NoncesAbove ==
  ASSUME SigningTypeOK, NonceInv, NEW origin \in low .. high
  PROVE  /\ First(origin) \in Nat \ {0}
         /\ First(origin) > nonce
         /\ \A n \in issued : n < First(origin)
<1>1. /\ now \in Nat /\ drift \in Nat /\ drift <= MaxDrift /\ MaxDrift \in Nat
      /\ low \in Nat /\ high \in Nat /\ nonce \in Nat /\ issued \subseteq Nat
      /\ origin \in Nat /\ low <= origin
  BY ClockAssumption DEF SigningTypeOK
<1>2. /\ First(origin) \in Nat \ {0}
      /\ First(origin) > nonce /\ First(origin) >= low
  BY <1>1 DEF First
<1>3. ASSUME NEW n \in issued
      PROVE  n < First(origin)
  <2>1. n \in Nat /\ (n <= nonce \/ n + MaxDrift < low + drift)
    BY <1>1 DEF NonceInv
  <2> QED
    BY <2>1, <1>1, <1>2
<1> QED
  BY <1>2, <1>3

LEMMA SignStep ==
  ASSUME SigningTypeOK, NonceInv, NoncesUnique,
         NEW origin \in low .. high, NEW k \in 1 .. Burst,
         Sign(origin, k), UNCHANGED clock
  PROVE  SigningTypeOK' /\ NonceInv' /\ NoncesUnique'
<1> DEFINE first == First(origin)
           new   == first .. first + k - 1
<1>1. /\ now \in Nat /\ drift \in Nat /\ drift <= MaxDrift /\ MaxDrift \in Nat
      /\ low \in Nat /\ high \in Nat /\ nonce \in Nat /\ issued \subseteq Nat
      /\ Ahead \in Nat /\ k \in Nat \ {0} /\ reused \subseteq issued
  BY ClockAssumption, SigningAssumption DEF SigningTypeOK
<1>2. first \in Nat \ {0} /\ first > nonce /\ \A n \in issued : n < first
  BY NoncesAbove
<1>3. /\ nonce' = first + k - 1 /\ first + k - 1 <= high + Ahead
      /\ issued' = issued \cup new
      /\ reused' = reused \cup (new \cap issued)
      /\ low' = low /\ high' = high /\ now' = now /\ drift' = drift
  BY DEF Sign, clock
<1> HIDE DEF first
<1>4. new \cap issued = {}
  BY <1>1, <1>2
<1>5. new \subseteq Nat /\ first + k - 1 \in Nat
  BY <1>1, <1>2
<1>6. SigningTypeOK'
  <2>1. now' \in Nat /\ drift' \in 0 .. MaxDrift /\ low' \in Nat /\ high' \in Nat
    BY <1>1, <1>3
  <2>2. nonce' \in Nat /\ issued' \subseteq Nat /\ reused' \subseteq issued'
    BY <1>1, <1>3, <1>5
  <2> QED
    BY <2>1, <2>2 DEF SigningTypeOK
<1>7. NonceInv'
  <2>1. low' <= now' /\ now' <= high' /\ high' <= now' + drift'
    BY <1>3 DEF NonceInv
  <2>2. ASSUME NEW n \in issued'
        PROVE  n <= now' + drift' + Ahead /\ (n <= nonce' \/ n + MaxDrift < low' + drift')
    <3>1. CASE n \in issued
      <4>1. n \in Nat /\ n <= now + drift + Ahead /\ (n <= nonce \/ n + MaxDrift < low + drift)
        BY <3>1, <1>1 DEF NonceInv
      <4>2. n <= nonce => n <= first + k - 1
        BY <4>1, <1>1, <1>2
      <4> QED
        BY <4>1, <4>2, <1>3
    <3>2. CASE n \in new
      <4>1. n \in Nat /\ n <= first + k - 1
        BY <3>2, <1>1, <1>2
      <4>2. high <= now + drift
        BY DEF NonceInv
      <4>3. n <= now + drift + Ahead
        BY <4>1, <4>2, <1>1, <1>3, <1>5
      <4> QED
        BY <4>1, <4>3, <1>3
    <3> QED
      BY <3>1, <3>2, <1>3
  <2> QED
    BY <2>1, <2>2 DEF NonceInv
<1>8. NoncesUnique'
  BY <1>3, <1>4 DEF NoncesUnique
<1> QED
  BY <1>6, <1>7, <1>8

LEMMA TickStep ==
  ASSUME SigningTypeOK, NonceInv, NoncesUnique, SigningTick
  PROVE  SigningTypeOK' /\ NonceInv' /\ NoncesUnique'
<1>1. /\ now \in Nat /\ drift \in Nat /\ drift <= MaxDrift /\ MaxDrift \in Nat
      /\ low \in Nat /\ high \in Nat /\ nonce \in Nat /\ issued \subseteq Nat
      /\ Ahead \in Nat /\ MaxTime \in Nat
      /\ low <= now /\ now <= high /\ high <= now + drift
  BY ClockAssumption, SigningAssumption DEF SigningTypeOK, NonceInv
<1>2. /\ nonce' = nonce /\ issued' = issued /\ reused' = reused
      /\ low' = Lower(low, now') /\ high' = Higher(high, now')
  BY DEF SigningTick
<1>3. /\ now' \in Nat /\ drift' \in 0 .. MaxDrift
      /\ now + drift <= now' + drift'
      /\ Lower(low, now') \in Nat /\ Lower(low, now') <= now' /\ Lower(low, now') <= low
      /\ now' <= Higher(high, now') /\ Higher(high, now') \in Nat
      /\ Higher(high, now') <= now' + drift'
      /\ low + drift <= Lower(low, now') + drift'
  <2>1. CASE Advance
    <3>1. now' = now + 1 /\ drift' = drift
      BY <2>1 DEF Advance
    <3> QED
      BY <3>1, <1>1 DEF Lower, Higher
  <2>2. ASSUME NEW d \in Steps, SetBack(d)
        PROVE  <1>3
    <3>1. d \in Nat /\ d <= now /\ now' = now - d /\ drift' = drift + d /\ drift + d <= MaxDrift
      BY <2>2, <1>1 DEF SetBack, Steps
    <3> QED
      BY <3>1, <1>1 DEF Lower, Higher
  <2> QED
    BY <2>1, <2>2 DEF SigningTick
<1>4. SigningTypeOK'
  BY <1>1, <1>2, <1>3 DEF SigningTypeOK
<1>5. NonceInv'
  <2>1. ASSUME NEW n \in issued'
        PROVE  n <= now' + drift' + Ahead /\ (n <= nonce' \/ n + MaxDrift < low' + drift')
    <3>0. n \in issued
      BY <2>1, <1>2
    <3>1. n \in Nat /\ n <= now + drift + Ahead /\ (n <= nonce \/ n + MaxDrift < low + drift)
      BY <3>0, <1>1 DEF NonceInv
    <3>2. \A t, u, l \in Nat :
            now + drift <= t + u /\ low + drift <= l + u =>
              n <= t + u + Ahead /\ (n <= nonce \/ n + MaxDrift < l + u)
      BY <3>1, <1>1
    <3>3. /\ now' \in Nat /\ drift' \in Nat /\ low' \in Nat
          /\ now + drift <= now' + drift' /\ low + drift <= low' + drift'
      <4>1. drift' \in Nat
        BY <1>3, <1>1
      <4> QED
        BY <4>1, <1>2, <1>3, Zenon
    <3> QED
      BY <3>2, <3>3, <1>2, Zenon
  <2> QED
    BY <2>1, <1>2, <1>3 DEF NonceInv
<1>6. NoncesUnique'
  BY <1>2 DEF NoncesUnique
<1> QED
  BY <1>4, <1>5, <1>6

\* The process is gone for longer than it can have signed ahead of a clock
\* that was stepped back.
LEMMA RestartStep ==
  ASSUME SigningTypeOK, NonceInv, NoncesUnique,
         NEW d \in Absences, SigningRestart(d)
  PROVE  SigningTypeOK' /\ NonceInv' /\ NoncesUnique'
<1>1. /\ now \in Nat /\ drift \in Nat /\ drift <= MaxDrift /\ MaxDrift \in Nat
      /\ issued \subseteq Nat /\ Ahead \in Nat /\ d \in Nat
      /\ Downtime \in Nat /\ Downtime > Ahead + MaxDrift
  BY ClockAssumption, SigningAssumption, DowntimeAssumption DEF SigningTypeOK, Absences
<1>2. /\ d >= Downtime /\ now' = now + d /\ drift' = drift
      /\ low' = now + d /\ high' = now + d /\ nonce' = 0
      /\ issued' = issued /\ reused' = reused
  BY DEF SigningRestart, GoneFor
<1>0. \A m \in issued : m <= now + drift + Ahead
  BY NonceInv DEF NonceInv
<1>3. SigningTypeOK'
  BY <1>1, <1>2 DEF SigningTypeOK
<1>4. ASSUME NEW n \in issued'
      PROVE  n <= now' + drift' + Ahead /\ n + MaxDrift < low' + drift'
  <2>0. n \in issued
    BY <1>4, <1>2
  <2>1. n \in Nat /\ n <= now + drift + Ahead
    BY <2>0, <1>0, <1>1
  <2>2. n <= now + d + drift + Ahead /\ n + MaxDrift < now + d + drift
    BY <2>1, <1>1, <1>2
  <2> QED
    BY <2>2, <1>2
<1>5. NonceInv'
  <2>1. low' <= now' /\ now' <= high' /\ high' <= now' + drift'
    BY <1>1, <1>2
  <2> QED
    BY <2>1, <1>4 DEF NonceInv
<1> QED
  BY <1>2, <1>3, <1>5 DEF NoncesUnique

\* No nonce is signed with twice, over bursts, events out of order, steps of
\* the clock and restarts (Crypto::sign_message).
THEOREM NeverSignedTwice == SigningSpec => [](SigningTypeOK /\ NonceInv /\ NoncesUnique)
<1> DEFINE Inv == SigningTypeOK /\ NonceInv /\ NoncesUnique
<1>1. SigningInit => Inv
  BY ClockAssumption, SigningAssumption
  DEF SigningInit, ClockInit, SigningTypeOK, NonceInv, NoncesUnique
<1>2. Inv /\ [SigningNext]_<<clock, signing>> => Inv'
  <2> SUFFICES ASSUME Inv, [SigningNext]_<<clock, signing>>
               PROVE  Inv'
    OBVIOUS
  <2>1. CASE \E origin \in low .. high, k \in 1 .. Burst : Sign(origin, k) /\ UNCHANGED clock
    BY <2>1, SignStep
  <2>2. CASE SigningTick
    BY <2>2, TickStep
  <2>3. CASE \E d \in Absences : SigningRestart(d)
    BY <2>3, RestartStep
  <2>4. CASE UNCHANGED <<clock, signing>>
    BY <2>4 DEF clock, signing, SigningTypeOK, NonceInv, NoncesUnique
  <2> QED
    BY <2>1, <2>2, <2>3, <2>4 DEF SigningNext
<1> QED
  BY <1>1, <1>2, PTL DEF SigningSpec

----------------------------------------------------------------------------
(* Throttle *)

\* The suspension lasts for as long as there is to be silence: more than
\* QuietIsSuspended says, because both run down.
QuietInv == quiet > 0 => suspend >= now + quiet

LEMMA MessageStep ==
  ASSUME ThrottleTypeOK, QuietInv, NEW status, MessageEnd(status), UNCHANGED clock
  PROVE  ThrottleTypeOK' /\ QuietInv'
<1>1. /\ now \in Nat /\ drift \in Nat /\ suspend \in Nat /\ Backoff \in Nat
      /\ quiet \in Nat /\ quiet <= Backoff /\ now' = now /\ drift' = drift
  BY ThrottleAssumption DEF ThrottleTypeOK, clock
<1>2. CASE Teapot /\ quiet' = Backoff
  BY <1>1, <1>2 DEF Teapot, Raised, ThrottleTypeOK, QuietInv
<1>3. CASE TooMany /\ quiet' = IF suspend = 0 THEN Backoff ELSE quiet
  BY <1>1, <1>3 DEF TooMany, ThrottleTypeOK, QuietInv
<1>4. CASE UNCHANGED throttle
  BY <1>1, <1>4 DEF throttle, ThrottleTypeOK, QuietInv
<1> QED
  BY <1>2, <1>3, <1>4 DEF MessageEnd

LEMMA QuietTick ==
  ASSUME ThrottleTypeOK, QuietInv, ThrottleTick
  PROVE  ThrottleTypeOK' /\ QuietInv'
<1>1. /\ now \in Nat /\ drift \in Nat /\ suspend \in Nat /\ Backoff \in Nat
      /\ quiet \in Nat /\ quiet <= Backoff
      /\ quiet > 0 => suspend >= now + quiet
  BY ThrottleAssumption DEF ThrottleTypeOK, QuietInv
<1>2. CASE Advance /\ quiet' = (IF quiet = 0 THEN 0 ELSE quiet - 1) /\ UNCHANGED suspend
  BY <1>1, <1>2 DEF Advance, ThrottleTypeOK, QuietInv
<1>3. ASSUME NEW d \in Steps, SetBack(d), UNCHANGED throttle
      PROVE  ThrottleTypeOK' /\ QuietInv'
  <2>1. /\ d \in Nat /\ d <= now /\ now' = now - d /\ drift' = drift + d
        /\ suspend' = suspend /\ quiet' = quiet
    BY <1>3, ClockAssumption DEF SetBack, Steps, throttle
  <2> QED
    BY <1>1, <2>1 DEF ThrottleTypeOK, QuietInv
<1> QED
  BY <1>2, <1>3 DEF ThrottleTick

\* In the time after a 418, or after the first 429, requests are suspended
\* (Throttle, MessageEnd).
THEOREM SilenceIsSuspension == ThrottleSpec => []QuietIsSuspended
<1> DEFINE Inv == ThrottleTypeOK /\ QuietInv
<1>1. ThrottleInit => Inv
  BY ThrottleAssumption DEF ThrottleInit, ClockInit, ThrottleTypeOK, QuietInv
<1>2. Inv /\ [ThrottleNext]_<<clock, throttle>> => Inv'
  <2> SUFFICES ASSUME Inv, [ThrottleNext]_<<clock, throttle>>
               PROVE  Inv'
    OBVIOUS
  <2>1. CASE \E status \in Statuses : MessageEnd(status) /\ UNCHANGED clock
    BY <2>1, MessageStep
  <2>2. CASE ThrottleTick
    BY <2>2, QuietTick
  <2>3. CASE \E d \in Absences : ThrottleRestart(d)
    <3>1. PICK d \in Absences : ThrottleRestart(d)
      BY <2>3
    <3>2. d \in Nat /\ now' = now + d /\ drift' = drift /\ suspend' = 0 /\ quiet' = 0
      BY <3>1, ClockAssumption DEF ThrottleRestart, GoneFor, Absences
    <3> QED
      BY <3>2, ThrottleAssumption DEF ThrottleTypeOK, QuietInv
  <2>4. CASE UNCHANGED <<clock, throttle>>
    BY <2>4 DEF clock, throttle, ThrottleTypeOK, QuietInv
  <2> QED
    BY <2>1, <2>2, <2>3, <2>4 DEF ThrottleNext
<1>3. Inv => QuietIsSuspended
  BY ThrottleAssumption DEF ThrottleTypeOK, QuietInv, QuietIsSuspended, Suspended
<1> QED
  BY <1>1, <1>2, <1>3, PTL DEF ThrottleSpec

----------------------------------------------------------------------------
(* The composition *)

\* What an action of Account does to the nonces and to the suspension.
LEMMA Components ==
  ASSUME [AccountNext]_vars
  PROVE  /\ [SigningNext]_<<clock, signing>>
         /\ [ThrottleNext]_<<clock, throttle>>
<1>1. CASE GetAccount
  BY <1>1, SigningAssumption DEF GetAccount, Send, SigningNext, clock, throttle
<1>2. ASSUME NEW c \in Connections, NEW k \in 1 .. Burst, OtherRequests(c, k)
      PROVE  /\ [SigningNext]_<<clock, signing>>
             /\ [ThrottleNext]_<<clock, throttle>>
  BY <1>2 DEF OtherRequests, Send, SigningNext, clock, throttle
<1>3. ASSUME NEW c \in Connections, NEW status \in Statuses, Answer(c, status)
      PROVE  UNCHANGED <<clock, signing, throttle>>
  BY <1>3 DEF Answer
<1>4. ASSUME NEW c \in Connections, Deliver(c)
      PROVE  /\ [SigningNext]_<<clock, signing>>
             /\ [ThrottleNext]_<<clock, throttle>>
  <2>1. CASE Head(wire[c]).status \in Statuses
    BY <1>4, <2>1 DEF Deliver, ThrottleNext
  <2>2. CASE Head(wire[c]).status \notin Statuses
    BY <1>4, <2>2 DEF Deliver, MessageEnd, Statuses
  <2> QED
    BY <2>1, <2>2
<1>5. CASE Tick
  BY <1>5 DEF Tick, SigningNext, ThrottleNext
<1>6. CASE \E d \in Absences : Restart(d)
  BY <1>6 DEF Restart, SigningNext, ThrottleNext
<1>7. CASE \/ \E c \in Connections : Disconnected(c)
           \/ \E items \in SUBSET Items \ {{}} : Change(items)
           \/ AccountUpdate \/ StreamUp \/ StreamDown \/ UNCHANGED vars
  BY <1>7 DEF Disconnected, Change, AccountUpdate, StreamUp, StreamDown, vars
<1> QED
  BY <1>1, <1>2, <1>3, <1>4, <1>5, <1>6, <1>7 DEF AccountNext

\* Whatever the connections and the stream of an account do, its nonces and
\* its throttle behave as Signing and Throttle say.
THEOREM AccountComposes == AccountSpec => SigningSpec /\ ThrottleSpec
<1>1. AccountInit => SigningInit /\ ThrottleInit
  BY DEF AccountInit
<1> QED
  BY <1>1, Components, PTL DEF AccountSpec, SigningSpec, ThrottleSpec

\* No nonce of an account is signed with twice.
THEOREM AccountNonces == AccountSpec => []NoncesUnique
BY AccountComposes, NeverSignedTwice, PTL

----------------------------------------------------------------------------
(* Entries *)

\* What the exchange, and the end of a session, leave of an entry.
LEMMA AnsweredEntry ==
  ASSUME NEW e \in Entries, NEW status \in Statuses, up \in BOOLEAN, book \in Snapshot
  PROVE  /\ Answered(e, status) \in Entries
         /\ Answered(e, status).nonce = e.nonce
         /\ Answered(e, status).status # "PENDING"
BY DEF Answered, Entries, Statuses

LEMMA FadedEntry ==
  ASSUME NEW e \in Entries
  PROVE  /\ [e EXCEPT !.fresh = FALSE] \in Entries
         /\ [e EXCEPT !.fresh = FALSE].nonce = e.nonce
         /\ [e EXCEPT !.fresh = FALSE].status = e.status
BY DEF Entries

----------------------------------------------------------------------------
(* Nonces on a connection *)

\* On a connection nonces grow, and those that have not arrived are above the
\* one that arrived last; all of them are known.
Orderly(q, last, known) ==
  /\ q \in Seq(Entries) /\ last \in known \cup {0}
  /\ \A j \in DOMAIN q : q[j].nonce \in known
  /\ \A h, j \in DOMAIN q : h < j => q[h].nonce < q[j].nonce
  /\ \A j \in DOMAIN q : q[j].status = "PENDING" => q[j].nonce > last

LEMMA OrderlySend ==
  ASSUME NEW q, NEW last, NEW known \in SUBSET Nat, Orderly(q, last, known),
         NEW first \in Nat \ {0}, \A n \in known : n < first,
         NEW k \in Nat \ {0}, NEW r \in Seq(Entries), Len(r) = k,
         \A j \in 1 .. k : r[j].nonce = first + j - 1
  PROVE  Orderly(q \o r, last, known \cup first .. first + k - 1)
<1> DEFINE t == q \o r
           all == known \cup first .. first + k - 1
<1>1. q \in Seq(Entries) /\ last \in known \cup {0}
  BY DEF Orderly
<1>2. /\ t \in Seq(Entries)
      /\ \A j \in DOMAIN t :
           \/ j \in DOMAIN q /\ t[j] = q[j]
           \/ j - Len(q) \in 1 .. k /\ j > Len(q) /\ t[j] = r[j - Len(q)]
  BY <1>1, JoinedElements
<1> HIDE DEF t
<1>3. \A j \in DOMAIN q : q[j].nonce \in known /\ q[j].nonce < first
  BY DEF Orderly
<1>4. \A j \in DOMAIN t : j \in Nat
  BY <1>2
<1>5. ASSUME NEW j \in DOMAIN t
      PROVE  \/ j \in DOMAIN q /\ t[j] = q[j] /\ t[j].nonce \in known /\ t[j].nonce < first
             \/ /\ j > Len(q) /\ t[j].nonce = first + (j - Len(q)) - 1
                /\ t[j].nonce \in first .. first + k - 1
  <2>1. CASE j \in DOMAIN q /\ t[j] = q[j]
    BY <2>1, <1>3
  <2>2. CASE j - Len(q) \in 1 .. k /\ j > Len(q) /\ t[j] = r[j - Len(q)]
    <3>1. t[j].nonce = first + (j - Len(q)) - 1
      BY <2>2
    <3>2. Len(q) \in Nat /\ j \in Nat
      BY <1>1, <1>4
    <3> QED
      BY <3>1, <3>2, <2>2
  <2> QED
    BY <2>1, <2>2, <1>2
<1>6. ASSUME NEW j \in DOMAIN t
      PROVE  t[j].nonce \in all /\ t[j].nonce \in Nat
  <2>1. CASE t[j].nonce \in known
    BY <2>1
  <2>2. CASE t[j].nonce \in first .. first + k - 1
    BY <2>2
  <2> QED
    BY <2>1, <2>2, <1>5
<1>7. ASSUME NEW h \in DOMAIN t, NEW j \in DOMAIN t, h < j
      PROVE  t[h].nonce < t[j].nonce
  <2>1. Len(q) \in Nat /\ h \in Nat /\ j \in Nat /\ DOMAIN q = 1 .. Len(q)
    BY <1>1, <1>4
  <2>2. CASE h \in DOMAIN q /\ j \in DOMAIN q /\ t[h] = q[h] /\ t[j] = q[j]
    BY <2>2, <1>7 DEF Orderly
  <2>3. CASE t[h].nonce < first /\ t[j].nonce \in first .. first + k - 1
    BY <2>3, <1>6
  <2>4. CASE /\ t[h].nonce = first + (h - Len(q)) - 1
             /\ t[j].nonce = first + (j - Len(q)) - 1
    BY <2>4, <2>1, <1>7
  <2>5. ~(h > Len(q) /\ j \in DOMAIN q)
    BY <2>1, <1>7
  <2> QED
    BY <1>5, <2>2, <2>3, <2>4, <2>5
<1>8. ASSUME NEW j \in DOMAIN t, t[j].status = "PENDING"
      PROVE  t[j].nonce > last
  <2>1. CASE j \in DOMAIN q /\ t[j] = q[j]
    BY <2>1, <1>8 DEF Orderly
  <2>2. CASE t[j].nonce \in first .. first + k - 1
    <3>1. last \in Nat /\ last < first
      BY <1>1
    <3> QED
      BY <2>2, <3>1
  <2> QED
    BY <2>1, <2>2, <1>5
<1>9. Orderly(t, last, all)
  BY <1>1, <1>2, <1>6, <1>7, <1>8 DEF Orderly
<1> QED
  BY <1>9 DEF t

LEMMA OrderlyAnswer ==
  ASSUME NEW q, NEW last, NEW known \in SUBSET Nat, Orderly(q, last, known),
         NEW j \in DOMAIN q, NEW e \in Entries,
         e.nonce = q[j].nonce, e.status # "PENDING",
         \A h \in 1 .. j - 1 : q[h].status # "PENDING"
  PROVE  Orderly([q EXCEPT ![j] = e], q[j].nonce, known)
<1> DEFINE t == [q EXCEPT ![j] = e]
<1>1. q \in Seq(Entries)
  BY DEF Orderly
<1>2. /\ t \in Seq(Entries) /\ DOMAIN t = DOMAIN q
      /\ \A h \in DOMAIN q : t[h] = IF h = j THEN e ELSE q[h]
  BY <1>1, ReplacedElement
<1> HIDE DEF t
<1>3. \A h \in DOMAIN q : t[h].nonce = q[h].nonce
  BY <1>2
<1>4. ASSUME NEW h \in DOMAIN t, t[h].status = "PENDING"
      PROVE  t[h].nonce > q[j].nonce
  <2>1. h # j /\ h \in DOMAIN q /\ q[h].status = "PENDING"
    BY <1>2, <1>4
  <2>2. h \in Nat /\ j \in Nat /\ h >= 1 /\ j >= 1
    BY <2>1, <1>1
  <2>3. j < h
    BY <2>1, <2>2
  <2>4. q[j].nonce < q[h].nonce /\ q[j].nonce \in Nat /\ q[h].nonce \in Nat
    BY <2>1, <2>3 DEF Orderly
  <2> QED
    BY <2>1, <2>4, <1>3
<1>5. \A g, h \in DOMAIN t : g < h => t[g].nonce < t[h].nonce
  BY <1>2, <1>3 DEF Orderly
<1>6. \A h \in DOMAIN t : t[h].nonce \in known
  BY <1>2, <1>3 DEF Orderly
<1> QED
  BY <1>2, <1>4, <1>5, <1>6 DEF Orderly

LEMMA OrderlyTail ==
  ASSUME NEW q, NEW last, NEW known, Orderly(q, last, known), q # <<>>
  PROVE  Orderly(Tail(q), last, known)
<1> DEFINE t == Tail(q)
<1>1. q \in Seq(Entries)
  BY DEF Orderly
<1>2. /\ t \in Seq(Entries)
      /\ \A j \in DOMAIN t : j \in Nat /\ j + 1 \in DOMAIN q /\ t[j] = q[j + 1]
  BY <1>1, TailElements
<1> HIDE DEF t
<1>3. \A h, j \in DOMAIN t : h < j => t[h].nonce < t[j].nonce
  <2> SUFFICES ASSUME NEW h \in DOMAIN t, NEW j \in DOMAIN t, h < j
               PROVE  t[h].nonce < t[j].nonce
    OBVIOUS
  <2>1. h + 1 < j + 1
    BY <1>2
  <2> QED
    BY <2>1, <1>2 DEF Orderly
<1> QED
  BY <1>2, <1>3 DEF Orderly

LEMMA OrderlyFaded ==
  ASSUME NEW q, NEW last, NEW known, Orderly(q, last, known)
  PROVE  Orderly([j \in DOMAIN q |-> [q[j] EXCEPT !.fresh = FALSE]], last, known)
<1> DEFINE t == [j \in DOMAIN q |-> [q[j] EXCEPT !.fresh = FALSE]]
<1>1. q \in Seq(Entries)
  BY DEF Orderly
<1>2. \A j \in DOMAIN q : q[j] \in Entries
  BY <1>1
<1>3. /\ t \in [DOMAIN q -> Entries]
      /\ \A j \in DOMAIN q : t[j].nonce = q[j].nonce /\ t[j].status = q[j].status
  BY <1>2, FadedEntry
<1>4. DOMAIN t = DOMAIN q
  OBVIOUS
<1>5. t \in Seq(Entries)
  BY <1>1, <1>3, MappedElements
<1> HIDE DEF t
<1>6. Orderly(t, last, known)
  BY <1>3, <1>4, <1>5 DEF Orderly
<1> QED
  BY <1>6 DEF t

----------------------------------------------------------------------------
(* The state of the account *)

\* The part of the type invariant that is about the account.
StateOK ==
  /\ book \in Snapshot /\ time \in Nat
  /\ up \in BOOLEAN /\ downs \in Nat /\ current \in BOOLEAN
  /\ feed \in Seq([items : SUBSET Items, time : Nat])
  /\ view \in [Items \X Modes -> Nat]

WireInv ==
  /\ wire \in [Connections -> Seq(Entries)] /\ arrived \in [Connections -> Nat]
  /\ \A c \in Connections : Orderly(wire[c], arrived[c], issued)

\* The inductive invariant of Account.
AccountInv ==
  /\ SigningTypeOK /\ NonceInv /\ NoncesUnique
  /\ ThrottleTypeOK /\ QuietInv
  /\ StateOK /\ WireInv

LEMMA SigningStep ==
  ASSUME SigningTypeOK, NonceInv, NoncesUnique, [SigningNext]_<<clock, signing>>
  PROVE  SigningTypeOK' /\ NonceInv' /\ NoncesUnique'
<1>1. CASE \E origin \in low .. high, k \in 1 .. Burst : Sign(origin, k) /\ UNCHANGED clock
  BY <1>1, SignStep
<1>2. CASE SigningTick
  BY <1>2, TickStep
<1>3. CASE \E d \in Absences : SigningRestart(d)
  BY <1>3, RestartStep
<1>4. CASE UNCHANGED <<clock, signing>>
  BY <1>4 DEF clock, signing, SigningTypeOK, NonceInv, NoncesUnique
<1> QED
  BY <1>1, <1>2, <1>3, <1>4 DEF SigningNext

LEMMA ThrottleStep ==
  ASSUME ThrottleTypeOK, QuietInv, [ThrottleNext]_<<clock, throttle>>
  PROVE  ThrottleTypeOK' /\ QuietInv'
<1>1. CASE \E status \in Statuses : MessageEnd(status) /\ UNCHANGED clock
  BY <1>1, MessageStep
<1>2. CASE ThrottleTick
  BY <1>2, QuietTick
<1>3. CASE \E d \in Absences : ThrottleRestart(d)
  <2>1. PICK d \in Absences : ThrottleRestart(d)
    BY <1>3
  <2>2. d \in Nat /\ now' = now + d /\ drift' = drift /\ suspend' = 0 /\ quiet' = 0
    BY <2>1, ClockAssumption DEF ThrottleRestart, GoneFor, Absences
  <2> QED
    BY <2>2, ThrottleAssumption DEF ThrottleTypeOK, QuietInv
<1>4. CASE UNCHANGED <<clock, throttle>>
  BY <1>4 DEF clock, throttle, ThrottleTypeOK, QuietInv
<1> QED
  BY <1>1, <1>2, <1>3, <1>4 DEF ThrottleNext

\* Requests that are sent are signed with nonces above all that were.
LEMMA SendKeepsWire ==
  ASSUME SigningTypeOK, NonceInv, WireInv,
         NEW c \in Connections, NEW kind \in {"ACCOUNT", "OTHER"},
         NEW k \in 1 .. Burst, Send(c, kind, k)
  PROVE  WireInv'
<1>1. PICK origin \in low .. high :
        /\ Sign(origin, k)
        /\ wire' = IF Suspended THEN wire
                   ELSE [wire EXCEPT ![c] = @ \o [j \in 1 .. k |->
                           [nonce |-> First(origin) + j - 1, kind |-> kind,
                            status |-> "PENDING", fresh |-> FALSE, seen |-> Nothing]]]
  BY DEF Send
<1> DEFINE first == First(origin)
           all   == issued \cup first .. first + k - 1
           r     == [j \in 1 .. k |->
                       [nonce |-> first + j - 1, kind |-> kind,
                        status |-> "PENDING", fresh |-> FALSE, seen |-> Nothing]]
<1>2. /\ issued' = all /\ arrived' = arrived
      /\ wire' = IF Suspended THEN wire ELSE [wire EXCEPT ![c] = @ \o r]
  BY <1>1 DEF Send, Sign
<1>3. first \in Nat \ {0} /\ \A n \in issued : n < first
  BY NoncesAbove
<1>4. issued \subseteq Nat /\ k \in Nat \ {0}
  BY SigningAssumption DEF SigningTypeOK
<1> HIDE DEF first
<1>5. r \in Seq(Entries) /\ Len(r) = k /\ \A j \in 1 .. k : r[j].nonce = first + j - 1
  <2>1. \A j \in 1 .. k : [nonce |-> first + j - 1, kind |-> kind, status |-> "PENDING",
                           fresh |-> FALSE, seen |-> Nothing] \in Entries
    BY <1>3, <1>4 DEF Entries, Snapshot, Nothing
  <2>2. r \in [1 .. k -> Entries]
    BY <2>1
  <2>3. r \in Seq(Entries) /\ Len(r) = k
    BY <2>2, <1>4
  <2> QED
    BY <2>3
<1> HIDE DEF r
<1>6. Orderly(wire[c] \o r, arrived[c], all)
  BY <1>3, <1>4, <1>5, OrderlySend DEF WireInv
<1>7. \A d \in Connections : Orderly(wire[d], arrived[d], all)
  BY DEF WireInv, Orderly
<1>8. wire[c] \o r \in Seq(Entries)
  BY <1>6 DEF Orderly
<1>9. CASE Suspended
  BY <1>9, <1>2, <1>7 DEF WireInv
<1>10. CASE ~Suspended
  BY <1>10, <1>2, <1>6, <1>7, <1>8 DEF WireInv
<1> QED
  BY <1>9, <1>10

LEMMA AnswerKeepsWire ==
  ASSUME SigningTypeOK, StateOK, WireInv,
         NEW c \in Connections, NEW status \in Statuses, Answer(c, status)
  PROVE  WireInv'
<1>1. PICK j \in DOMAIN wire[c] :
        /\ \A h \in 1 .. j - 1 : wire[c][h].status # "PENDING"
        /\ wire' = [wire EXCEPT ![c][j] = Answered(@, status)]
        /\ arrived' = [arrived EXCEPT ![c] = wire[c][j].nonce]
        /\ issued' = issued
  BY DEF Answer, signing
<1> DEFINE e == Answered(wire[c][j], status)
<1>2. wire[c] \in Seq(Entries) /\ wire[c][j] \in Entries
  BY DEF WireInv
<1>3. e \in Entries /\ e.nonce = wire[c][j].nonce /\ e.status # "PENDING"
  BY <1>2, AnsweredEntry DEF StateOK
<1>4. wire' = [wire EXCEPT ![c] = [wire[c] EXCEPT ![j] = e]]
  BY <1>1
<1> HIDE DEF e
<1>5. Orderly([wire[c] EXCEPT ![j] = e], wire[c][j].nonce, issued)
  BY <1>1, <1>3, OrderlyAnswer DEF WireInv, SigningTypeOK
<1>6. [wire[c] EXCEPT ![j] = e] \in Seq(Entries)
  BY <1>5 DEF Orderly
<1>7. wire[c][j].nonce \in Nat
  BY <1>2 DEF Entries
<1> QED
  BY <1>1, <1>4, <1>5, <1>6, <1>7 DEF WireInv

LEMMA WireStep ==
  ASSUME AccountInv, [AccountNext]_vars
  PROVE  WireInv'
<1> USE DEF AccountInv
<1>1. CASE GetAccount
  BY <1>1, SendKeepsWire, AccountAssumption, SigningAssumption DEF GetAccount
<1>2. CASE \E c \in Connections, k \in 1 .. Burst : OtherRequests(c, k)
  BY <1>2, SendKeepsWire DEF OtherRequests
<1>3. CASE \E c \in Connections, status \in Statuses : Answer(c, status)
  BY <1>3, AnswerKeepsWire
<1>4. ASSUME NEW c \in Connections, Deliver(c)
      PROVE  WireInv'
  <2>1. /\ wire[c] # <<>> /\ wire' = [wire EXCEPT ![c] = Tail(@)]
        /\ arrived' = arrived /\ issued' = issued
    BY <1>4 DEF Deliver, signing
  <2>2. Orderly(Tail(wire[c]), arrived[c], issued)
    BY <2>1, OrderlyTail DEF WireInv
  <2>3. Tail(wire[c]) \in Seq(Entries)
    BY <2>2 DEF Orderly
  <2> QED
    BY <2>1, <2>2, <2>3 DEF WireInv
<1>5. ASSUME NEW c \in Connections, Disconnected(c)
      PROVE  WireInv'
  <2>1. wire' = [wire EXCEPT ![c] = <<>>] /\ arrived' = arrived /\ issued' = issued
    BY <1>5 DEF Disconnected, signing
  <2>2. Orderly(<<>>, arrived[c], issued)
    BY DEF WireInv, Orderly
  <2> QED
    BY <2>1, <2>2 DEF WireInv
<1>6. CASE StreamDown
  <2>1. /\ wire' = [c \in Connections |-> [j \in DOMAIN wire[c] |-> [wire[c][j] EXCEPT !.fresh = FALSE]]]
        /\ arrived' = arrived /\ issued' = issued
    BY <1>6 DEF StreamDown, signing
  <2>2. \A c \in Connections : Orderly(wire'[c], arrived[c], issued)
    BY <2>1, OrderlyFaded DEF WireInv
  <2>3. \A c \in Connections : wire'[c] \in Seq(Entries)
    BY <2>2 DEF Orderly
  <2> QED
    BY <2>1, <2>2, <2>3 DEF WireInv
<1>7. CASE \E d \in Absences : Restart(d)
  <2>1. /\ wire' = [c \in Connections |-> <<>>]
        /\ arrived' = arrived /\ issued' = issued
    BY <1>7 DEF Restart, SigningRestart
  <2>2. \A c \in Connections : Orderly(<<>>, arrived[c], issued)
    BY DEF WireInv, Orderly
  <2> QED
    BY <2>1, <2>2 DEF WireInv
<1>8. CASE \/ Tick \/ \E items \in SUBSET Items \ {{}} : Change(items)
           \/ AccountUpdate \/ StreamUp \/ UNCHANGED vars
  <2>1. wire' = wire /\ arrived' = arrived /\ issued' = issued
    BY <1>8 DEF Tick, SigningTick, Change, AccountUpdate, StreamUp, vars, rest, signing
  <2> QED
    BY <2>1 DEF WireInv
<1> QED
  BY <1>1, <1>2, <1>3, <1>4, <1>5, <1>6, <1>7, <1>8 DEF AccountNext

LEMMA StateStep ==
  ASSUME AccountInv, [AccountNext]_vars
  PROVE  StateOK'
<1> USE DEF AccountInv
<1> DEFINE Events == [items : SUBSET Items, time : Nat]
<1>0. ASSUME UNCHANGED <<book, time>>, up' = FALSE, current' = FALSE, feed' = <<>>,
             downs' = downs \/ downs' = downs + 1,
             view' = view \/ view' = [key \in Items \X Modes |-> 0]
      PROVE  StateOK'
  <2>1. feed' \in Seq(Events)
    BY <1>0, EmptySequence
  <2>2. downs' \in Nat /\ view' \in [Items \X Modes -> Nat]
    BY <1>0 DEF StateOK
  <2> QED
    BY <1>0, <2>1, <2>2 DEF StateOK
<1>1. ASSUME UNCHANGED account
      PROVE  StateOK'
  BY <1>1 DEF account, stream, StateOK
<1>2. ASSUME NEW c \in Connections, Deliver(c)
      PROVE  StateOK'
  <2> DEFINE e == Head(wire[c])
  <2>1. e \in Entries
    BY <1>2, TailElements DEF Deliver, WireInv
  <2>2. /\ view' = [key \in Items \X Modes |->
                     IF AckHandled(e) /\ key[2] = AckMode(key[1])
                     THEN Later(view[key], AckTime(e, key[1])) ELSE view[key]]
        /\ current' = (current \/ (AckHandled(e) /\ e.fresh))
        /\ UNCHANGED <<book, time, up, feed, downs>>
    BY <1>2 DEF Deliver
  <2> HIDE DEF e
  <2>3. \A key \in Items \X Modes : Later(view[key], AckTime(e, key[1])) \in Nat
    BY <2>1 DEF Later, AckTime, Entries, Snapshot, StateOK
  <2>4. view' \in [Items \X Modes -> Nat]
    BY <2>2, <2>3 DEF StateOK
  <2> QED
    BY <2>2, <2>4 DEF StateOK
<1>3. ASSUME NEW items \in SUBSET Items \ {{}}, Change(items)
      PROVE  StateOK'
  <2>1. /\ time' = time + 1
        /\ book' = [i \in Items |-> IF i \in items THEN time + 1 ELSE book[i]]
        /\ feed' = IF up THEN Append(feed, [items |-> items, time |-> time + 1]) ELSE feed
        /\ UNCHANGED <<up, downs, current, view>>
    BY <1>3 DEF Change
  <2>2. book' \in Snapshot /\ time' \in Nat
    BY <2>1 DEF StateOK, Snapshot
  <2>3. [items |-> items, time |-> time + 1] \in Events
    BY DEF StateOK
  <2>4. feed' \in Seq(Events)
    <3> HIDE DEF Events
    <3>1. feed \in Seq(Events)
      BY DEF StateOK, Events
    <3> QED
      BY <2>1, <2>3, <3>1
  <2> QED
    BY <2>1, <2>2, <2>4 DEF StateOK
<1>4. CASE AccountUpdate
  <2> DEFINE m == Head(feed)
  <2>1. /\ feed # <<>> /\ feed' = Tail(feed)
        /\ view' = [key \in Items \X Modes |->
                     IF key[1] \in m.items /\ key[2] = UpdateMode(key[1])
                     THEN Later(view[key], UpdateTime(m)) ELSE view[key]]
        /\ UNCHANGED <<book, time, up, downs, current>>
    BY <1>4 DEF AccountUpdate
  <2>2. m \in Events /\ feed' \in Seq(Events)
    <3> HIDE DEF Events
    <3>1. feed \in Seq(Events)
      BY DEF StateOK, Events
    <3> QED
      BY <2>1, <3>1, TailElements
  <2> HIDE DEF m
  <2>3. \A key \in Items \X Modes : Later(view[key], UpdateTime(m)) \in Nat
    BY <2>2 DEF Later, UpdateTime, StateOK
  <2>4. view' \in [Items \X Modes -> Nat]
    BY <2>1, <2>3 DEF StateOK
  <2> QED
    BY <2>1, <2>2, <2>4 DEF StateOK
<1>5. CASE StreamUp
  BY <1>5 DEF StreamUp, StateOK
<1>6. CASE StreamDown
  BY <1>6, EmptySequence, <1>0 DEF StreamDown
<1>7. CASE \E d \in Absences : Restart(d)
  BY <1>7, EmptySequence, <1>0 DEF Restart
<1>8. CASE \/ GetAccount
           \/ \E c \in Connections, k \in 1 .. Burst : OtherRequests(c, k)
           \/ \E c \in Connections, status \in Statuses : Answer(c, status)
           \/ \E c \in Connections : Disconnected(c)
           \/ Tick \/ UNCHANGED vars
  <2>1. UNCHANGED account
    BY <1>8 DEF GetAccount, OtherRequests, Send, Answer, Disconnected, Tick, vars
  <2> QED
    BY <2>1, <1>1
<1> QED
  BY <1>2, <1>3, <1>4, <1>5, <1>6, <1>7, <1>8 DEF AccountNext

LEMMA AccountInductive ==
  /\ AccountInit => AccountInv
  /\ AccountInv /\ [AccountNext]_vars => AccountInv'
<1>1. ASSUME AccountInit
      PROVE  AccountInv
  <2>1. SigningTypeOK /\ NonceInv /\ NoncesUnique
    BY <1>1, ClockAssumption, SigningAssumption
    DEF AccountInit, SigningInit, ClockInit, SigningTypeOK, NonceInv, NoncesUnique
  <2>2. ThrottleTypeOK /\ QuietInv
    BY <1>1, ThrottleAssumption
    DEF AccountInit, ThrottleInit, ClockInit, ThrottleTypeOK, QuietInv
  <2>3. StateOK
    BY <1>1, EmptySequence DEF AccountInit, StateOK, Snapshot, Nothing
  <2>4. WireInv
    BY <1>1 DEF AccountInit, WireInv, Orderly
  <2> QED
    BY <2>1, <2>2, <2>3, <2>4 DEF AccountInv
<1>2. ASSUME AccountInv, [AccountNext]_vars
      PROVE  AccountInv'
  <2>1. SigningTypeOK' /\ NonceInv' /\ NoncesUnique'
    BY <1>2, Components, SigningStep DEF AccountInv
  <2>2. ThrottleTypeOK' /\ QuietInv'
    BY <1>2, Components, ThrottleStep DEF AccountInv
  <2> QED
    BY <1>2, <2>1, <2>2, WireStep, StateStep DEF AccountInv
<1> QED
  BY <1>1, <1>2

\* Every variable stays in its domain.
THEOREM AccountTypes == AccountSpec => []AccountTypeOK
<1>1. AccountInv => AccountTypeOK
  BY DEF AccountInv, AccountTypeOK, WireInv, StateOK
<1> QED
  BY <1>1, AccountInductive, PTL DEF AccountSpec

\* Each connection receives growing nonces (Account::create_query, shared by
\* all connections of the account).
THEOREM ConnectionsGrow == AccountSpec => []NoncesGrow
<1>1. AccountInv => NoncesGrow
  <2> SUFFICES ASSUME AccountInv, NEW c \in Connections, NEW j \in DOMAIN wire[c],
                      wire[c][j].status = "PENDING"
               PROVE  /\ wire[c][j].nonce > arrived[c]
                      /\ \A h \in 1 .. j - 1 : wire[c][h].nonce < wire[c][j].nonce
    BY DEF NoncesGrow
  <2>1. Orderly(wire[c], arrived[c], issued)
    BY DEF AccountInv, WireInv
  <2>2. \A h \in 1 .. j - 1 : h \in DOMAIN wire[c] /\ h < j
    BY <2>1 DEF Orderly
  <2> QED
    BY <2>1, <2>2 DEF Orderly
<1> QED
  BY <1>1, AccountInductive, PTL DEF AccountSpec

\* No request is sent in the minute after a 418, or after the first 429.
THEOREM SilenceIsKept == AccountSpec => SilenceKept
<1> DEFINE Kept == (\E c \in Connections : Len(wire'[c]) > Len(wire[c])) => quiet = 0
<1>1. AccountInv /\ [AccountNext]_vars => Kept
  <2> SUFFICES ASSUME AccountInv, [AccountNext]_vars,
                      NEW d \in Connections, Len(wire'[d]) > Len(wire[d]), quiet # 0
               PROVE  FALSE
    OBVIOUS
  <2>1. /\ Suspended
        /\ wire \in [Connections -> Seq(Entries)] /\ wire[d] \in Seq(Entries)
        /\ Len(wire[d]) \in Nat
    BY DEF AccountInv, ThrottleTypeOK, QuietInv, Suspended, WireInv
  <2>2. wire'[d] # wire[d]
    BY <2>1
  <2>3. ASSUME NEW c \in Connections, NEW kind, NEW k, Send(c, kind, k)
        PROVE  FALSE
    BY <2>1, <2>2, <2>3 DEF Send
  <2>4. ASSUME NEW c \in Connections, NEW status, Answer(c, status)
        PROVE  FALSE
    <3>1. PICK j \in DOMAIN wire[c] : wire' = [wire EXCEPT ![c][j] = Answered(@, status)]
      BY <2>4 DEF Answer
    <3>2. c = d /\ wire'[d] = [wire[d] EXCEPT ![j] = Answered(wire[d][j], status)]
      BY <2>1, <2>2, <3>1
    <3>3. DOMAIN wire'[d] = DOMAIN wire[d]
      BY <3>2
    <3> QED
      BY <2>1, <3>2, <3>3
  <2>5. ASSUME NEW c \in Connections, Deliver(c)
        PROVE  FALSE
    <3>1. c = d /\ wire[d] # <<>> /\ wire'[d] = Tail(wire[d])
      BY <2>1, <2>2, <2>5 DEF Deliver
    <3> QED
      BY <2>1, <3>1, TailElements
  <2>6. ASSUME NEW c \in Connections, Disconnected(c)
        PROVE  FALSE
    BY <2>1, <2>2, <2>6 DEF Disconnected
  <2>7. CASE StreamDown
    <3>1. wire'[d] = [j \in DOMAIN wire[d] |-> [wire[d][j] EXCEPT !.fresh = FALSE]]
      BY <2>7 DEF StreamDown
    <3>2. \A j \in DOMAIN wire[d] : [wire[d][j] EXCEPT !.fresh = FALSE] \in Entries
      BY <2>1, FadedEntry
    <3>3. wire'[d] \in [DOMAIN wire[d] -> Entries]
      BY <3>1, <3>2
    <3> QED
      BY <2>1, <3>3, MappedElements
  <2>8. CASE \E gone \in Absences : Restart(gone)
    BY <2>1, <2>8 DEF Restart
  <2>9. CASE \/ Tick \/ \E items \in SUBSET Items \ {{}} : Change(items)
             \/ AccountUpdate \/ StreamUp \/ UNCHANGED vars
    BY <2>2, <2>9 DEF Tick, Change, AccountUpdate, StreamUp, vars, rest
  <2>10. CASE \/ GetAccount
             \/ \E c \in Connections, k \in 1 .. Burst : OtherRequests(c, k)
    BY <2>3, <2>10, AccountAssumption DEF GetAccount, OtherRequests
  <2> QED
    BY <2>4, <2>5, <2>6, <2>7, <2>8, <2>9, <2>10 DEF AccountNext
<1> QED
  BY <1>1, AccountInductive, PTL DEF AccountSpec, SilenceKept

----------------------------------------------------------------------------
(* Funds and positions *)

Agreeing == Items \ Isolated

\* What clients were told of an item.
Told(i) == view[<<i, UpdateMode(i)>>]

\* The exchange's state of an item is told already, or by an event on its way.
Reachable(i) ==
  Told(i) = book[i] \/ \E j \in DOMAIN feed : i \in feed[j].items /\ feed[j].time = book[i]

\* An entry shows nothing that is later than the exchange, and a snapshot of
\* this session shows the exchange's state, or one that was overtaken by events
\* of this session.
Sound(e) ==
  /\ \A i \in Items : e.seen[i] <= book[i]
  /\ e.fresh => up /\ \A i \in Agreeing : e.seen[i] = book[i] \/ Reachable(i)

\* Nothing that was told or is on its way is later than the exchange.  In a
\* session whose snapshot was delivered, the state of every item is reachable.
BalanceInv ==
  /\ \A i \in Items : book[i] <= time
  /\ \A i \in Agreeing : Told(i) <= book[i]
  /\ \A j \in DOMAIN feed : \A i \in feed[j].items : feed[j].time <= book[i]
  /\ current => up /\ \A i \in Agreeing : Reachable(i)
  /\ \A c \in Connections : \A j \in DOMAIN wire[c] : Sound(wire[c][j])

LEMMA Typed ==
  ASSUME AccountInv
  PROVE  /\ time \in Nat /\ up \in BOOLEAN
         /\ \A i \in Items : book[i] \in Nat
         /\ \A i \in Agreeing : i \in Items /\ <<i, UpdateMode(i)>> \in Items \X Modes
                               /\ Told(i) \in Nat /\ AckMode(i) = UpdateMode(i)
         /\ \A j \in DOMAIN feed : feed[j].time \in Nat /\ feed[j].items \subseteq Items
         /\ \A c \in Connections : wire[c] \in Seq(Entries)
         /\ \A e \in Entries : \A i \in Items : e.seen[i] \in Nat
<1>1. \A i \in Agreeing : /\ i \in Items /\ <<i, UpdateMode(i)>> \in Items \X Modes
                          /\ AckMode(i) = UpdateMode(i)
  BY DEF Agreeing, Items, Modes, UpdateMode, AckMode
<1>2. \A i \in Agreeing : Told(i) \in Nat
  BY <1>1 DEF AccountInv, StateOK, Told
<1>3. \A j \in DOMAIN feed : feed[j].time \in Nat /\ feed[j].items \subseteq Items
  <2> DEFINE Events == [items : SUBSET Items, time : Nat]
  <2>1. feed \in Seq(Events)
    BY DEF AccountInv, StateOK
  <2>2. \A m \in Events : m.time \in Nat /\ m.items \subseteq Items
    OBVIOUS
  <2> HIDE DEF Events
  <2>3. \A j \in DOMAIN feed : feed[j] \in Events
    BY <2>1
  <2> QED
    BY <2>2, <2>3
<1>4. \A e \in Entries : \A i \in Items : e.seen[i] \in Nat
  BY DEF Entries, Snapshot
<1> QED
  BY <1>1, <1>2, <1>3, <1>4 DEF AccountInv, StateOK, WireInv, Snapshot

\* Where an entry on a connection comes from.
LEMMA EntryFrom ==
  ASSUME AccountInv, [AccountNext]_vars,
         NEW c \in Connections, NEW j \in DOMAIN wire'[c]
  PROVE  \/ \E h \in DOMAIN wire[c] : /\ wire'[c][j].fresh = wire[c][h].fresh
                                       /\ wire'[c][j].seen = wire[c][h].seen
         \/ ~wire'[c][j].fresh /\ wire'[c][j].seen = Nothing /\ UNCHANGED account
         \/ wire'[c][j].fresh = up /\ wire'[c][j].seen = book /\ UNCHANGED account
         \/ ~wire'[c][j].fresh /\ \E h \in DOMAIN wire[c] : wire'[c][j].seen = wire[c][h].seen
<1> DEFINE Goal ==
         \/ \E h \in DOMAIN wire[c] : /\ wire'[c][j].fresh = wire[c][h].fresh
                                       /\ wire'[c][j].seen = wire[c][h].seen
         \/ ~wire'[c][j].fresh /\ wire'[c][j].seen = Nothing /\ UNCHANGED account
         \/ wire'[c][j].fresh = up /\ wire'[c][j].seen = book /\ UNCHANGED account
         \/ ~wire'[c][j].fresh /\ \E h \in DOMAIN wire[c] : wire'[c][j].seen = wire[c][h].seen
<1>1. wire \in [Connections -> Seq(Entries)] /\ wire[c] \in Seq(Entries)
  BY DEF AccountInv, WireInv
<1>2. CASE wire'[c] = wire[c]
  BY <1>2
<1>3. ASSUME NEW d \in Connections, NEW kind, NEW k \in 1 .. Burst, Send(d, kind, k), wire'[c] # wire[c]
      PROVE  Goal
  <2>1. PICK origin \in low .. high :
           wire' = IF Suspended THEN wire
                   ELSE [wire EXCEPT ![d] = @ \o [h \in 1 .. k |->
                           [nonce |-> First(origin) + h - 1, kind |-> kind,
                            status |-> "PENDING", fresh |-> FALSE, seen |-> Nothing]]]
    BY <1>3 DEF Send
  <2> DEFINE r == [h \in 1 .. k |->
                     [nonce |-> First(origin) + h - 1, kind |-> kind,
                      status |-> "PENDING", fresh |-> FALSE, seen |-> Nothing]]
             S == Entries \cup {r[h] : h \in 1 .. k}
  <2>2. wire'[c] = wire[c] \o r
    BY <2>1, <1>1, <1>3
  <2>3. k \in Nat /\ r \in [1 .. k -> S] /\ wire[c] \in Seq(S)
    <3>1. k \in Nat
      BY SigningAssumption
    <3>2. r \in [1 .. k -> S]
      OBVIOUS
    <3>3. wire[c] \in Seq(S)
      <4>1. Entries \subseteq S
        OBVIOUS
      <4> HIDE DEF S
      <4> QED
        BY <4>1, <1>1, WiderSequence
    <3> HIDE DEF r, S
    <3> QED
      BY <3>1, <3>2, <3>3
  <2>4. \A h \in 1 .. k : ~r[h].fresh /\ r[h].seen = Nothing
    OBVIOUS
  <2> HIDE DEF r, S
  <2>5. r \in Seq(S) /\ DOMAIN r = 1 .. k
    BY <2>3
  <2>6. \/ j \in DOMAIN wire[c] /\ wire'[c][j] = wire[c][j]
        \/ j - Len(wire[c]) \in 1 .. k /\ wire'[c][j] = r[j - Len(wire[c])]
    BY <2>2, <2>3, <2>5, JoinedElements
  <2> QED
    BY <2>4, <2>6, <1>3 DEF Send
<1>4. ASSUME NEW d \in Connections, NEW status \in Statuses, Answer(d, status), wire'[c] # wire[c]
      PROVE  Goal
  <2>1. PICK h \in DOMAIN wire[d] : wire' = [wire EXCEPT ![d][h] = Answered(@, status)]
    BY <1>4 DEF Answer
  <2>2. c = d /\ wire'[c] = [wire[c] EXCEPT ![h] = Answered(wire[c][h], status)]
    BY <1>1, <1>4, <2>1
  <2>3. j \in DOMAIN wire[c] /\ wire'[c][j] = IF j = h THEN Answered(wire[c][h], status) ELSE wire[c][j]
    BY <2>2
  <2>4. wire[c][h] \in Entries /\ h \in DOMAIN wire[c]
    BY <1>1, <2>1, <2>2
  <2>5. \/ Answered(wire[c][h], status).fresh = up /\ Answered(wire[c][h], status).seen = book
        \/ /\ Answered(wire[c][h], status).fresh = wire[c][h].fresh
           /\ Answered(wire[c][h], status).seen = wire[c][h].seen
    BY <2>4 DEF Answered, Entries
  <2> QED
    BY <2>3, <2>4, <2>5, <1>4 DEF Answer
<1>5. ASSUME NEW d \in Connections, Deliver(d), wire'[c] # wire[c]
      PROVE  Goal
  <2>1. c = d /\ wire[c] # <<>> /\ wire'[c] = Tail(wire[c])
    BY <1>1, <1>5 DEF Deliver
  <2> QED
    BY <2>1, <1>1, TailElements
<1>6. ASSUME NEW d \in Connections, Disconnected(d), wire'[c] # wire[c]
      PROVE  Goal
  BY <1>1, <1>6 DEF Disconnected
<1>7. CASE StreamDown
  <2>1. wire'[c] = [h \in DOMAIN wire[c] |-> [wire[c][h] EXCEPT !.fresh = FALSE]]
    BY <1>7 DEF StreamDown
  <2>2. j \in DOMAIN wire[c] /\ wire'[c][j] = [wire[c][j] EXCEPT !.fresh = FALSE]
    BY <2>1
  <2>3. wire[c][j] \in Entries
    BY <1>1, <2>2
  <2>4. ~wire'[c][j].fresh /\ wire'[c][j].seen = wire[c][j].seen
    BY <2>2, <2>3 DEF Entries
  <2> QED
    BY <2>2, <2>4
<1>8. CASE \E gone \in Absences : Restart(gone)
  BY <1>1, <1>8 DEF Restart
<1>9. CASE \/ Tick \/ \E items \in SUBSET Items \ {{}} : Change(items)
           \/ AccountUpdate \/ StreamUp \/ UNCHANGED vars
  BY <1>2, <1>9 DEF Tick, Change, AccountUpdate, StreamUp, vars, rest
<1>10. CASE \/ GetAccount
            \/ \E d \in Connections, k \in 1 .. Burst : OtherRequests(d, k)
  BY <1>2, <1>3, <1>10, AccountAssumption, SigningAssumption DEF GetAccount, OtherRequests
<1> QED
  BY <1>2, <1>4, <1>5, <1>6, <1>7, <1>8, <1>9, <1>10 DEF AccountNext

LEMMA AckBalances ==
  ASSUME AccountInv, BalanceInv, NEW c \in Connections, Deliver(c)
  PROVE  /\ \A i \in Agreeing : Told(i)' <= book[i] /\ (Reachable(i) => Reachable(i)')
         /\ current' => up /\ \A i \in Agreeing : Reachable(i)'
<1> DEFINE e == Head(wire[c])
<1>1. e \in Entries /\ 1 \in DOMAIN wire[c] /\ e = wire[c][1]
  BY TailElements DEF AccountInv, WireInv, Deliver
<1>2. Sound(e)
  BY <1>1 DEF BalanceInv
<1>3. /\ view' = [key \in Items \X Modes |->
                   IF AckHandled(e) /\ key[2] = AckMode(key[1])
                   THEN Later(view[key], AckTime(e, key[1])) ELSE view[key]]
      /\ current' = (current \/ (AckHandled(e) /\ e.fresh))
      /\ book' = book /\ feed' = feed
  BY DEF Deliver
<1> HIDE DEF e
<1>4. ASSUME NEW i \in Agreeing
      PROVE  /\ Told(i)' = IF AckHandled(e) THEN Later(Told(i), e.seen[i]) ELSE Told(i)
             /\ Told(i) \in Nat /\ e.seen[i] \in Nat /\ book[i] \in Nat
             /\ Told(i) <= book[i] /\ e.seen[i] <= book[i]
  <2>1. /\ i \in Items /\ <<i, UpdateMode(i)>> \in Items \X Modes /\ AckMode(i) = UpdateMode(i)
        /\ Told(i) \in Nat /\ e.seen[i] \in Nat /\ book[i] \in Nat
    BY <1>1, Typed
  <2>2. Told(i)' = IF AckHandled(e) THEN Later(Told(i), e.seen[i]) ELSE Told(i)
    BY <1>3, <2>1 DEF Told, AckTime
  <2> QED
    BY <1>2, <2>1, <2>2 DEF BalanceInv, Sound
<1>5. ASSUME NEW i \in Agreeing
      PROVE  /\ Told(i)' <= book[i]
             /\ Told(i) = book[i] => Told(i)' = book[i]
             /\ AckHandled(e) /\ e.seen[i] = book[i] => Told(i)' = book[i]
  BY <1>4 DEF Later
<1>6. ASSUME NEW i \in Agreeing, Reachable(i)
      PROVE  Reachable(i)'
  BY <1>3, <1>5, <1>6 DEF Reachable
<1>7. ASSUME AckHandled(e), e.fresh
      PROVE  up /\ \A i \in Agreeing : Reachable(i)'
  <2>1. up /\ \A i \in Agreeing : e.seen[i] = book[i] \/ Reachable(i)
    BY <1>2, <1>7 DEF Sound
  <2>2. \A i \in Agreeing : e.seen[i] = book[i] => Reachable(i)'
    BY <1>3, <1>5, <1>7 DEF Reachable
  <2> QED
    BY <2>1, <2>2, <1>6
<1> QED
  BY <1>3, <1>5, <1>6, <1>7 DEF BalanceInv

LEMMA UpdateBalances ==
  ASSUME AccountInv, BalanceInv, AccountUpdate
  PROVE  /\ \A i \in Agreeing : Told(i)' <= book[i] /\ (Reachable(i) => Reachable(i)')
         /\ \A j \in DOMAIN feed' : \A i \in feed'[j].items : feed'[j].time <= book[i]
<1> DEFINE m      == Head(feed)
           Events == [items : SUBSET Items, time : Nat]
<1>1. feed \in Seq(Events) /\ feed # <<>>
  BY DEF AccountInv, StateOK, AccountUpdate
<1> HIDE DEF Events
<1>2. /\ 1 \in DOMAIN feed /\ m = feed[1]
      /\ \A j \in DOMAIN Tail(feed) : j + 1 \in DOMAIN feed /\ Tail(feed)[j] = feed[j + 1]
      /\ \A j \in DOMAIN feed : j # 1 => j - 1 \in DOMAIN Tail(feed) /\ Tail(feed)[j - 1] = feed[j]
  BY <1>1
<1>3. /\ view' = [key \in Items \X Modes |->
                   IF key[1] \in m.items /\ key[2] = UpdateMode(key[1])
                   THEN Later(view[key], UpdateTime(m)) ELSE view[key]]
      /\ book' = book /\ feed' = Tail(feed)
  BY DEF AccountUpdate
<1> HIDE DEF m
<1>4. ASSUME NEW i \in Agreeing
      PROVE  /\ Told(i)' = IF i \in m.items THEN Later(Told(i), m.time) ELSE Told(i)
             /\ Told(i) \in Nat /\ m.time \in Nat /\ book[i] \in Nat
             /\ Told(i) <= book[i] /\ (i \in m.items => m.time <= book[i])
  <2>1. /\ i \in Items /\ <<i, UpdateMode(i)>> \in Items \X Modes
        /\ Told(i) \in Nat /\ m.time \in Nat /\ book[i] \in Nat
    BY <1>2, Typed
  <2>2. Told(i)' = IF i \in m.items THEN Later(Told(i), m.time) ELSE Told(i)
    BY <1>3, <2>1 DEF Told, UpdateTime
  <2> QED
    BY <1>2, <2>1, <2>2 DEF BalanceInv
<1>5. ASSUME NEW i \in Agreeing
      PROVE  /\ Told(i)' <= book[i]
             /\ Told(i) = book[i] => Told(i)' = book[i]
             /\ i \in m.items /\ m.time = book[i] => Told(i)' = book[i]
  BY <1>4 DEF Later
<1>6. ASSUME NEW i \in Agreeing, Reachable(i)
      PROVE  Reachable(i)'
  <2>1. CASE Told(i) = book[i]
    BY <2>1, <1>3, <1>5 DEF Reachable
  <2>2. ASSUME NEW j \in DOMAIN feed, i \in feed[j].items, feed[j].time = book[i]
        PROVE  Reachable(i)'
    <3>1. CASE j = 1
      BY <3>1, <2>2, <1>2, <1>3, <1>5 DEF Reachable
    <3>2. CASE j # 1
      <4>1. j - 1 \in DOMAIN feed' /\ feed'[j - 1] = feed[j]
        BY <3>2, <1>2, <1>3
      <4> QED
        BY <4>1, <2>2, <1>3 DEF Reachable
    <3> QED
      BY <3>1, <3>2
  <2> QED
    BY <2>1, <2>2, <1>6 DEF Reachable
<1>7. ASSUME NEW j \in DOMAIN feed', NEW i \in feed'[j].items
      PROVE  feed'[j].time <= book[i]
  BY <1>2, <1>3, <1>7 DEF BalanceInv
<1> QED
  BY <1>5, <1>6, <1>7

LEMMA ChangeBalances ==
  ASSUME AccountInv, BalanceInv, NEW items \in SUBSET Items \ {{}}, Change(items)
  PROVE  /\ \A i \in Items : book[i] <= book'[i] /\ book'[i] <= time'
         /\ \A i \in Agreeing : Told(i)' <= book'[i]
         /\ \A j \in DOMAIN feed' : \A i \in feed'[j].items : feed'[j].time <= book'[i]
         /\ up => \A i \in Agreeing : /\ Reachable(i) => Reachable(i)'
                                      /\ book[i] = book'[i] \/ Reachable(i)'
<1> DEFINE m      == [items |-> items, time |-> time + 1]
           Events == [items : SUBSET Items, time : Nat]
<1>1. feed \in Seq(Events) /\ m \in Events
  BY Typed DEF AccountInv, StateOK
<1> HIDE DEF Events
<1>2. /\ time' = time + 1
      /\ book' = [i \in Items |-> IF i \in items THEN time + 1 ELSE book[i]]
      /\ feed' = IF up THEN Append(feed, m) ELSE feed
      /\ view' = view
  BY DEF Change
<1>3. m.items = items /\ m.time = time + 1
  OBVIOUS
<1> HIDE DEF m
<1>4. ASSUME NEW i \in Items
      PROVE  /\ book[i] \in Nat /\ time \in Nat /\ book[i] <= time
             /\ book'[i] = IF i \in items THEN time + 1 ELSE book[i]
             /\ book[i] <= book'[i] /\ book'[i] <= time'
  <2>1. book[i] \in Nat /\ time \in Nat /\ book[i] <= time
    BY Typed DEF BalanceInv
  <2>2. book'[i] = IF i \in items THEN time + 1 ELSE book[i]
    BY <1>2
  <2> QED
    BY <2>1, <2>2, <1>2
<1>5. \A i \in Agreeing : Told(i)' = Told(i) /\ Told(i) \in Nat /\ Told(i) <= book[i] /\ i \in Items
  BY <1>2, Typed DEF Told, BalanceInv
<1>6. \A i \in Agreeing : Told(i)' <= book'[i]
  <2> SUFFICES ASSUME NEW i \in Agreeing
               PROVE  Told(i)' <= book'[i]
    OBVIOUS
  <2>1. \A x, y, z \in Nat : x <= y /\ y <= z => x <= z
    OBVIOUS
  <2>2. book'[i] \in Nat
    BY <1>4, <1>5
  <2> QED
    BY <2>1, <2>2, <1>4, <1>5
<1>7. ASSUME NEW j \in DOMAIN feed', NEW i \in feed'[j].items
      PROVE  feed'[j].time <= book'[i]
  <2>1. CASE j \in DOMAIN feed /\ feed'[j] = feed[j]
    <3>1. feed[j].time <= book[i] /\ i \in Items /\ feed[j].time \in Nat
      BY <2>1, <1>7, Typed DEF BalanceInv
    <3>2. book[i] \in Nat /\ book'[i] \in Nat /\ book[i] <= book'[i]
      BY <1>4, <3>1
    <3> QED
      BY <2>1, <3>1, <3>2
  <2>2. CASE feed'[j] = m
    BY <2>2, <1>2, <1>3, <1>4, <1>7
  <2>3. \/ j \in DOMAIN feed /\ feed'[j] = feed[j]
        \/ feed'[j] = m
    BY <1>1, <1>2, <1>7
  <2> QED
    BY <2>1, <2>2, <2>3
<1>8. ASSUME up, NEW i \in Agreeing
      PROVE  /\ i \in items => Reachable(i)'
             /\ i \notin items /\ Reachable(i) => Reachable(i)'
  <2>1. /\ Len(feed) + 1 \in DOMAIN feed' /\ feed'[Len(feed) + 1] = m
        /\ \A j \in DOMAIN feed : j \in DOMAIN feed' /\ feed'[j] = feed[j]
    BY <1>1, <1>2, <1>8
  <2>2. i \in Items
    BY <1>5
  <2>3. ASSUME i \in items
        PROVE  Reachable(i)'
    BY <2>1, <2>2, <2>3, <1>3, <1>4 DEF Reachable
  <2>4. ASSUME i \notin items, Reachable(i)
        PROVE  Reachable(i)'
    BY <2>1, <2>2, <2>4, <1>4, <1>5 DEF Reachable
  <2> QED
    BY <2>3, <2>4
<1> QED
  BY <1>4, <1>5, <1>6, <1>7, <1>8

\* Snapshots on their way stay sound while the exchange moves on in a way
\* that keeps what is reachable.
LEMMA SoundStays ==
  ASSUME AccountInv, AccountInv', BalanceInv, [AccountNext]_vars, up' = up,
         \A i \in Items : book[i] <= book'[i],
         up => \A i \in Agreeing : /\ Reachable(i) => Reachable(i)'
                                   /\ book[i] = book'[i] \/ Reachable(i)'
  PROVE  \A c \in Connections : \A j \in DOMAIN wire'[c] : Sound(wire[c][j])'
<1> SUFFICES ASSUME NEW c \in Connections, NEW j \in DOMAIN wire'[c]
             PROVE  Sound(wire[c][j])'
  OBVIOUS
<1>1. \A x, y, z \in Nat : x <= y /\ y <= z => x <= z
  OBVIOUS
<1>2. \A i \in Items : book[i] \in Nat /\ book'[i] \in Nat
  BY Typed DEF AccountInv, StateOK, Snapshot
<1>3. \A h \in DOMAIN wire[c] : wire[c][h] \in Entries /\ Sound(wire[c][h])
  BY Typed DEF BalanceInv
<1>4. Agreeing \subseteq Items
  BY DEF Agreeing
<1>5. ASSUME NEW h \in DOMAIN wire[c], wire'[c][j].seen = wire[c][h].seen
      PROVE  \A i \in Items : wire'[c][j].seen[i] <= book'[i]
  <2> SUFFICES ASSUME NEW i \in Items
               PROVE  wire[c][h].seen[i] <= book'[i]
    BY <1>5
  <2>1. wire[c][h].seen[i] \in Nat /\ wire[c][h].seen[i] <= book[i]
    BY <1>3, Typed DEF Sound
  <2> QED
    BY <2>1, <1>1, <1>2
<1>6. ASSUME NEW h \in DOMAIN wire[c], wire'[c][j].seen = wire[c][h].seen,
             wire'[c][j].fresh = wire[c][h].fresh
      PROVE  Sound(wire[c][j])'
  <2>1. wire[c][h].fresh => up /\ \A i \in Agreeing : wire[c][h].seen[i] = book[i] \/ Reachable(i)
    BY <1>3 DEF Sound
  <2>2. ASSUME wire'[c][j].fresh
        PROVE  up' /\ \A i \in Agreeing : wire'[c][j].seen[i] = book'[i] \/ Reachable(i)'
    <3>1. up /\ \A i \in Agreeing : wire[c][h].seen[i] = book[i] \/ Reachable(i)
      BY <1>6, <2>1, <2>2
    <3>2. \A i \in Agreeing : wire[c][h].seen[i] = book'[i] \/ Reachable(i)'
      BY <3>1
    <3> QED
      BY <3>1, <3>2, <1>6
  <2> QED
    BY <2>2, <1>5, <1>6 DEF Sound
<1>7. ASSUME NEW h \in DOMAIN wire[c], wire'[c][j].seen = wire[c][h].seen,
             ~wire'[c][j].fresh
      PROVE  Sound(wire[c][j])'
  BY <1>5, <1>7 DEF Sound
<1>8. CASE ~wire'[c][j].fresh /\ wire'[c][j].seen = Nothing
  BY <1>2, <1>8 DEF Sound, Nothing
<1>9. CASE wire'[c][j].fresh = up /\ wire'[c][j].seen = book /\ UNCHANGED account
  <2>1. book' = book
    BY <1>9 DEF account
  <2> QED
    BY <2>1, <1>2, <1>4, <1>9 DEF Sound
<1> QED
  BY <1>6, <1>7, <1>8, <1>9, EntryFrom

\* Every step keeps what is reachable reachable.
LEMMA BalanceStep ==
  ASSUME AccountInv, AccountInv', BalanceInv, [AccountNext]_vars
  PROVE  BalanceInv'
<1> DEFINE AllSound == \A c \in Connections : \A j \in DOMAIN wire'[c] : Sound(wire[c][j])'
<1>1. ASSUME UNCHANGED account
      PROVE  BalanceInv'
  <2>1. /\ book' = book /\ time' = time /\ feed' = feed /\ view' = view
        /\ up' = up /\ current' = current
    BY <1>1 DEF account, stream
  <2>2. \A i \in Agreeing : Told(i)' = Told(i) /\ (Reachable(i)' <=> Reachable(i))
    BY <2>1 DEF Told, Reachable
  <2>3. \A i \in Items : book[i] <= book'[i]
    BY <2>1, Typed
  <2>4. AllSound
    BY <2>1, <2>2, <2>3, SoundStays
  <2> QED
    BY <2>1, <2>2, <2>4 DEF BalanceInv
<1>2. ASSUME NEW c \in Connections, Deliver(c)
      PROVE  BalanceInv'
  <2>1. book' = book /\ time' = time /\ feed' = feed /\ up' = up
    BY <1>2 DEF Deliver
  <2>2. /\ \A i \in Agreeing : Told(i)' <= book[i] /\ (Reachable(i) => Reachable(i)')
        /\ current' => up /\ \A i \in Agreeing : Reachable(i)'
    BY <1>2, AckBalances
  <2>3. \A i \in Items : book[i] <= book'[i]
    BY <2>1, Typed
  <2>4. AllSound
    BY <2>1, <2>2, <2>3, SoundStays
  <2> QED
    BY <2>1, <2>2, <2>4 DEF BalanceInv
<1>3. ASSUME AccountUpdate
      PROVE  BalanceInv'
  <2>1. book' = book /\ time' = time /\ up' = up /\ current' = current
    BY <1>3 DEF AccountUpdate
  <2>2. /\ \A i \in Agreeing : Told(i)' <= book[i] /\ (Reachable(i) => Reachable(i)')
        /\ \A j \in DOMAIN feed' : \A i \in feed'[j].items : feed'[j].time <= book[i]
    BY <1>3, UpdateBalances
  <2>3. \A i \in Items : book[i] <= book'[i]
    BY <2>1, Typed
  <2>4. AllSound
    BY <2>1, <2>2, <2>3, SoundStays
  <2> QED
    BY <2>1, <2>2, <2>4 DEF BalanceInv
<1>4. ASSUME NEW items \in SUBSET Items \ {{}}, Change(items)
      PROVE  BalanceInv'
  <2>1. up' = up /\ current' = current
    BY <1>4 DEF Change
  <2>2. /\ \A i \in Items : book[i] <= book'[i] /\ book'[i] <= time'
        /\ \A i \in Agreeing : Told(i)' <= book'[i]
        /\ \A j \in DOMAIN feed' : \A i \in feed'[j].items : feed'[j].time <= book'[i]
        /\ up => \A i \in Agreeing : /\ Reachable(i) => Reachable(i)'
                                     /\ book[i] = book'[i] \/ Reachable(i)'
    BY <1>4, ChangeBalances
  <2>3. AllSound
    BY <2>1, <2>2, SoundStays
  <2>4. current' => up' /\ \A i \in Agreeing : Reachable(i)'
    BY <2>1, <2>2 DEF BalanceInv
  <2> QED
    BY <2>2, <2>3, <2>4 DEF BalanceInv
<1>5. ASSUME StreamUp
      PROVE  BalanceInv'
  <2>1. /\ book' = book /\ time' = time /\ feed' = feed /\ view' = view
        /\ wire' = wire /\ ~up /\ up' /\ current' = current
    BY <1>5 DEF StreamUp, rest
  <2>2. \A i \in Agreeing : Told(i)' = Told(i)
    BY <2>1 DEF Told
  <2>3. ~current
    BY <2>1 DEF BalanceInv
  <2>4. \A c \in Connections : \A j \in DOMAIN wire[c] :
          ~wire[c][j].fresh /\ \A i \in Items : wire[c][j].seen[i] <= book[i]
    BY <2>1 DEF BalanceInv, Sound
  <2>5. AllSound
    BY <2>1, <2>4 DEF Sound
  <2> QED
    BY <2>1, <2>2, <2>3, <2>5 DEF BalanceInv
<1>6. ASSUME StreamDown
      PROVE  BalanceInv'
  <2>1. /\ book' = book /\ time' = time /\ view' = view /\ feed' = <<>> /\ ~current'
        /\ wire' = [c \in Connections |-> [j \in DOMAIN wire[c] |-> [wire[c][j] EXCEPT !.fresh = FALSE]]]
    BY <1>6 DEF StreamDown
  <2>2. \A i \in Agreeing : Told(i)' = Told(i)
    BY <2>1 DEF Told
  <2>3. ASSUME NEW c \in Connections, NEW j \in DOMAIN wire'[c]
        PROVE  Sound(wire[c][j])'
    <3>1. j \in DOMAIN wire[c] /\ wire'[c][j] = [wire[c][j] EXCEPT !.fresh = FALSE]
      BY <2>1
    <3>2. wire[c][j] \in Entries
      BY <3>1, Typed
    <3>3. ~wire'[c][j].fresh /\ wire'[c][j].seen = wire[c][j].seen
      BY <3>1, <3>2 DEF Entries
    <3> QED
      BY <2>1, <3>1, <3>3 DEF BalanceInv, Sound
  <2>4. AllSound
    BY <2>3
  <2>5. /\ \A i \in Items : book[i] <= time
        /\ \A i \in Agreeing : Told(i) <= book[i]
    BY DEF BalanceInv
  <2>6. /\ \A i \in Items : book'[i] <= time'
        /\ \A i \in Agreeing : Told(i)' <= book'[i]
        /\ \A j \in DOMAIN feed' : \A i \in feed'[j].items : feed'[j].time <= book'[i]
    BY <2>1, <2>2, <2>5
  <2> HIDE DEF AllSound
  <2> QED
    BY <2>1, <2>4, <2>6 DEF BalanceInv, AllSound
<1>7. ASSUME NEW d \in Absences, Restart(d)
      PROVE  BalanceInv'
  <2>1. /\ book' = book /\ time' = time /\ feed' = <<>> /\ ~current'
        /\ wire' = [c \in Connections |-> <<>>]
        /\ view' = [key \in Items \X Modes |-> 0]
    BY <1>7 DEF Restart
  <2>2. \A i \in Agreeing : Told(i)' = 0 /\ 0 <= book[i]
    BY <2>1, Typed DEF Told
  <2> QED
    BY <2>1, <2>2 DEF BalanceInv
<1>8. ASSUME NEW c \in Connections, Disconnected(c)
      PROVE  BalanceInv'
  BY <1>1, <1>8 DEF Disconnected
<1>9. ASSUME NEW c \in Connections, NEW status \in Statuses, Answer(c, status)
      PROVE  BalanceInv'
  BY <1>1, <1>9 DEF Answer
<1>10. ASSUME NEW c \in Connections, NEW kind, NEW k, Send(c, kind, k)
       PROVE  BalanceInv'
  BY <1>1, <1>10 DEF Send
<1>11. CASE GetAccount \/ \E c \in Connections, k \in 1 .. Burst : OtherRequests(c, k)
  BY <1>10, <1>11, AccountAssumption DEF GetAccount, OtherRequests
<1>12. CASE Tick \/ UNCHANGED vars
  BY <1>1, <1>12 DEF Tick, vars
<1> QED
  BY <1>2, <1>3, <1>4, <1>5, <1>6, <1>7, <1>8, <1>9, <1>11, <1>12 DEF AccountNext

\* A client has the exchange's state of the account once a snapshot of the
\* session and all events are delivered, whatever came first
\* (OrderEntry: AccountAck, DropCopy: AccountUpdate).
THEOREM BalancesAgree == AccountSpec => []BalancesConverge
<1>1. AccountInit => AccountInv /\ BalanceInv
  <2> SUFFICES ASSUME AccountInit
               PROVE  AccountInv /\ BalanceInv
    OBVIOUS
  <2>1. AccountInv
    BY AccountInductive
  <2>2. /\ book = Nothing /\ time = 0 /\ feed = <<>> /\ ~current
        /\ wire = [c \in Connections |-> <<>>]
        /\ view = [key \in Items \X Modes |-> 0]
    BY DEF AccountInit
  <2>3. \A i \in Items : book[i] = 0
    BY <2>2 DEF Nothing
  <2>4. \A i \in Agreeing : Told(i) = 0 /\ i \in Items
    BY <2>1, <2>2, Typed DEF Told
  <2> QED
    BY <2>1, <2>2, <2>3, <2>4 DEF BalanceInv
<1>2. AccountInv /\ BalanceInv /\ [AccountNext]_vars => (AccountInv /\ BalanceInv)'
  BY AccountInductive, BalanceStep
<1>3. AccountInv /\ BalanceInv => BalancesConverge
  BY DEF BalanceInv, BalancesConverge, Reachable, Told, Agreeing
<1> QED
  BY <1>1, <1>2, <1>3, PTL DEF AccountSpec
=============================================================================
