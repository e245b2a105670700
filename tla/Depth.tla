--------------------------------- MODULE Depth ---------------------------------
(***************************************************************************)
(* The order book of one instrument.                                       *)
(*   MarketData  receives depth updates on its web socket,                 *)
(*   Rest        works off the queue of depth requests of Shared and       *)
(*               receives snapshots,                                       *)
(*   Instrument  holds the sequencer both of them feed.                    *)
(* What reaches clients is a snapshot, then updates that follow each other *)
(* without a gap. Neither connection knows of the other: snapshots are     *)
(* late, too old, asked for twice or lost, and sessions lose updates.      *)
(* A book maps a price level to the version of its last change.            *)
(* market::mbp::Sequencer is outside the repository: it is modelled by     *)
(* what the callbacks, arguments and exceptions of its callers require.    *)
(***************************************************************************)
EXTENDS Naturals, Sequences, FiniteSetsExt

CONSTANTS
  Levels,      \* price levels
  MaxRetries,  \* ws.mbp_request_max_retries, 0 for no limit
  MaxVersion,  \* bound: changes of the exchange's book
  MaxDrops     \* bound: connections lost

ASSUME LevelsAssumption == Levels # {}
ASSUME BoundsAssumption == MaxRetries \in Nat /\ MaxVersion \in Nat /\ MaxDrops \in Nat

VARIABLES
  hist,      \* the exchange: the level that each of its versions changed
  sent,      \* the exchange: last version a depth update told
  up,        \* is the web socket of MarketData ready?
  wire,      \* depth updates on their way on it
  rest,      \* is Rest READY?
  asked,     \* depth requests on their way
  answers,   \* versions of the snapshots on their way
  queue,     \* entries of depth_request_queue
  sequencer, \* state of the sequencer
  book,      \* the book as clients see it
  bookSeq,   \* and its exchange_sequence
  received,  \* history: last version of the depth updates received
  failed,    \* history: a depth request failed, and none was queued since
  dead,      \* log::fatal was called: the gateway takes no step any more
  drops      \* connections lost so far

exchangeVars == <<hist, sent>>
streamVars   == <<up, wire>>
restVars     == <<rest, asked, answers>>
bookVars     == <<sequencer, book, bookSeq>>
vars == <<exchangeVars, streamVars, restVars, queue, bookVars, received, failed, dead, drops>>

----------------------------------------------------------------------------
(* Versions of the book *)

Version == Len(hist)

\* The last version up to `v` that changed level `l`, 0 if there is none.
LastChange(l, v) ==
  CHOOSE n \in 0 .. v : /\ n # 0 => hist[n] = l
                        /\ \A m \in n + 1 .. v : hist[m] # l

\* A snapshot of version `v`.
BookAt(v) == [l \in Levels |-> LastChange(l, v)]

Updates == [prev : 0 .. MaxVersion, last : 0 .. MaxVersion]

\* An update tells of the levels that changed after `prev`, up to `last`.
Names(u, l) == \E n \in u.prev + 1 .. u.last : hist[n] = l

\* Merge an update: a level it names is replaced, others stay.
Merge(b, u) == [l \in Levels |-> IF Names(u, l) THEN LastChange(l, u.last) ELSE b[l]]

----------------------------------------------------------------------------
(* The sequencer *)

None == MaxVersion + 1

Sequencers ==
  [synced : BOOLEAN, last : 0 .. MaxVersion, cached : Seq(Updates),
   held : 0 .. None, retries : Nat]

\* After clear(): nothing cached, no snapshot held.
Cleared == [synced |-> FALSE, last |-> 0, cached |-> <<>>, held |-> None, retries |-> 0]

\* BadState is thrown for an update that does not follow the one before.
Gap(s, u) ==
  IF s.synced THEN u.prev # s.last
  ELSE s.cached # <<>> /\ u.prev # s.cached[Len(s.cached)].last

\* What a call does next is told by `out`; a snapshot is published with the
\* updates that apply() adds to it.
Call(s, out, snapshot, rest_of) ==
  [state |-> s, out |-> out, snapshot |-> snapshot, updates |-> rest_of]

Quiet(s) == Call(s, "NONE", None, <<>>)
Again(s) == Call([s EXCEPT !.retries = @ + 1], "REQUEST", None, <<>>)

\* The cached updates that go beyond version `v`.
Beyond(cached, v) ==
  SubSeq(cached, Min({k \in DOMAIN cached : cached[k].last > v} \cup {Len(cached) + 1}),
         Len(cached))

\* With a snapshot held: join it to the updates that go beyond it. One that is
\* older than all of them is of no use, and another is requested.
Join(s) ==
  LET kept == Beyond(s.cached, s.held) IN
  IF kept = <<>> THEN Quiet([s EXCEPT !.cached = <<>>])
  ELSE IF kept[1].prev > s.held THEN Again([s EXCEPT !.held = None])
  ELSE Call([Cleared EXCEPT !.synced = TRUE, !.last = kept[Len(kept)].last],
            "SNAPSHOT", s.held, kept)

\* An update that follows: published if there is a snapshot already, else
\* cached. The first one cached requests a snapshot, and so may later ones when
\* sequencer_timeout has passed.
OnUpdate(s, u, late) ==
  LET t == [s EXCEPT !.cached = Append(@, u)] IN
  IF s.synced THEN Call([s EXCEPT !.last = u.last], "UPDATE", None, <<u>>)
  ELSE IF s.held # None THEN Join(t)
  ELSE IF s.cached = <<>> THEN Call(t, "REQUEST", None, <<>>)
  ELSE IF late THEN Again(t)
  ELSE Quiet(t)

\* A snapshot nobody waits for is ignored.
OnSnapshot(s, v) == IF s.synced THEN Quiet(s) ELSE Join([s EXCEPT !.held = v])

----------------------------------------------------------------------------
(* The callbacks of MarketData and Rest *)

PublishUpdate_FirstId(u) ==  \* mutant: the first update id is published
  /\ book' = Merge(book, u)
  /\ bookSeq' = u.prev + 1

\* publish_update: UpdateType::INCREMENTAL.
PublishUpdate(u) ==
  /\ book' = Merge(book, u)
  /\ bookSeq' = u.last

Applied_None(v, updates) == BookAt(v)  \* mutant: cached updates are not applied

\* The book that a snapshot and apply_updates produce: a level is as the last
\* update says that names it.
Applied(v, updates) ==
  [l \in Levels |->
     LET named == {k \in DOMAIN updates : Names(updates[k], l)} IN
     IF named = {} THEN BookAt(v)[l] ELSE LastChange(l, updates[Max(named)].last)]

\* publish_snapshot: UpdateType::SNAPSHOT with the sequencer's last_sequence().
PublishSnapshot(c) ==
  /\ book' = Applied(c.snapshot, c.updates)
  /\ bookSeq' = c.state.last

\* depth_request_queue.emplace_back
Queued(q) == q + 1

Fatal_Late(retries) == MaxRetries # 0 /\ MaxRetries + 1 < retries  \* mutant: off by one

\* Is this one retry too many?
Fatal(retries) == MaxRetries # 0 /\ MaxRetries < retries

\* request_snapshot: log::fatal or a request more.
RequestSnapshot(retries) ==
  /\ dead' = Fatal(retries)
  /\ queue' = IF Fatal(retries) THEN queue ELSE Queued(queue)
  /\ failed' = FALSE

\* What one of the two handlers does with the outcome of its call.
Handle(c) ==
  /\ sequencer' = c.state
  /\ CASE c.out = "UPDATE"   -> PublishUpdate(c.updates[1])
       [] c.out = "SNAPSHOT" -> PublishSnapshot(c)
       [] OTHER              -> UNCHANGED <<book, bookSeq>>
  /\ IF c.out = "REQUEST" THEN RequestSnapshot(c.state.retries)
     ELSE UNCHANGED <<queue, failed, dead>>

AfterBadState_Kept(s) == s  \* mutant: the sequencer is not cleared

\* The state of the sequencer after the handler of BadState.
AfterBadState(s) == Cleared

Resubscribed_Silent(q) == q  \* mutant: nothing is asked

\* The queue after a handler of BadState.
Resubscribed(q) == Queued(q)

Unpublished_Empty == book' = BookAt(0) /\ bookSeq' = 0  \* mutant: an empty book is published

\* "XXX publish stale": clients are told nothing.
Unpublished == UNCHANGED <<book, bookSeq>>

\* How both handlers treat a BadState.
BadState ==
  /\ sequencer' = AfterBadState(sequencer)
  /\ queue' = Resubscribed(queue)
  /\ failed' = FALSE
  /\ Unpublished
  /\ UNCHANGED dead

----------------------------------------------------------------------------
(* MarketData *)

\* A depth update: feed the sequencer, which publishes, requests, or throws.
DepthUpdate ==
  /\ ~dead /\ up /\ wire # <<>>
  /\ wire' = Tail(wire)
  /\ received' = wire[1].last
  /\ IF Gap(sequencer, wire[1])
     THEN BadState
     ELSE \E late \in BOOLEAN : Handle(OnUpdate(sequencer, wire[1], late))
  /\ UNCHANGED <<exchangeVars, up, restVars, drops>>

StreamReady ==
  /\ ~dead /\ ~up
  /\ up' = TRUE
  /\ UNCHANGED <<exchangeVars, wire, restVars, queue, bookVars, received, failed, dead, drops>>

\* The sequencer is not told: the first update of the next session finds the gap.
StreamDisconnected ==
  /\ ~dead /\ up /\ drops < MaxDrops
  /\ up' = FALSE /\ wire' = <<>>
  /\ drops' = drops + 1
  /\ UNCHANGED <<exchangeVars, restVars, queue, bookVars, received, failed, dead>>

----------------------------------------------------------------------------
(* Rest *)

\* The timer: requests of the queue go when the rate limiter admits them, and
\* only while Rest is READY.
GetDepth ==
  /\ ~dead /\ rest /\ queue > 0
  /\ queue' = queue - 1
  /\ asked' = asked + 1
  /\ UNCHANGED <<exchangeVars, streamVars, rest, answers, bookVars, received, failed, dead, drops>>

\* A snapshot: feed the sequencer, which may throw at one it cannot use.
DepthAck ==
  /\ ~dead /\ rest /\ answers # <<>>
  /\ answers' = Tail(answers)
  /\ BadState \/ Handle(OnSnapshot(sequencer, answers[1]))
  /\ UNCHANGED <<exchangeVars, streamVars, rest, asked, received, drops>>

\* An error, or a 4xx that reaches no handler: nothing is asked again.
DepthError ==
  /\ ~dead /\ rest /\ asked > 0
  /\ asked' = asked - 1
  /\ failed' = TRUE
  /\ UNCHANGED <<exchangeVars, streamVars, rest, answers, queue, bookVars, received, dead, drops>>

\* Connected, and exchange-info downloaded.
RestReady ==
  /\ ~dead /\ ~rest
  /\ rest' = TRUE
  /\ UNCHANGED <<exchangeVars, streamVars, asked, answers, queue, bookVars, received, failed,
                 dead, drops>>

\* Requests on the connection fail; the queue is kept.
RestDisconnected ==
  /\ ~dead /\ rest /\ drops < MaxDrops
  /\ rest' = FALSE /\ asked' = 0 /\ answers' = <<>>
  /\ failed' = (failed \/ asked > 0 \/ answers # <<>>)
  /\ drops' = drops + 1
  /\ UNCHANGED <<exchangeVars, streamVars, queue, bookVars, received, dead>>

----------------------------------------------------------------------------
(* The exchange *)

\* The book changes.
Change(l) ==
  /\ Version < MaxVersion
  /\ hist' = Append(hist, l)
  /\ UNCHANGED <<sent, streamVars, restVars, queue, bookVars, received, failed, dead, drops>>

\* Changes are told to the subscribers there are.
Tell ==
  /\ sent < Version
  /\ sent' = Version
  /\ wire' = IF up THEN Append(wire, [prev |-> sent, last |-> Version]) ELSE wire
  /\ UNCHANGED <<hist, up, restVars, queue, bookVars, received, failed, dead, drops>>

\* The oldest depth request is answered.
Answer ==
  /\ asked > 0
  /\ asked' = asked - 1
  /\ answers' = Append(answers, Version)
  /\ UNCHANGED <<exchangeVars, streamVars, rest, queue, bookVars, received, failed, dead, drops>>

Init ==
  /\ hist = <<>> /\ sent = 0
  /\ up = FALSE /\ wire = <<>>
  /\ rest = FALSE /\ asked = 0 /\ answers = <<>>
  /\ queue = 0
  /\ sequencer = Cleared
  /\ book = BookAt(0) /\ bookSeq = 0
  /\ received = 0 /\ failed = FALSE /\ dead = FALSE
  /\ drops = 0

Next ==
  \/ DepthUpdate \/ StreamReady \/ StreamDisconnected
  \/ GetDepth \/ DepthAck \/ DepthError \/ RestReady \/ RestDisconnected
  \/ \E l \in Levels : Change(l)
  \/ Tell \/ Answer

Spec == Init /\ [][Next]_vars

----------------------------------------------------------------------------
(* What the design promises *)

\* Every variable stays in its domain; a sequencer with a snapshot published
\* keeps nothing back, and the process ends before the retries exceed their
\* limit.
TypeOK ==
  /\ hist \in Seq(Levels) /\ sent \in 0 .. Version
  /\ up \in BOOLEAN /\ wire \in Seq(Updates)
  /\ rest \in BOOLEAN /\ asked \in Nat /\ answers \in Seq(0 .. Version)
  /\ queue \in Nat
  /\ sequencer \in Sequencers
  /\ sequencer.synced => sequencer = [Cleared EXCEPT !.synced = TRUE, !.last = sequencer.last]
  /\ ~dead /\ MaxRetries # 0 => sequencer.retries <= MaxRetries
  /\ book \in [Levels -> 0 .. Version] /\ bookSeq \in 0 .. Version
  /\ received \in 0 .. sent /\ failed \in BOOLEAN /\ dead \in BOOLEAN
  /\ drops \in 0 .. MaxDrops

\* What clients see is the exchange's book at the very version it is published
\* for, whatever was lost, late, too old or asked twice in between: no change is
\* missing, none is merged over a later one.
BookExact == book = BookAt(bookSeq)

\* A book that is taken for synchronised has followed every update received: no
\* update is dropped unless the book is rebuilt from a snapshot.
SyncedIsCurrent ==
  sequencer.synced => sequencer.last = bookSeq /\ bookSeq = received

\* Clients never see an older book than before: rebuilding after a gap, with
\* snapshots that were asked for before it still to come, only goes forward.
NeverBack == [][bookSeq' >= bookSeq]_vars

\* While an instrument with updates waits for its book, a depth request is
\* queued, on its way or answered, or a snapshot is held, unless one failed.
SnapshotComing ==
  received # 0 /\ ~sequencer.synced /\ ~dead =>
    queue > 0 \/ asked > 0 \/ answers # <<>> \/ sequencer.held # None \/ failed

Market == INSTANCE MarketBook WITH
  changes <- hist, shown <- bookSeq, following <- sequencer.synced

\* MarketData, Rest and the sequencer together keep what clients rely on: every
\* published book is one the exchange had, updates carry on where the client is,
\* and after a gap nothing is merged until a snapshot has come.
ImplementsMarketBook == Market!Spec
=============================================================================
