---------------------------- MODULE Subscriptions ----------------------------
(***************************************************************************)
(* From the exchange's list of instruments to subscribed market data.      *)
(*   Rest        downloads exchange-info every time its connection is up,  *)
(*   Controller  also accepts symbols from clients (Subscribe),            *)
(*   Shared      remembers all symbols, and cuts them into slices,         *)
(*   MarketData  one web socket per slice; it subscribes what is its own   *)
(*               when it becomes ready and what is added while it is.      *)
(* An update of the symbols and the life of the sockets interleave freely. *)
(* core::Symbols, core::Download2 and core::limit::Queue are outside the   *)
(* repository: a list cut into slices of equal size, a download of one     *)
(* state, and a queue that lets some of its messages go on every timer.    *)
(***************************************************************************)
EXTENDS Naturals, Sequences, FiniteSets

CONSTANTS
  Symbols,   \* instruments of the exchange
  Discarded, \* instruments for which discard_symbol() holds
  Max,       \* ws.max_subscriptions_per_stream
  MaxDrops   \* bound: connections lost, the REST connection's included

ASSUME SymbolsAssumption == IsFiniteSet(Symbols) /\ Discarded \subseteq Symbols
ASSUME MaxAssumption == Max \in Nat \ {0} /\ MaxDrops \in Nat

VARIABLES
  listed,    \* what the exchange lists
  rest,      \* is the REST connection up?
  download,  \* state of Rest::download_
  asked,     \* is an exchange-info request outstanding on this connection?
  status,    \* the ConnectionStatus Rest published
  answer,    \* history: the last exchange-info answer on this connection
  known,     \* Shared::all_symbols
  symbols,   \* Shared::symbols, in order of arrival
  ready,     \* ready() of every MarketData that exists
  queue,     \* request_queue_ of every MarketData
  sub,       \* subscriptions the exchange received in a session, in order
  drops      \* connections lost so far

restVars   == <<listed, rest, download, asked, status, answer>>
sharedVars == <<known, symbols>>
streamVars == <<ready, queue, sub>>
vars       == <<restVars, sharedVars, streamVars, drops>>

----------------------------------------------------------------------------
(* Slices *)

Arrangements(S) == {q \in [1 .. Cardinality(S) -> S] : {q[i] : i \in DOMAIN q} = S}

Elements(q) == {q[i] : i \in DOMAIN q}

\* How many slices `n` symbols take: what core::Symbols returns as `size`.
Slices(n) == (n + Max - 1) \div Max

Smaller(m, n) == IF m < n THEN m ELSE n
Greater(m, n) == IF m > n THEN m ELSE n

\* get_slice: what slice i holds of the symbols after the first `from`.
Slice(all, i, from) ==
  SubSeq(all, Greater((i - 1) * Max, from) + 1, Smaller(i * Max, Len(all)))

----------------------------------------------------------------------------
(* Controller *)

Added_All(all, i, from) == Slice(all, i, 0)  \* mutant: start_from is ignored

Added_Next(all, i, from) == Slice(all, i, from + 1)  \* mutant: off by one

\* What a stream that is ready subscribes after an update.
Added(all, i, from) == Slice(all, i, from)

Streams_One(have, size) ==  \* mutant: an if for the while
  IF have < size THEN have + 1 ELSE have

\* ensure_symbol_slices: create streams while there are fewer than slices.
Streams(have, size) == Greater(have, size)

\* SymbolsUpdate: append to the list, create the streams that are missing, not
\* ready yet, and let every stream subscribe what is new in its slice.
SymbolsUpdate(new) ==
  LET all   == symbols \o new
      count == Streams(Len(ready), Slices(Len(all)))
      old   == 1 .. Len(ready) IN
  /\ symbols' = all
  /\ ready' = [i \in 1 .. count |-> i \in old /\ ready[i]]
  /\ queue' = [i \in 1 .. count |->
                 IF i \in old
                 THEN queue[i] \o (IF ready[i] THEN Added(all, i, Len(symbols)) ELSE <<>>)
                 ELSE <<>>]
  /\ sub' = [i \in 1 .. count |-> IF i \in old THEN sub[i] ELSE <<>>]

\* A client's symbols; those already known are reported as duplicates.
Subscribe(wanted) ==
  /\ known' = known \cup wanted
  /\ \E new \in Arrangements(wanted \ known) : SymbolsUpdate(new)
  /\ UNCHANGED <<restVars, drops>>

----------------------------------------------------------------------------
(* Rest *)

\* The state EXCHANGE_INFO is entered: publish the status, send the request.
Ask ==
  /\ download' = "EXCHANGE_INFO"
  /\ status' = "DOWNLOADING"
  /\ asked' = TRUE

Asks_NoBump(d) == d = "UNDEFINED"  \* mutant: a download that goes on is not asked again

\* Does a new connection ask?  begin() starts a download from its reset state,
\* bump() repeats the request of one that goes on.
Asks(d) == d \in {"UNDEFINED", "EXCHANGE_INFO"}

RestConnected ==
  /\ ~rest
  /\ rest' = TRUE
  /\ IF Asks(download) THEN Ask ELSE UNCHANGED <<download, status, asked>>
  /\ UNCHANGED <<listed, answer, sharedVars, streamVars, drops>>

\* A download that is done is reset, one that goes on is kept.
AfterLoss(d) == IF d = "EXCHANGE_INFO" THEN d ELSE "UNDEFINED"

\* The request outstanding fails with the connection; retry() leaves it to the
\* next connection to bump the download.
RestDisconnected ==
  /\ rest /\ drops < MaxDrops
  /\ rest' = FALSE
  /\ status' = "DISCONNECTED"
  /\ download' = AfterLoss(download)
  /\ asked' = FALSE /\ answer' = "NONE"
  /\ drops' = drops + 1
  /\ UNCHANGED <<listed, sharedVars, streamVars>>

New_Unfiltered(S) == S \ Discarded  \* mutant: known symbols are taken again

\* "only include new": symbols of the answer that are kept, and not known.
New(S) == (S \ Discarded) \ known

\* Success: take the symbols, then check() completes the download.
ExchangeInfoAck ==
  /\ rest /\ asked
  /\ asked' = FALSE
  /\ answer' = "OK"
  /\ download' = "DONE"
  /\ status' = "READY"
  /\ known' = known \cup (listed \ Discarded)
  /\ IF New(listed) = {} THEN UNCHANGED <<symbols, streamVars>>
     ELSE \E new \in Arrangements(New(listed)) : SymbolsUpdate(new)
  /\ UNCHANGED <<listed, rest, drops>>

\* An error is logged and given to retry(), which may ask again; most 4xx
\* codes reach neither.
ExchangeInfoError ==
  /\ rest /\ asked
  /\ asked' \in BOOLEAN
  /\ answer' = "ERROR"
  /\ UNCHANGED <<listed, rest, download, status, sharedVars, streamVars, drops>>

----------------------------------------------------------------------------
(* MarketData *)

\* web::socket::Ready: subscribe the whole slice.
StreamReady(i) ==
  /\ ~ready[i]
  /\ ready' = [ready EXCEPT ![i] = TRUE]
  /\ queue' = [queue EXCEPT ![i] = @ \o Slice(symbols, i, 0)]
  /\ UNCHANGED <<restVars, sharedVars, sub, drops>>

\* web::socket::Disconnected: the queue is cleared with the session.
StreamDisconnected(i) ==
  /\ ready[i] /\ drops < MaxDrops
  /\ ready' = [ready EXCEPT ![i] = FALSE]
  /\ queue' = [queue EXCEPT ![i] = <<>>]
  /\ sub'   = [sub EXCEPT ![i] = <<>>]
  /\ drops' = drops + 1
  /\ UNCHANGED <<restVars, sharedVars>>

\* The timer: the oldest message goes when the rate limiter admits it.
StreamTimer(i) ==
  /\ ready[i] /\ queue[i] # <<>>
  /\ queue' = [queue EXCEPT ![i] = Tail(@)]
  /\ sub'   = [sub EXCEPT ![i] = Append(@, Head(queue[i]))]
  /\ UNCHANGED <<restVars, sharedVars, ready, drops>>

----------------------------------------------------------------------------
(* The exchange lists and delists instruments. *)

List(s) ==
  /\ listed' = IF s \in listed THEN listed \ {s} ELSE listed \cup {s}
  /\ UNCHANGED <<rest, download, asked, status, answer, sharedVars, streamVars, drops>>

Init ==
  /\ listed \in SUBSET Symbols
  /\ rest = FALSE /\ download = "UNDEFINED" /\ asked = FALSE
  /\ status = "UNDEFINED" /\ answer = "NONE"
  /\ known = {} /\ symbols = <<>>
  /\ ready = <<>> /\ queue = <<>> /\ sub = <<>>
  /\ drops = 0

Next ==
  \/ \E wanted \in SUBSET Symbols : wanted # {} /\ Subscribe(wanted)
  \/ RestConnected \/ RestDisconnected \/ ExchangeInfoAck \/ ExchangeInfoError
  \/ \E i \in DOMAIN ready : StreamReady(i) \/ StreamDisconnected(i) \/ StreamTimer(i)
  \/ \E s \in Symbols : List(s)

Spec == Init /\ [][Next]_vars

----------------------------------------------------------------------------
(* What the design promises *)

\* Every variable stays in its domain, and every slice has its stream.
TypeOK ==
  /\ listed \subseteq Symbols /\ known \subseteq Symbols
  /\ rest \in BOOLEAN /\ asked \in BOOLEAN /\ answer \in {"NONE", "OK", "ERROR"}
  /\ download \in {"UNDEFINED", "EXCHANGE_INFO", "DONE"}
  /\ status \in {"UNDEFINED", "DISCONNECTED", "DOWNLOADING", "READY"}
  /\ symbols \in Seq(Symbols)
  /\ Len(symbols) <= Max * Len(ready) /\ Max * Len(ready) < Len(symbols) + Max
  /\ Len(queue) = Len(ready) /\ Len(sub) = Len(ready)
  /\ \A i \in DOMAIN ready :
       ready[i] \in BOOLEAN /\ queue[i] \in Seq(Symbols) /\ sub[i] \in Seq(Symbols)
  /\ drops \in Nat

\* In a session, a stream subscribes its slice, the whole slice, in order and
\* each symbol once, whether symbols arrived before it existed, while it was
\* connecting, while it was ready, or while its queue was held back.
SubscribedOnce ==
  \A i \in DOMAIN ready :
    IF ready[i] THEN sub[i] \o queue[i] = Slice(symbols, i, 0)
                ELSE sub[i] = <<>> /\ queue[i] = <<>>

\* No symbol is served by two streams, or twice by one: the list that is cut
\* into slices holds every known symbol, and holds it once.
KnownOnce ==
  /\ Elements(symbols) = known
  /\ Len(symbols) = Cardinality(known)

\* The streams that have subscribed a symbol in this session, or are about to.
Serving(s) == {i \in DOMAIN ready : s \in Elements(sub[i] \o queue[i])}

\* Every known symbol belongs to one stream, which alone serves it and does so in
\* each of its sessions, and no stream takes more than
\* ws.max_subscriptions_per_stream: however symbols arrived, whatever stream was
\* up when they did.
ServedByOne ==
  /\ \A s \in known : \E i \in DOMAIN ready :
       /\ s \in Elements(Slice(symbols, i, 0))
       /\ Serving(s) = IF ready[i] THEN {i} ELSE {}
  /\ \A i \in DOMAIN ready : Len(sub[i] \o queue[i]) <= Max

\* READY is published only after exchange-info was received on the very
\* connection that is up; and while the connection is up and Rest is not READY
\* it waits for an answer, or has got an error: a download that was lost with a
\* connection, or done on an earlier one, is asked again.
RestNeverIdle ==
  /\ status = "READY" => rest /\ answer = "OK"
  /\ rest /\ status # "READY" => asked \/ answer = "ERROR"

----------------------------------------------------------------------------
(* Progress *)

\* Sockets and the REST connection come up, the rate limiter admits a message
\* in the end.
Fairness ==
  /\ WF_vars(RestConnected)
  /\ \A i \in 1 .. Cardinality(Symbols) :
       /\ WF_vars(i \in DOMAIN ready /\ StreamReady(i))
       /\ WF_vars(i \in DOMAIN ready /\ StreamTimer(i))

FairSpec == Spec /\ Fairness

\* A known symbol is subscribed in the end: MaxDrops makes the connections
\* stop failing.
KnownSubscribed ==
  \A s \in Symbols :
    s \in known ~> \E i \in DOMAIN sub : s \in Elements(sub[i])
=============================================================================
