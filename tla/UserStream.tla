----------------------------- MODULE UserStream -----------------------------
(***************************************************************************)
(* The private user stream of every account: how the gateway obtains a     *)
(* listen-key, opens the DropCopy web socket with it, downloads account,   *)
(* open orders and user trades, and replaces the stream when the key goes  *)
(* stale.  Four classes take part and share no lock, only turns of one     *)
(* event loop:                                                             *)
(*   Controller  owns the DropCopy objects and removes the dead ones,      *)
(*   Request     holds the four queued REST requests of an account,        *)
(*   OrderEntry  (the master of an account) sends them and takes answers,  *)
(*   DropCopy    is the web socket with its download state machine.        *)
(* Every action is one callback of the loop: a timer, a web socket event,  *)
(* a REST answer.  The exchange, core::limit::Request, core::Download2 and *)
(* the two web clients are outside the repository; they are modelled by    *)
(* the contract the code relies on.                                        *)
(***************************************************************************)
EXTENDS Naturals

CONSTANTS
  Accounts,        \* the accounts of the configuration
  TradeSymbols,    \* |settings.download.symbols|, 0 when fills are not downloaded
  MaxKey,          \* bound: listen-keys the exchange issues per account
  MaxTradeAnswers  \* bound: user-trades answers outstanding per account

ASSUME TradeSymbolsAssumption == TradeSymbols \in Nat
ASSUME BoundsAssumption == MaxKey \in Nat \ {0} /\ MaxTradeAnswers \in Nat

VARIABLES
  dc,       \* Controller::drop_copy_: the DropCopy of an account
  zombies,  \* Controller::drop_copy_zombies_
  want,     \* requests asked for and not yet sent
  sent,     \* requests sent and not yet committed
  have,     \* requests for which has_response() holds
  late,     \* user-trades answers outstanding
  offered,  \* keys the outstanding listen-key request may be answered with
  oe,       \* is the master OrderEntry of the account ready()?
  key,      \* the exchange's current listen-key of the account
  last,     \* history: the last listen-key answered, 0 before the first
  refused,  \* history: was the last listen-key answer an error?
  done      \* history: downloads committed since the web socket was ready

vars == <<dc, zombies, want, sent, have, late, offered, oe, key, last, refused, done>>

----------------------------------------------------------------------------
(* Data *)

Downloads == {"ACCOUNT", "OPEN_ORDERS", "USER_TRADES"}
Kinds     == Downloads \cup {"LISTEN_KEY"}
Required  == IF TradeSymbols > 0 THEN Downloads ELSE Downloads \ {"USER_TRADES"}

\* "CLOSING" is a socket whose close() was called and whose Disconnected
\* event has not been dispatched; "NONE" stands for the null unique_ptr.
Connections == {"NONE", "DOWN", "CONNECTING", "READY", "CLOSING"}
States      == {"UNDEFINED", "DONE"} \cup Downloads
Statuses    == {"UNDEFINED", "DISCONNECTED", "DOWNLOADING", "READY"}

\* next_listen_key_refresh_: not set, in the future, or reached by the clock
Refreshes == {"UNSET", "ARMED", "DUE"}

DropCopy == [key : Nat, stop : BOOLEAN, conn : Connections, state : States,
             status : Statuses, refresh : Refreshes]

Created(k) == [key |-> k, stop |-> FALSE, conn |-> "DOWN", state |-> "UNDEFINED",
               status |-> "UNDEFINED", refresh |-> "UNSET"]
NoStream   == [Created(0) EXCEPT !.conn = "NONE"]

Live(a)  == dc[a].conn # "NONE"
Stale(a) == Live(a) /\ dc[a].key # key[a]

----------------------------------------------------------------------------
(* DropCopy *)

Following_NoOpenOrders(s) ==  \* mutant: a state is skipped
  IF s = "ACCOUNT" /\ TradeSymbols > 0 THEN "USER_TRADES" ELSE "DONE"

\* The state that follows one whose answer arrived.  USER_TRADES returns 0
\* requests when fills are not downloaded, and the download moves on to DONE.
Following(s) ==
  CASE s = "ACCOUNT"     -> "OPEN_ORDERS"
    [] s = "OPEN_ORDERS" -> IF TradeSymbols > 0 THEN "USER_TRADES" ELSE "DONE"
    [] OTHER             -> "DONE"

\* Entering a state publishes the stream status.
Enter(d, s) ==
  [d EXCEPT !.state = s, !.status = IF s = "DONE" THEN "READY" ELSE "DOWNLOADING"]

\* A session starts with the account download, and ends with its download reset.
Up(d)   == Enter([d EXCEPT !.conn = "READY"], "ACCOUNT")
Down(d) == [d EXCEPT !.conn = "DOWN", !.state = "UNDEFINED", !.status = "DISCONNECTED"]

Advances_OnAccount(a, d) ==  \* mutant: one request tested for all states
  d.state \in Downloads /\ "ACCOUNT" \in have[a]

\* check_response: has the request of the current state got its response?
Advances(a, d) == d.state \in Downloads /\ d.state \in have[a]

CheckResponse(a, d) == IF Advances(a, d) THEN Enter(d, Following(d.state)) ELSE d

CheckListenKey(d) == IF d.refresh = "ARMED" THEN d ELSE [d EXCEPT !.refresh = "ARMED"]

Asked_NoRefresh(a, d) ==  \* mutant: the key is never refreshed
  {k \in Downloads : d.conn = "READY" /\ Advances(a, d) /\ k = Following(d.state)}

Asked_NoNext(a, d) ==  \* mutant: a state is entered without its request
  {k \in {"LISTEN_KEY"} : d.conn = "READY" /\ d.refresh = "DUE"}

\* What check_response and check_listen_key ask of Request.
Asked(a, d) ==
  IF d.conn = "READY"
  THEN {k \in Downloads  : Advances(a, d) /\ k = Following(d.state)}
         \cup {k \in {"LISTEN_KEY"} : d.refresh = "DUE"}
  ELSE {}

\* The timer of the stream: refresh the connection, which may start to
\* connect, then look for answers if the web socket is ready.
Ticked(a, d, connect) ==
  CASE d.conn = "READY" -> CheckListenKey(CheckResponse(a, d))
    [] d.conn = "DOWN" /\ a \in connect -> [d EXCEPT !.conn = "CONNECTING"]
    [] OTHER -> d

Closed_OnlyIfReady(d) ==  \* mutant: nothing happens unless there is a socket to close
  {IF d.conn = "READY" THEN [d EXCEPT !.stop = TRUE, !.conn = "CLOSING"] ELSE d}

\* close_and_restart: stop_ is set and close() called.  A socket that is down
\* has nothing to close; one that is still connecting may go down silently.
AfterClose(d) ==
  CASE d.conn = "READY"      -> {"CLOSING"}
    [] d.conn = "CONNECTING" -> {"CLOSING", "DOWN"}
    [] OTHER                 -> {d.conn}

Closed(d) == {[d EXCEPT !.stop = TRUE, !.conn = c] : c \in AfterClose(d)}

----------------------------------------------------------------------------
(* Construction and Start: no streams yet, a listen-key wanted for everyone *)

Init ==
  /\ dc      = [a \in Accounts |-> NoStream]
  /\ zombies = {}
  /\ want    = [a \in Accounts |-> {"LISTEN_KEY"}]
  /\ sent    = [a \in Accounts |-> {}]
  /\ have    = [a \in Accounts |-> {}]
  /\ late    = [a \in Accounts |-> 0]
  /\ offered = [a \in Accounts |-> {}]
  /\ oe      = [a \in Accounts |-> FALSE]
  /\ key     = [a \in Accounts |-> 1]
  /\ last    = [a \in Accounts |-> 0]
  /\ refused = [a \in Accounts |-> FALSE]
  /\ done    = [a \in Accounts |-> {}]

----------------------------------------------------------------------------
(* The timer, one callback for all accounts: Controller removes the zombies *)
(* and asks for new keys, then every OrderEntry sends what the rate limiter *)
(* admits, then every stream that is left runs its own timer.               *)

AfterZombies_Leftovers(a) ==  \* mutant: the stream keeps the state of the old one
  IF a \in zombies THEN [dc[a] EXCEPT !.conn = "NONE"] ELSE dc[a]

\* check_drop_copy_zombies: reset the stream, then ask for a listen-key.
AfterZombies(a) == IF a \in zombies THEN NoStream ELSE dc[a]

ZombieWant_Nothing(a) == {}  \* mutant: no new key is asked for

ZombieWant(a) == IF a \in zombies THEN {"LISTEN_KEY"} ELSE {}

\* Request::ready() lets one request go at a time.
MaySend(a, k) ==
  /\ oe[a]
  /\ sent[a] = {}
  /\ k \in want[a] \cup ZombieWant(a)
  /\ k = "USER_TRADES" => late[a] + TradeSymbols <= MaxTradeAnswers

Sendable(a) == {{}} \cup {{k} : k \in {x \in Kinds : MaySend(a, x)}}

\* get_user_trades sends a request for every symbol.
LateAfter(a, kinds) == IF "USER_TRADES" \in kinds THEN late[a] + TradeSymbols ELSE late[a]

\* get_listen_key asks for the key the exchange has now, or a later one.
OfferedAfter(a, kinds) == IF "LISTEN_KEY" \in kinds THEN {key[a]} ELSE offered[a]

\* send[a] is what check_request_queue sent, connect the streams whose refresh
\* started to connect.
TimerWith(send, connect) ==
  /\ dc'   = [a \in Accounts |-> Ticked(a, AfterZombies(a), connect)]
  /\ zombies' = {}
  /\ want' = [a \in Accounts |-> ((want[a] \cup ZombieWant(a)) \ send[a])
                                    \cup Asked(a, AfterZombies(a))]
  /\ sent' = [a \in Accounts |-> sent[a] \cup send[a]]
  /\ have' = [a \in Accounts |-> have[a] \ (ZombieWant(a) \cup Asked(a, AfterZombies(a)))]
  /\ late' = [a \in Accounts |-> LateAfter(a, send[a])]
  /\ offered' = [a \in Accounts |-> OfferedAfter(a, send[a])]
  /\ UNCHANGED <<oe, key, last, refused, done>>

Timer ==
  \E send \in [Accounts -> {{}} \cup {{k} : k \in Kinds}], connect \in SUBSET Accounts :
    /\ \A a \in Accounts : send[a] \in Sendable(a)
    /\ TimerWith(send, connect)

----------------------------------------------------------------------------
(* REST answers *)

\* commit(): a commit for an older request while a newer one is queued may or
\* may not count as its response.
Commit(a, k) ==
  /\ sent' = [sent EXCEPT ![a] = @ \ {k}]
  /\ \/ have' = [have EXCEPT ![a] = @ \cup {k}]
     \/ k \in want[a] /\ UNCHANGED have

\* ListenKeyUpdate: the Controller creates the stream, or lets it compare keys.
ListenKeyUpdate(a, k) ==
  \/ /\ ~Live(a)
     /\ dc' = [dc EXCEPT ![a] = Created(k)]
  \/ /\ Live(a) /\ dc[a].key = k
     /\ UNCHANGED dc
  \/ /\ Live(a) /\ dc[a].key # k
     /\ \E d \in Closed(dc[a]) : dc' = [dc EXCEPT ![a] = d]

\* OrderEntry::get_listen_key_ack on success, with the update it dispatches.
ListenKeyAck(a) ==
  /\ "LISTEN_KEY" \in sent[a]
  /\ \E k \in offered[a] :
       /\ ListenKeyUpdate(a, k)
       /\ last' = [last EXCEPT ![a] = k]
  /\ refused' = [refused EXCEPT ![a] = FALSE]
  /\ offered' = [offered EXCEPT ![a] = {}]
  /\ Commit(a, "LISTEN_KEY")
  /\ UNCHANGED <<zombies, want, late, oe, key, done>>

\* The same answer as an error, a time-out or a lost connection: the error is
\* logged, or swallowed for most of the 4xx codes, and the request committed.
ListenKeyError(a) ==
  /\ "LISTEN_KEY" \in sent[a]
  /\ refused' = [refused EXCEPT ![a] = TRUE]
  /\ offered' = [offered EXCEPT ![a] = {}]
  /\ Commit(a, "LISTEN_KEY")
  /\ UNCHANGED <<dc, zombies, want, late, oe, key, last, done>>

\* get_account_ack, get_open_orders_ack: success and error commit alike.
SnapshotAck(a, k) ==
  /\ k \in {"ACCOUNT", "OPEN_ORDERS"} \cap sent[a]
  /\ done' = [done EXCEPT ![a] = @ \cup {k}]
  /\ Commit(a, k)
  /\ UNCHANGED <<dc, zombies, want, late, offered, oe, key, last, refused>>

\* get_user_trades_ack: one answer per symbol, each of them commits.
UserTradesAck(a) ==
  /\ late[a] > 0
  /\ late' = [late EXCEPT ![a] = @ - 1]
  /\ done' = [done EXCEPT ![a] = @ \cup {"USER_TRADES"}]
  /\ Commit(a, "USER_TRADES")
  /\ UNCHANGED <<dc, zombies, want, offered, oe, key, last, refused>>

OrderEntryConnected(a) ==
  /\ ~oe[a]
  /\ oe' = [oe EXCEPT ![a] = TRUE]
  /\ UNCHANGED <<dc, zombies, want, sent, have, late, offered, key, last, refused, done>>

OrderEntryDisconnected(a) ==
  /\ oe[a]
  /\ oe' = [oe EXCEPT ![a] = FALSE]
  /\ UNCHANGED <<dc, zombies, want, sent, have, late, offered, key, last, refused, done>>

----------------------------------------------------------------------------
(* Web socket events of a stream *)

\* web::socket::Ready: download_.begin publishes DOWNLOADING and asks for the
\* account.
SocketReady(a) ==
  /\ dc[a].conn = "CONNECTING"
  /\ dc' = [dc EXCEPT ![a] = Up(@)]
  /\ want' = [want EXCEPT ![a] = @ \cup {"ACCOUNT"}]
  /\ have' = [have EXCEPT ![a] = @ \ {"ACCOUNT"}]
  /\ done' = [done EXCEPT ![a] = {}]
  /\ UNCHANGED <<zombies, sent, late, offered, oe, key, last, refused>>

\* A connection attempt that fails before the handler hears of it.
ConnectFailed(a) ==
  /\ dc[a].conn = "CONNECTING"
  /\ dc' = [dc EXCEPT ![a].conn = "DOWN"]
  /\ UNCHANGED <<zombies, want, sent, have, late, offered, oe, key, last, refused, done>>

Removes_EvenUnstopped(a) == {a}  \* mutant: the test of stop_ is lost

\* The Remove a stopped stream dispatches once it is disconnected.
Removes(a) == IF dc[a].stop THEN {a} ELSE {}

\* web::socket::Disconnected
Disconnected(a) ==
  /\ dc[a].conn \in {"CONNECTING", "READY", "CLOSING"}
  /\ dc' = [dc EXCEPT ![a] = Down(@)]
  /\ zombies' = zombies \cup Removes(a)
  /\ UNCHANGED <<want, sent, have, late, offered, oe, key, last, refused, done>>

\* The exchange announces on the stream that its key has expired.
ListenKeyExpired(a) ==
  /\ dc[a].conn = "READY"
  /\ Stale(a)
  /\ \E d \in Closed(dc[a]) : dc' = [dc EXCEPT ![a] = d]
  /\ UNCHANGED <<zombies, want, sent, have, late, offered, oe, key, last, refused, done>>

----------------------------------------------------------------------------
(* The world outside *)

\* The listen-key of an account expires and the next one is issued.
Rotate(a) ==
  /\ key[a] < MaxKey
  /\ key' = [key EXCEPT ![a] = @ + 1]
  /\ offered' = [offered EXCEPT ![a] = IF "LISTEN_KEY" \in sent[a]
                                       THEN @ \cup {key[a] + 1} ELSE @]
  /\ UNCHANGED <<dc, zombies, want, sent, have, late, oe, last, refused, done>>

\* LISTEN_KEY_REFRESH_FREQ has passed.
RefreshDue(a) ==
  /\ Live(a)
  /\ dc[a].refresh = "ARMED"
  /\ dc' = [dc EXCEPT ![a].refresh = "DUE"]
  /\ UNCHANGED <<zombies, want, sent, have, late, offered, oe, key, last, refused, done>>

Next ==
  \/ Timer
  \/ \E a \in Accounts :
       \/ ListenKeyAck(a) \/ ListenKeyError(a)
       \/ \E k \in {"ACCOUNT", "OPEN_ORDERS"} : SnapshotAck(a, k)
       \/ UserTradesAck(a)
       \/ OrderEntryConnected(a) \/ OrderEntryDisconnected(a)
       \/ SocketReady(a) \/ ConnectFailed(a) \/ Disconnected(a) \/ ListenKeyExpired(a)
       \/ Rotate(a) \/ RefreshDue(a)

Spec == Init /\ [][Next]_vars

----------------------------------------------------------------------------
(* What the design promises *)

\* Every variable stays in its domain; a stream that does not exist has no
\* leftovers of the one before.
TypeOK ==
  /\ dc \in [Accounts -> DropCopy]
  /\ zombies \subseteq Accounts
  /\ want \in [Accounts -> SUBSET Kinds]
  /\ sent \in [Accounts -> SUBSET Kinds]
  /\ have \in [Accounts -> SUBSET Kinds]
  /\ late \in [Accounts -> Nat]
  /\ offered \in [Accounts -> SUBSET Nat]
  /\ oe \in [Accounts -> BOOLEAN]
  /\ key \in [Accounts -> Nat]
  /\ last \in [Accounts -> Nat]
  /\ refused \in [Accounts -> BOOLEAN]
  /\ done \in [Accounts -> SUBSET Kinds]
  /\ \A a \in Accounts : ~Live(a) => dc[a] = NoStream

\* Removal never destroys a stream in use: an account on the list that the
\* next timer works off has a stream, the stream was told to stop, its socket
\* is down and its clients were told DISCONNECTED (controller.cpp, "remove
\* *BEFORE* dispatching timer": dispatching first would reconnect it).
ZombieSound ==
  \A a \in zombies : /\ dc[a].stop
                     /\ dc[a].conn = "DOWN"
                     /\ dc[a].state = "UNDEFINED"
                     /\ dc[a].status = "DISCONNECTED"

\* READY is published only over a web socket that is up, and after every
\* download of this session was answered; an answer left over from a session
\* before it does not count, although Request outlives the sessions.
ReadyMeansDownloaded ==
  \A a \in Accounts :
    /\ dc[a].status = "READY" => Required \subseteq done[a]
    /\ dc[a].status \in {"DOWNLOADING", "READY"} => dc[a].conn \in {"READY", "CLOSING"}

\* A request that is queued, whose answer is still to come, or that was answered.
Coming(a, k) ==
  \/ k \in want[a] \cup have[a]
  \/ k \in sent[a] /\ (k = "USER_TRADES" => late[a] > 0)

\* A session never waits for an answer that cannot come: DropCopy waits in a
\* state for the response to one request, which Request shares with sessions
\* before it, and that one is queued, outstanding or answered, however answers
\* to older requests are committed meanwhile.
DownloadComing ==
  \A a \in Accounts :
    dc[a].conn = "READY" /\ dc[a].state \in Downloads => Coming(a, dc[a].state)

\* No account is forgotten: without a stream, a listen-key is queued or on its
\* way, unless the exchange answered the last request with an error.
NoOrphan ==
  \A a \in Accounts :
    ~Live(a) => "LISTEN_KEY" \in want[a] \cup sent[a] \/ refused[a]

\* The gateway never keeps a stream it knows to be stale: one whose key is not
\* the last one answered has been told to stop, whatever its socket did when
\* the answer came.
StaleIsStopped ==
  \A a \in Accounts : Live(a) /\ dc[a].key # last[a] => dc[a].stop

\* A stream is replaced, never re-keyed; it goes away only after it was
\* stopped and its clients were told DISCONNECTED, and the step that removes
\* it asks for the next key.
ReplacedCleanly ==
  [][\A a \in Accounts : Live(a) =>
       \/ Live(a)' /\ dc'[a].key = dc[a].key /\ (dc[a].stop => dc'[a].stop)
       \/ /\ ~Live(a)'
          /\ dc[a].stop /\ dc[a].status = "DISCONNECTED"
          /\ "LISTEN_KEY" \in want'[a] \cup sent'[a]]_vars

\* The stream as its clients see it, through the last status published.
Phase(a) ==
  CASE ~Live(a) -> "ABSENT"
    [] Live(a) /\ dc[a].status \in {"DOWNLOADING", "READY"} -> dc[a].status
    [] OTHER -> "CLOSED"

Fetched(a) == IF Phase(a) \in {"DOWNLOADING", "READY"} THEN done[a] \cap Required ELSE {}

Lifecycle == INSTANCE StreamLifecycle WITH
  phase   <- [a \in Accounts |-> Phase(a)],
  fetched <- [a \in Accounts |-> Fetched(a)]

\* The four classes together implement the life cycle clients rely on:
\* the order of StreamStatus messages is right on every interleaving of
\* timers, answers and socket events, for all accounts at once.
ImplementsLifecycle == Lifecycle!Spec

----------------------------------------------------------------------------
(* Progress *)

\* The event loop keeps calling: timers fire and find work, the rate limiter
\* admits a waiting request again and again (SF), the REST client answers or
\* times out, a REST connection comes back, a socket that closes reports it,
\* and the clock goes on.
LoopFairness ==
  \A a \in Accounts :
    /\ WF_vars(a \in zombies /\ Timer)
    /\ WF_vars(dc[a].conn = "DOWN" /\ Timer /\ dc'[a].conn # "DOWN")
    /\ SF_vars(dc[a].conn = "READY" /\ Timer /\ dc'[a] # dc[a])
    /\ \A k \in Required \cup {"LISTEN_KEY"} : SF_vars(MaySend(a, k) /\ Timer /\ k \in sent'[a])
    /\ WF_vars(\/ ListenKeyAck(a) \/ ListenKeyError(a)
               \/ \E k \in {"ACCOUNT", "OPEN_ORDERS"} : SnapshotAck(a, k))
    /\ WF_vars(UserTradesAck(a))
    /\ WF_vars(OrderEntryConnected(a))
    /\ WF_vars(dc[a].conn = "CLOSING" /\ Disconnected(a))
    /\ WF_vars(RefreshDue(a))

\* The exchange accepts a web socket, and answers a listen-key request with a
\* current key, again and again if it is asked again and again.
ExchangeFairness ==
  \A a \in Accounts :
    /\ SF_vars(SocketReady(a))
    /\ SF_vars(ListenKeyAck(a) /\ last'[a] = key[a])

FairSpec == Spec /\ LoopFairness /\ ExchangeFairness

\* "create listen-keys" (controller.cpp:112): once started, every account gets
\* a listen-key and the stream that goes with it.  The code asks only once.
EveryAccountGetsStream == \A a \in Accounts : <>Live(a)

\* An account whose stream is missing or stale has a current one in the end,
\* also when the announcement of the expiry is lost and when the socket was
\* down while the new key arrived; unless it is left without a stream by a
\* refused listen-key.  MaxKey makes the keys stop changing.
StreamBecomesCurrent ==
  \A a \in Accounts :
    (~Live(a) \/ Stale(a)) ~> ((Live(a) /\ ~Stale(a)) \/ (~Live(a) /\ refused[a]))

\* A download ends: the stream is READY, or its session is over.
DownloadEnds ==
  \A a \in Accounts : dc[a].status = "DOWNLOADING" ~> dc[a].status # "DOWNLOADING"
=============================================================================
