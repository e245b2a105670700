-------------------------- MODULE UserStreamProofs --------------------------
(***************************************************************************)
(* Theorems of UserStream for every set of accounts, every number of       *)
(* listen-keys and every number of download symbols.                       *)
(***************************************************************************)
EXTENDS UserStream, TLAPS

----------------------------------------------------------------------------
(* Lemmas about the stream's operators *)

\* No operator on a stream leaves the domain of DropCopy.
LEMMA StreamTypes ==
  /\ NoStream \in DropCopy
  /\ \A k \in Nat : Created(k) \in DropCopy /\ Created(k).conn # "NONE"
  /\ \A d \in DropCopy, s \in States : Enter(d, s) \in DropCopy
  /\ \A d \in DropCopy : Following(d.state) \in States
  /\ \A d \in DropCopy : Up(d) \in DropCopy /\ Up(d).conn = "READY"
  /\ \A d \in DropCopy : Down(d) \in DropCopy /\ Down(d).conn = "DOWN"
<1> USE DEF DropCopy, Connections, States, Statuses, Refreshes, Downloads
<1>1. NoStream \in DropCopy
  BY DEF NoStream, Created
<1>2. \A k \in Nat : Created(k) \in DropCopy /\ Created(k).conn # "NONE"
  BY DEF Created
<1>3. \A d \in DropCopy, s \in States : Enter(d, s) \in DropCopy
  <2> TAKE d \in DropCopy, s \in States
  <2>1. CASE s = "DONE"
    BY <2>1 DEF Enter
  <2>2. CASE s # "DONE"
    BY <2>2 DEF Enter
  <2> QED BY <2>1, <2>2
<1>4. \A d \in DropCopy : Following(d.state) \in States
  BY DEF Following
<1>5. \A d \in DropCopy : Up(d) \in DropCopy /\ Up(d).conn = "READY"
  <2> TAKE d \in DropCopy
  <2> DEFINE up == [d EXCEPT !.conn = "READY"]
  <2>1. up \in DropCopy /\ up.conn = "READY"
    OBVIOUS
  <2> HIDE DEF up
  <2>2. Enter(up, "ACCOUNT") \in DropCopy
    BY <2>1, <1>3
  <2>3. Enter(up, "ACCOUNT").conn = "READY"
    BY <2>1 DEF Enter
  <2> QED BY <2>2, <2>3 DEF Up, up
<1>6. \A d \in DropCopy : Down(d) \in DropCopy /\ Down(d).conn = "DOWN"
  BY DEF Down
<1> QED BY <1>1, <1>2, <1>3, <1>4, <1>5, <1>6

\* close_and_restart stops the stream and touches nothing but its socket; a
\* socket that was down stays down.
LEMMA ClosedFacts ==
  ASSUME NEW d \in DropCopy, NEW e \in Closed(d)
  PROVE  /\ e \in DropCopy
         /\ e.stop
         /\ e.key = d.key /\ e.state = d.state
         /\ e.status = d.status /\ e.refresh = d.refresh
         /\ d.conn = "READY" => e.conn = "CLOSING"
         /\ d.conn = "CONNECTING" => e.conn \in {"CLOSING", "DOWN"}
         /\ d.conn \notin {"READY", "CONNECTING"} => e.conn = d.conn
<1>1. PICK c \in AfterClose(d) : e = [d EXCEPT !.stop = TRUE, !.conn = c]
  BY Zenon DEF Closed
<1>2. /\ c \in Connections
      /\ d.conn = "READY" => c = "CLOSING"
      /\ d.conn = "CONNECTING" => c \in {"CLOSING", "DOWN"}
      /\ d.conn \notin {"READY", "CONNECTING"} => c = d.conn
  BY <1>1 DEF AfterClose, DropCopy, Connections
<1> QED BY <1>1, <1>2 DEF DropCopy

\* A timer keeps a stream a stream: it neither creates nor destroys one.
LEMMA TickedType ==
  ASSUME NEW a \in Accounts, NEW d \in DropCopy, NEW connect
  PROVE  /\ Ticked(a, d, connect) \in DropCopy
         /\ d = NoStream => Ticked(a, d, connect) = NoStream
         /\ d.conn # "NONE" => Ticked(a, d, connect).conn # "NONE"
         /\ Ticked(a, d, connect).key = d.key
         /\ Ticked(a, d, connect).stop = d.stop
<1>1. CheckResponse(a, d) \in DropCopy
  <2>1. CASE Advances(a, d)
    BY <2>1, StreamTypes DEF CheckResponse
  <2>2. CASE ~Advances(a, d)
    BY <2>2 DEF CheckResponse
  <2> QED BY <2>1, <2>2
<1>2. /\ CheckResponse(a, d).conn = d.conn
      /\ CheckResponse(a, d).key = d.key
      /\ CheckResponse(a, d).stop = d.stop
  BY DEF CheckResponse, Enter, DropCopy
<1>3. ASSUME NEW e \in DropCopy
      PROVE  /\ CheckListenKey(e) \in DropCopy
             /\ CheckListenKey(e).conn = e.conn
             /\ CheckListenKey(e).key = e.key
             /\ CheckListenKey(e).stop = e.stop
  BY DEF CheckListenKey, DropCopy, Refreshes
<1>4. CASE d.conn = "READY"
  <2>1. Ticked(a, d, connect) = CheckListenKey(CheckResponse(a, d))
    BY <1>4 DEF Ticked
  <2>2. d # NoStream
    BY <1>4 DEF NoStream, Created
  <2> QED BY <2>1, <2>2, <1>1, <1>2, <1>3, <1>4
<1>5. CASE d.conn = "DOWN"
  <2>1. d # NoStream
    BY <1>5 DEF NoStream, Created
  <2> QED BY <2>1, <1>5 DEF Ticked, DropCopy, Connections
<1>6. CASE d.conn \notin {"READY", "DOWN"}
  BY <1>6 DEF Ticked
<1> QED BY <1>4, <1>5, <1>6

\* The shape a timer gives to every account.
LEMMA AfterZombiesType ==
  ASSUME TypeOK, NEW a \in Accounts
  PROVE  AfterZombies(a) \in DropCopy
BY StreamTypes DEF AfterZombies, TypeOK

LEMMA AskedKinds ==
  ASSUME NEW a \in Accounts, NEW d \in DropCopy
  PROVE  Asked(a, d) \subseteq Kinds
BY DEF Asked, Kinds

\* A commit only moves requests between sets of kinds.
LEMMA CommitType ==
  ASSUME TypeOK, NEW a \in Accounts, NEW k \in Kinds, Commit(a, k)
  PROVE  /\ sent' \in [Accounts -> SUBSET Kinds]
         /\ have' \in [Accounts -> SUBSET Kinds]
<1>1. sent' \in [Accounts -> SUBSET Kinds]
  BY DEF Commit, TypeOK
<1>2. have' \in [Accounts -> SUBSET Kinds]
  BY DEF Commit, TypeOK
<1> QED BY <1>1, <1>2

----------------------------------------------------------------------------
(* Type correctness *)

LEMMA InitType == Init => TypeOK
<1> SUFFICES ASSUME Init PROVE TypeOK
  OBVIOUS
<1>1. NoStream \in DropCopy
  BY StreamTypes
<1>2. dc \in [Accounts -> DropCopy] /\ \A a \in Accounts : dc[a] = NoStream
  BY <1>1 DEF Init
<1> QED BY <1>2 DEF Init, TypeOK, Kinds

LEMMA TimerType ==
  ASSUME TypeOK,
         NEW send \in [Accounts -> SUBSET Kinds],
         NEW connect \in SUBSET Accounts,
         TimerWith(send, connect)
  PROVE  TypeOK'
<1>1. \A a \in Accounts : /\ dc'[a] = Ticked(a, AfterZombies(a), connect)
                          /\ dc'[a] \in DropCopy
  BY TickedType, AfterZombiesType DEF TimerWith
<1>2. dc' \in [Accounts -> DropCopy]
  BY <1>1 DEF TimerWith
<1>3. ASSUME NEW a \in Accounts, ~Live(a)'
      PROVE  dc'[a] = NoStream
  <2>1. AfterZombies(a).conn = "NONE"
    BY <1>1, <1>3, TickedType, AfterZombiesType DEF Live
  <2>2. AfterZombies(a) = NoStream
    BY <2>1 DEF AfterZombies, TypeOK, Live
  <2> QED BY <1>1, <2>2, TickedType, AfterZombiesType
<1>4. want' \in [Accounts -> SUBSET Kinds]
  BY AskedKinds, AfterZombiesType DEF TimerWith, TypeOK, ZombieWant, Kinds
<1>5. sent' \in [Accounts -> SUBSET Kinds] /\ have' \in [Accounts -> SUBSET Kinds]
  BY DEF TimerWith, TypeOK
<1>6. late' \in [Accounts -> Nat]
  BY TradeSymbolsAssumption DEF TimerWith, LateAfter, TypeOK
<1>7. offered' \in [Accounts -> SUBSET Nat]
  BY DEF TimerWith, OfferedAfter, TypeOK
<1>8. zombies' = {} /\ UNCHANGED <<oe, key, last, refused, done>>
  BY DEF TimerWith
<1> QED BY <1>2, <1>3, <1>4, <1>5, <1>6, <1>7, <1>8 DEF TypeOK

\* A stream that is overwritten by another one keeps the type.
LEMMA UpdateType ==
  ASSUME TypeOK, NEW a \in Accounts, NEW d \in DropCopy,
         d.conn # "NONE", dc' = [dc EXCEPT ![a] = d]
  PROVE  /\ dc' \in [Accounts -> DropCopy]
         /\ \A b \in Accounts : ~Live(b)' => dc'[b] = NoStream
BY DEF TypeOK, Live

LEMMA StepType == TypeOK /\ [Next]_vars => TypeOK'
<1> SUFFICES ASSUME TypeOK, [Next]_vars PROVE TypeOK'
  OBVIOUS
<1>1. CASE Timer
  <2>1. PICK send \in [Accounts -> {{}} \cup {{k} : k \in Kinds}],
             connect \in SUBSET Accounts : TimerWith(send, connect)
    BY <1>1 DEF Timer
  <2>2. send \in [Accounts -> SUBSET Kinds]
    OBVIOUS
  <2> QED BY <2>1, <2>2, TimerType
<1>2. ASSUME NEW a \in Accounts, ListenKeyAck(a) PROVE TypeOK'
  <2>1. PICK k \in offered[a] :
          /\ \/ ~Live(a) /\ dc' = [dc EXCEPT ![a] = Created(k)]
             \/ Live(a) /\ dc[a].key = k /\ UNCHANGED dc
             \/ /\ Live(a) /\ dc[a].key # k
                /\ \E d \in Closed(dc[a]) : dc' = [dc EXCEPT ![a] = d]
          /\ last' = [last EXCEPT ![a] = k]
    BY <1>2 DEF ListenKeyAck, ListenKeyUpdate
  <2>2. k \in Nat /\ "LISTEN_KEY" \in Kinds
    BY DEF TypeOK, Kinds
  <2>3. sent' \in [Accounts -> SUBSET Kinds] /\ have' \in [Accounts -> SUBSET Kinds]
    BY <1>2, <2>2, CommitType DEF ListenKeyAck, ListenKeyUpdate
  <2>4. /\ dc' \in [Accounts -> DropCopy]
        /\ \A b \in Accounts : ~Live(b)' => dc'[b] = NoStream
    <3>1. CASE ~Live(a) /\ dc' = [dc EXCEPT ![a] = Created(k)]
      BY <3>1, <2>2, StreamTypes, UpdateType
    <3>2. CASE UNCHANGED dc
      BY <3>2 DEF TypeOK, Live
    <3>3. ASSUME Live(a), NEW d \in Closed(dc[a]), dc' = [dc EXCEPT ![a] = d]
          PROVE  <2>4!1 /\ <2>4!2
      <4>1. d \in DropCopy /\ d.conn # "NONE"
        BY <3>3, ClosedFacts DEF TypeOK, Live, DropCopy, Connections
      <4> QED BY <3>3, <4>1, UpdateType
    <3> QED BY <2>1, <3>1, <3>2, <3>3
  <2> QED BY <1>2, <2>1, <2>2, <2>3, <2>4 DEF ListenKeyAck, ListenKeyUpdate, TypeOK
<1>3. ASSUME NEW a \in Accounts, ListenKeyError(a) PROVE TypeOK'
  <2>1. sent' \in [Accounts -> SUBSET Kinds] /\ have' \in [Accounts -> SUBSET Kinds]
    BY <1>3, CommitType DEF ListenKeyError, Kinds
  <2> QED BY <1>3, <2>1 DEF ListenKeyError, TypeOK, Live
<1>4. ASSUME NEW a \in Accounts, NEW k \in {"ACCOUNT", "OPEN_ORDERS"}, SnapshotAck(a, k)
      PROVE  TypeOK'
  <2>1. sent' \in [Accounts -> SUBSET Kinds] /\ have' \in [Accounts -> SUBSET Kinds]
    BY <1>4, CommitType DEF SnapshotAck, Kinds, Downloads
  <2> QED BY <1>4, <2>1 DEF SnapshotAck, TypeOK, Live, Kinds, Downloads
<1>5. ASSUME NEW a \in Accounts, UserTradesAck(a) PROVE TypeOK'
  <2>1. sent' \in [Accounts -> SUBSET Kinds] /\ have' \in [Accounts -> SUBSET Kinds]
    BY <1>5, CommitType DEF UserTradesAck, Kinds, Downloads
  <2>2. late' \in [Accounts -> Nat]
    BY <1>5 DEF UserTradesAck, TypeOK
  <2>3. done' \in [Accounts -> SUBSET Kinds]
    BY <1>5 DEF UserTradesAck, TypeOK, Kinds, Downloads
  <2> QED BY <1>5, <2>1, <2>2, <2>3 DEF UserTradesAck, TypeOK, Live
<1>6. ASSUME NEW a \in Accounts, OrderEntryConnected(a) \/ OrderEntryDisconnected(a)
      PROVE  TypeOK'
  BY <1>6 DEF OrderEntryConnected, OrderEntryDisconnected, TypeOK, Live
<1>7. ASSUME NEW a \in Accounts, SocketReady(a) PROVE TypeOK'
  <2>1. Up(dc[a]) \in DropCopy /\ Up(dc[a]).conn # "NONE"
    BY StreamTypes DEF TypeOK
  <2>2. /\ dc' \in [Accounts -> DropCopy]
        /\ \A b \in Accounts : ~Live(b)' => dc'[b] = NoStream
    BY <1>7, <2>1, UpdateType DEF SocketReady
  <2> QED BY <1>7, <2>2 DEF SocketReady, TypeOK, Kinds, Downloads
<1>8. ASSUME NEW a \in Accounts, ConnectFailed(a) PROVE TypeOK'
  BY <1>8 DEF ConnectFailed, TypeOK, Live, DropCopy, Connections
<1>9. ASSUME NEW a \in Accounts, Disconnected(a) PROVE TypeOK'
  <2>1. zombies' \subseteq Accounts
    BY <1>9 DEF Disconnected, Removes, TypeOK
  <2>2. Down(dc[a]) \in DropCopy /\ Down(dc[a]).conn # "NONE"
    BY StreamTypes DEF TypeOK
  <2>3. /\ dc' \in [Accounts -> DropCopy]
        /\ \A b \in Accounts : ~Live(b)' => dc'[b] = NoStream
    BY <1>9, <2>2, UpdateType DEF Disconnected
  <2> QED BY <1>9, <2>1, <2>3 DEF Disconnected, TypeOK
<1>10. ASSUME NEW a \in Accounts, ListenKeyExpired(a) PROVE TypeOK'
  <2>1. PICK d \in Closed(dc[a]) : dc' = [dc EXCEPT ![a] = d]
    BY <1>10 DEF ListenKeyExpired
  <2>2. d \in DropCopy /\ d.conn # "NONE"
    BY <1>10, ClosedFacts DEF ListenKeyExpired, TypeOK
  <2> QED BY <1>10, <2>1, <2>2, UpdateType DEF ListenKeyExpired, TypeOK
<1>11. ASSUME NEW a \in Accounts, Rotate(a) PROVE TypeOK'
  BY <1>11 DEF Rotate, TypeOK, Live
<1>12. ASSUME NEW a \in Accounts, RefreshDue(a) PROVE TypeOK'
  BY <1>12 DEF RefreshDue, TypeOK, Live, DropCopy, Refreshes
<1>13. CASE UNCHANGED vars
  BY <1>13 DEF vars, TypeOK, Live
<1> QED
  BY <1>1, <1>2, <1>3, <1>4, <1>5, <1>6, <1>7, <1>8, <1>9, <1>10, <1>11, <1>12, <1>13
  DEF Next

\* The variables stay in their domains, and a stream that was removed leaves
\* nothing behind for its successor, on every number of accounts.
THEOREM TypeCorrect == Spec => []TypeOK
<1> QED BY InitType, StepType, PTL DEF Spec

----------------------------------------------------------------------------
(* Removal is safe *)

\* Every step but a Disconnected leaves zombies as they are or empties them,
\* and a zombie is moved by the timer only.
LEMMA ZombieStep == TypeOK /\ ZombieSound /\ [Next]_vars => ZombieSound'
<1> SUFFICES ASSUME TypeOK, ZombieSound, [Next]_vars PROVE ZombieSound'
  OBVIOUS
<1> USE DEF ZombieSound
<1>1. CASE Timer
  BY <1>1 DEF Timer, TimerWith
<1>2. ASSUME NEW a \in Accounts, ListenKeyAck(a) PROVE ZombieSound'
  <2>1. zombies' = zombies
    BY <1>2 DEF ListenKeyAck, ListenKeyUpdate
  <2>2. CASE a \in zombies
    <3>1. Live(a) /\ dc[a] \in DropCopy
      BY <2>2 DEF Live, TypeOK
    <3>2. dc' = dc \/ \E d \in Closed(dc[a]) : dc' = [dc EXCEPT ![a] = d]
      BY <1>2, <3>1 DEF ListenKeyAck, ListenKeyUpdate
    <3> QED BY <2>1, <2>2, <3>1, <3>2, ClosedFacts DEF TypeOK
  <2>3. CASE a \notin zombies
    BY <1>2, <2>1, <2>3 DEF ListenKeyAck, ListenKeyUpdate, TypeOK
  <2> QED BY <2>2, <2>3
<1>3. ASSUME NEW a \in Accounts,
             \/ ListenKeyError(a)
             \/ \E k \in {"ACCOUNT", "OPEN_ORDERS"} : SnapshotAck(a, k)
             \/ UserTradesAck(a) \/ OrderEntryConnected(a)
             \/ OrderEntryDisconnected(a) \/ Rotate(a)
      PROVE  ZombieSound'
  BY <1>3 DEF ListenKeyError, SnapshotAck, UserTradesAck, OrderEntryConnected,
              OrderEntryDisconnected, Rotate
<1>4. ASSUME NEW a \in Accounts,
             SocketReady(a) \/ ConnectFailed(a) \/ ListenKeyExpired(a)
      PROVE  ZombieSound'
  <2>1. a \notin zombies
    BY <1>4 DEF SocketReady, ConnectFailed, ListenKeyExpired
  <2>2. /\ zombies' = zombies
        /\ \A z \in zombies : dc'[z] = dc[z]
    BY <1>4, <2>1 DEF SocketReady, ConnectFailed, ListenKeyExpired, TypeOK
  <2> QED BY <2>2
<1>5. ASSUME NEW a \in Accounts, Disconnected(a) PROVE ZombieSound'
  <2>1. /\ \A z \in Accounts \ {a} : dc'[z] = dc[z]
        /\ dc'[a] = Down(dc[a])
        /\ zombies' = zombies \cup Removes(a)
        /\ dc[a] \in DropCopy
    BY <1>5 DEF Disconnected, TypeOK
  <2>2. /\ Down(dc[a]).stop = dc[a].stop
        /\ Down(dc[a]).conn = "DOWN"
        /\ Down(dc[a]).state = "UNDEFINED"
        /\ Down(dc[a]).status = "DISCONNECTED"
    BY <2>1 DEF Down, DropCopy
  <2>3. a \in zombies' => dc[a].stop
    BY <2>1 DEF Removes
  <2>4. ASSUME NEW z \in zombies', z # a
        PROVE  z \in zombies /\ z \in Accounts \ {a}
    BY <2>1, <2>4 DEF Removes, TypeOK
  <2> QED BY <2>1, <2>2, <2>3, <2>4
<1>6. ASSUME NEW a \in Accounts, RefreshDue(a) PROVE ZombieSound'
  <2>1. /\ \A z \in Accounts \ {a} : dc'[z] = dc[z]
        /\ dc'[a] = [dc[a] EXCEPT !.refresh = "DUE"]
        /\ zombies' = zombies
        /\ dc[a] \in DropCopy
    BY <1>6 DEF RefreshDue, TypeOK
  <2> QED BY <2>1 DEF TypeOK, DropCopy
<1>7. CASE UNCHANGED vars
  BY <1>7 DEF vars
<1> QED BY <1>1, <1>2, <1>3, <1>4, <1>5, <1>6, <1>7 DEF Next

\* The timer that empties the list of zombies only ever destroys streams that
\* were stopped, are disconnected, and said so.
THEOREM ZombiesAreDead == Spec => []ZombieSound
<1>1. Init => ZombieSound
  BY DEF Init, ZombieSound
<1> QED BY <1>1, InitType, StepType, ZombieStep, PTL DEF Spec

----------------------------------------------------------------------------
(* READY means downloaded *)

\* The downloads a session must have behind it in a state.
Behind(s) ==
  CASE s = "OPEN_ORDERS" -> {"ACCOUNT"}
    [] s = "USER_TRADES" -> {"ACCOUNT", "OPEN_ORDERS"}
    [] s = "DONE"        -> Required
    [] OTHER             -> {}

\* The inductive strengthening of ReadyMeansDownloaded: the status follows the
\* state of the download, a download needs a session, every state has its
\* predecessors behind it, and a response to the current state's request was
\* committed in this session, because entering the state discarded older ones.
DownloadOf(a) ==
  /\ dc[a].state = "DONE" <=> dc[a].status = "READY"
  /\ dc[a].state \in Downloads <=> dc[a].status = "DOWNLOADING"
  /\ dc[a].state # "UNDEFINED" => dc[a].conn \in {"READY", "CLOSING"}
  /\ Behind(dc[a].state) \subseteq done[a]
  /\ dc[a].state \in Downloads \cap have[a] => dc[a].state \in done[a]

DownloadInv == \A a \in Accounts : DownloadOf(a)

\* The next state has the current one behind it.
LEMMA BehindFollowing ==
  ASSUME NEW s \in Downloads
  PROVE  /\ Behind(Following(s)) \subseteq Behind(s) \cup {s}
         /\ Following(s) \in (Downloads \ {s}) \cup {"DONE"}
<1> USE TradeSymbolsAssumption DEF Downloads, Required
<1>1. CASE s = "ACCOUNT"
  BY <1>1 DEF Behind, Following
<1>2. CASE s = "OPEN_ORDERS"
  BY <1>2 DEF Behind, Following
<1>3. CASE s = "USER_TRADES"
  BY <1>3 DEF Behind, Following
<1> QED BY <1>1, <1>2, <1>3

\* A step that leaves the stream of an account alone, or what the download
\* sees of it, and only adds answered downloads, keeps its download sound.
LEMMA DownloadKept ==
  ASSUME NEW a \in Accounts, DownloadOf(a),
         dc'[a].state = dc[a].state, dc'[a].status = dc[a].status,
         \/ dc'[a].conn = dc[a].conn
         \/ dc[a].conn = "READY" /\ dc'[a].conn = "CLOSING"
         \/ dc[a].conn \notin {"READY", "CLOSING"},
         done[a] \subseteq done'[a],
         have'[a] \cap Downloads \subseteq have[a] \cup done'[a]
  PROVE  DownloadOf(a)'
BY DEF DownloadOf

\* One timer of one stream.
LEMMA TickedDownload ==
  ASSUME TypeOK, NEW a \in Accounts, NEW d \in DropCopy, NEW connect,
         DownloadOf(a), d = dc[a],
         dc'[a] = Ticked(a, d, connect), done'[a] = done[a],
         have'[a] \subseteq have[a] \ Asked(a, d)
  PROVE  DownloadOf(a)'
<1>1. CASE d.conn = "READY" /\ Advances(a, d)
  <2> DEFINE s == d.state
             n == Following(s)
  <2>1. s \in Downloads /\ s \in have[a] /\ n \in States
    BY <1>1, StreamTypes DEF Advances
  <2>2. dc'[a] = CheckListenKey(Enter(d, n))
    BY <1>1 DEF Ticked, CheckResponse
  <2>3. Enter(d, n) \in DropCopy
    BY <2>1, StreamTypes
  <2>4. /\ Enter(d, n).state = n /\ Enter(d, n).conn = d.conn
        /\ Enter(d, n).status = IF n = "DONE" THEN "READY" ELSE "DOWNLOADING"
    BY DEF Enter, DropCopy
  <2>5. /\ dc'[a].state = n /\ dc'[a].conn = "READY"
        /\ dc'[a].status = IF n = "DONE" THEN "READY" ELSE "DOWNLOADING"
    BY <1>1, <2>2, <2>3, <2>4 DEF CheckListenKey, DropCopy
  <2>6. Behind(n) \subseteq done'[a]
    BY <2>1, BehindFollowing DEF DownloadOf
  <2>7. n \in Downloads => n \notin have'[a]
    BY <1>1, <2>1 DEF Asked
  <2>8. n \in Downloads \cup {"DONE"} /\ "DONE" \notin Downloads /\ n # "UNDEFINED"
    BY <2>1, BehindFollowing DEF Downloads
  <2> HIDE DEF n, s
  <2> QED BY <2>5, <2>6, <2>7, <2>8 DEF DownloadOf
<1>2. CASE d.conn = "READY" /\ ~Advances(a, d)
  <2>1. dc'[a] = CheckListenKey(d)
    BY <1>2 DEF Ticked, CheckResponse
  <2>2. dc'[a].state = d.state /\ dc'[a].status = d.status /\ dc'[a].conn = d.conn
    BY <2>1 DEF CheckListenKey, DropCopy
  <2> QED BY <2>2, DownloadKept
<1>3. CASE d.conn # "READY"
  <2>1. /\ dc'[a].state = d.state /\ dc'[a].status = d.status
        /\ dc'[a].conn = d.conn \/ d.conn = "DOWN"
    BY <1>3 DEF Ticked, DropCopy
  <2> QED BY <2>1, DownloadKept
<1> QED BY <1>1, <1>2, <1>3

LEMMA DownloadStep == TypeOK /\ DownloadInv /\ [Next]_vars => DownloadInv'
<1> SUFFICES ASSUME TypeOK, DownloadInv, [Next]_vars, NEW b \in Accounts
             PROVE  DownloadOf(b)'
  BY DEF DownloadInv
<1> DownloadOf(b) /\ dc[b] \in DropCopy
  BY DEF DownloadInv, TypeOK
<1>1. CASE Timer
  <2>1. PICK send \in [Accounts -> {{}} \cup {{k} : k \in Kinds}],
             connect \in SUBSET Accounts : TimerWith(send, connect)
    BY <1>1 DEF Timer
  <2>2. /\ dc'[b] = Ticked(b, AfterZombies(b), connect)
        /\ done'[b] = done[b]
        /\ have'[b] = have[b] \ (ZombieWant(b) \cup Asked(b, AfterZombies(b)))
    BY <2>1 DEF TimerWith
  <2>3. CASE b \in zombies
    <3>1. dc'[b] = NoStream
      BY <2>2, <2>3, TickedType, StreamTypes DEF AfterZombies
    <3> QED BY <3>1 DEF NoStream, Created, DownloadOf, Behind, Downloads
  <2>4. CASE b \notin zombies
    BY <2>2, <2>4, TickedDownload DEF AfterZombies
  <2> QED BY <2>3, <2>4
<1>2. ASSUME NEW a \in Accounts, ListenKeyAck(a) PROVE DownloadOf(b)'
  <2>1. /\ done' = done
        /\ have'[b] \cap Downloads \subseteq have[b]
    BY <1>2 DEF ListenKeyAck, ListenKeyUpdate, Commit, TypeOK, Downloads
  <2>2. CASE dc'[b] = dc[b]
    BY <2>1, <2>2, DownloadKept
  <2>3. CASE a = b /\ ~Live(b)
    <3>1. PICK k \in offered[b] : dc'[b] = Created(k)
      BY <1>2, <2>3 DEF ListenKeyAck, ListenKeyUpdate, TypeOK
    <3> QED BY <3>1 DEF Created, DownloadOf, Behind, Downloads
  <2>4. CASE a = b /\ \E d \in Closed(dc[b]) : dc'[b] = d
    <3>1. PICK d \in Closed(dc[b]) : dc'[b] = d
      BY <2>4
    <3> QED BY <2>1, <3>1, ClosedFacts, DownloadKept
  <2> QED BY <1>2, <2>2, <2>3, <2>4 DEF ListenKeyAck, ListenKeyUpdate, TypeOK
<1>3. ASSUME NEW a \in Accounts, ListenKeyError(a) PROVE DownloadOf(b)'
  <2>1. /\ dc' = dc /\ done' = done
        /\ have'[b] \cap Downloads \subseteq have[b]
    BY <1>3 DEF ListenKeyError, Commit, TypeOK, Downloads
  <2> QED BY <2>1, DownloadKept
<1>4. ASSUME NEW a \in Accounts, NEW k \in Kinds,
             dc' = dc, done' = [done EXCEPT ![a] = @ \cup {k}], Commit(a, k)
      PROVE  DownloadOf(b)'
  <2>1. /\ done[b] \subseteq done'[b]
        /\ have'[b] \subseteq have[b] \cup done'[b]
    BY <1>4 DEF Commit, TypeOK
  <2> QED BY <1>4, <2>1, DownloadKept
<1>5. ASSUME NEW a \in Accounts,
             \/ \E k \in {"ACCOUNT", "OPEN_ORDERS"} : SnapshotAck(a, k)
             \/ UserTradesAck(a)
      PROVE  DownloadOf(b)'
  BY <1>4, <1>5 DEF SnapshotAck, UserTradesAck, Kinds, Downloads
<1>6. ASSUME NEW a \in Accounts,
             OrderEntryConnected(a) \/ OrderEntryDisconnected(a) \/ Rotate(a)
      PROVE  DownloadOf(b)'
  BY <1>6, DownloadKept DEF OrderEntryConnected, OrderEntryDisconnected, Rotate
<1>7. ASSUME NEW a \in Accounts, SocketReady(a) PROVE DownloadOf(b)'
  <2>1. CASE a # b
    BY <1>7, <2>1, DownloadKept DEF SocketReady, TypeOK
  <2>2. CASE a = b
    <3>1. dc'[b] = Up(dc[b]) /\ "ACCOUNT" \notin have'[b]
      BY <1>7, <2>2 DEF SocketReady, TypeOK
    <3>2. /\ Up(dc[b]).state = "ACCOUNT" /\ Up(dc[b]).status = "DOWNLOADING"
          /\ Up(dc[b]).conn = "READY"
      BY DEF Up, Enter, DropCopy
    <3> QED BY <3>1, <3>2 DEF DownloadOf, Behind, Downloads
  <2> QED BY <2>1, <2>2
<1>8. ASSUME NEW a \in Accounts, ConnectFailed(a) PROVE DownloadOf(b)'
  <2>1. /\ dc'[b].state = dc[b].state /\ dc'[b].status = dc[b].status
        /\ dc'[b].conn = dc[b].conn \/ dc[b].conn = "CONNECTING"
    BY <1>8 DEF ConnectFailed, TypeOK, DropCopy
  <2> QED BY <1>8, <2>1, DownloadKept DEF ConnectFailed
<1>9. ASSUME NEW a \in Accounts, Disconnected(a) PROVE DownloadOf(b)'
  <2>1. CASE a # b
    BY <1>9, <2>1, DownloadKept DEF Disconnected, TypeOK
  <2>2. CASE a = b
    <3>1. dc'[b] = Down(dc[b])
      BY <1>9, <2>2 DEF Disconnected, TypeOK
    <3>2. Down(dc[b]).state = "UNDEFINED" /\ Down(dc[b]).status = "DISCONNECTED"
      BY DEF Down, DropCopy
    <3> QED BY <3>1, <3>2 DEF DownloadOf, Behind, Downloads
  <2> QED BY <2>1, <2>2
<1>10. ASSUME NEW a \in Accounts, ListenKeyExpired(a) PROVE DownloadOf(b)'
  <2>1. CASE a # b
    BY <1>10, <2>1, DownloadKept DEF ListenKeyExpired, TypeOK
  <2>2. CASE a = b
    <3>1. PICK d \in Closed(dc[b]) : dc'[b] = d
      BY <1>10, <2>2 DEF ListenKeyExpired, TypeOK
    <3> QED BY <1>10, <3>1, ClosedFacts, DownloadKept DEF ListenKeyExpired
  <2> QED BY <2>1, <2>2
<1>11. ASSUME NEW a \in Accounts, RefreshDue(a) PROVE DownloadOf(b)'
  <2>1. /\ dc'[b].state = dc[b].state /\ dc'[b].status = dc[b].status
        /\ dc'[b].conn = dc[b].conn
    BY <1>11 DEF RefreshDue, TypeOK, DropCopy
  <2> QED BY <1>11, <2>1, DownloadKept DEF RefreshDue
<1>12. CASE UNCHANGED vars
  BY <1>12, DownloadKept DEF vars
<1> QED
  BY <1>1, <1>2, <1>3, <1>5, <1>6, <1>7, <1>8, <1>9, <1>10, <1>11, <1>12 DEF Next

\* READY is published over a socket that is up, after every download the
\* configuration requires was answered in this very session.
THEOREM ReadyIsDownloaded == Spec => []ReadyMeansDownloaded
<1>1. Init => DownloadInv
  <2> SUFFICES ASSUME Init, NEW a \in Accounts PROVE DownloadOf(a)
    BY DEF DownloadInv
  <2>1. dc[a] = NoStream
    BY DEF Init
  <2> QED BY <2>1 DEF NoStream, Created, DownloadOf, Behind, Downloads
<1>2. DownloadInv => ReadyMeansDownloaded
  <2> SUFFICES ASSUME DownloadInv, NEW a \in Accounts
               PROVE  /\ dc[a].status = "READY" => Required \subseteq done[a]
                      /\ dc[a].status \in {"DOWNLOADING", "READY"}
                           => dc[a].conn \in {"READY", "CLOSING"}
    BY DEF ReadyMeansDownloaded
  <2> QED BY DEF DownloadInv, DownloadOf, Behind, Downloads
<1> QED BY <1>1, <1>2, InitType, StepType, DownloadStep, PTL DEF Spec

----------------------------------------------------------------------------
(* A download waits only for what comes *)

\* The inductive strengthening of DownloadComing: user-trades are waited for only
\* if there are symbols to ask for, so that a request for them gets an answer.
ComingOf(a) ==
  /\ dc[a].state = "USER_TRADES" => TradeSymbols > 0
  /\ dc[a].conn = "READY" /\ dc[a].state \in Downloads => Coming(a, dc[a].state)

ComingInv == \A a \in Accounts : ComingOf(a)

\* A step that leaves the state of the download alone keeps it sound, unless it
\* loses a request.
LEMMA ComingKept ==
  ASSUME NEW a \in Accounts, ComingOf(a),
         dc'[a].state = dc[a].state, dc'[a].conn = "READY" => dc[a].conn = "READY",
         want[a] \subseteq want'[a], have[a] \subseteq have'[a], sent[a] \subseteq sent'[a],
         late'[a] = late[a]
  PROVE  ComingOf(a)'
BY DEF ComingOf, Coming

\* A committed request was answered, or a newer one is queued.
LEMMA CommitComing ==
  ASSUME TypeOK, NEW a \in Accounts, NEW k \in Kinds, Commit(a, k), UNCHANGED want,
         NEW b \in Accounts, ComingOf(b),
         dc'[b].state = dc[b].state, dc'[b].conn = "READY" => dc[b].conn = "READY",
         k # "USER_TRADES" \/ a # b => late'[b] = late[b]
  PROVE  ComingOf(b)'
<1>1. CASE a # b
  <2>1. sent'[b] = sent[b] /\ have'[b] = have[b] /\ late'[b] = late[b]
    BY <1>1 DEF Commit, TypeOK
  <2> QED BY <2>1, ComingKept
<1>2. CASE a = b
  <2>1. /\ sent'[b] = sent[b] \ {k} /\ want'[b] = want[b]
        /\ have[b] \subseteq have'[b] /\ k \in want'[b] \cup have'[b]
    BY <1>2 DEF Commit, TypeOK
  <2>2. k = "USER_TRADES" \/ late'[b] = late[b]
    OBVIOUS
  <2> QED BY <2>1, <2>2 DEF ComingOf, Coming
<1> QED BY <1>1, <1>2

\* The state that follows is waited for with a request of its own.
LEMMA TickedComing ==
  ASSUME TypeOK, NEW a \in Accounts, ComingOf(a), a \notin zombies,
         NEW send \in [Accounts -> {{}} \cup {{k} : k \in Kinds}], NEW connect,
         TimerWith(send, connect)
  PROVE  ComingOf(a)'
<1> DEFINE d == dc[a]
<1>1. /\ dc'[a] = Ticked(a, d, connect)
      /\ want'[a] = (want[a] \ send[a]) \cup Asked(a, d)
      /\ sent'[a] = sent[a] \cup send[a]
      /\ have'[a] = have[a] \ Asked(a, d)
      /\ late'[a] = LateAfter(a, send[a])
  BY DEF TimerWith, AfterZombies, ZombieWant
<1>2. d \in DropCopy /\ late[a] \in Nat
  BY DEF TypeOK
<1>3. CASE d.conn = "READY" /\ Advances(a, d)
  <2>1. dc'[a] = CheckListenKey(Enter(d, Following(d.state)))
    BY <1>1, <1>3 DEF Ticked, CheckResponse
  <2>2. dc'[a].state = Following(d.state)
    BY <2>1, <1>2 DEF CheckListenKey, Enter, DropCopy
  <2>3. Following(d.state) \in Downloads => Following(d.state) \in want'[a]
    BY <1>1, <1>3 DEF Asked
  <2>4. Following(d.state) = "USER_TRADES" => TradeSymbols > 0
    BY DEF Following
  <2> HIDE DEF d
  <2> QED BY <2>2, <2>3, <2>4 DEF ComingOf, Coming
<1>4. CASE d.conn = "READY" /\ ~Advances(a, d)
  <2>1. dc'[a] = CheckListenKey(d)
    BY <1>1, <1>4 DEF Ticked, CheckResponse
  <2>2. dc'[a].state = d.state /\ dc'[a].conn = d.conn
    BY <2>1, <1>2 DEF CheckListenKey, DropCopy
  <2>3. Asked(a, d) \cap Downloads = {}
    BY <1>4 DEF Asked, Downloads
  <2>4. CASE d.state \in Downloads
    <3>1. Coming(a, d.state)
      BY <1>4, <2>4 DEF ComingOf
    <3>2. d.state = "USER_TRADES" => TradeSymbols > 0
      BY DEF ComingOf
    <3>3. /\ send[a] \in {{}} \cup {{k} : k \in Kinds}
          /\ "USER_TRADES" \in send[a] => late'[a] = late[a] + TradeSymbols
          /\ "USER_TRADES" \notin send[a] => late'[a] = late[a]
      BY <1>1 DEF LateAfter
    <3>4. d.state \in have[a] => d.state \in have'[a]
      BY <1>1, <2>3, <2>4
    <3>5. d.state \in want[a] => d.state \in want'[a] \cup send[a]
      BY <1>1
    <3>6. d.state = "USER_TRADES" /\ (d.state \in send[a] \/ late[a] > 0) => late'[a] > 0
      BY <1>2, <3>2, <3>3, TradeSymbolsAssumption
    <3>7. Coming(a, d.state)'
      <4> HIDE DEF d
      <4>1. \/ d.state \in want'[a] \cup have'[a]
            \/ d.state \in send[a]
            \/ d.state \in sent[a] /\ (d.state = "USER_TRADES" => late[a] > 0)
        BY <3>1, <3>4, <3>5 DEF Coming
      <4>2. \/ d.state \in want'[a] \cup have'[a]
            \/ d.state \in sent'[a] /\ (d.state = "USER_TRADES" => late'[a] > 0)
        BY <1>1, <3>6, <4>1
      <4>3. d'.state = d.state
        BY <2>2 DEF d
      <4> QED BY <4>2, <4>3 DEF Coming
    <3> QED BY <2>2, <3>2, <3>7 DEF ComingOf, Coming
  <2>5. CASE d.state \notin Downloads
    BY <2>2, <2>5 DEF ComingOf, Downloads
  <2> QED BY <2>4, <2>5
<1>5. CASE d.conn # "READY"
  <2>1. dc'[a].state = d.state /\ dc'[a].conn # "READY"
    BY <1>1, <1>2, <1>5 DEF Ticked, DropCopy
  <2> QED BY <2>1 DEF ComingOf
<1> QED BY <1>3, <1>4, <1>5

LEMMA ComingStep == TypeOK /\ ComingInv /\ [Next]_vars => ComingInv'
<1> SUFFICES ASSUME TypeOK, ComingInv, [Next]_vars, NEW b \in Accounts
             PROVE  ComingOf(b)'
  BY DEF ComingInv
<1> ComingOf(b) /\ dc[b] \in DropCopy
  BY DEF ComingInv, TypeOK
<1>1. CASE Timer
  <2>1. PICK send \in [Accounts -> {{}} \cup {{k} : k \in Kinds}],
             connect \in SUBSET Accounts : TimerWith(send, connect)
    BY <1>1 DEF Timer
  <2>2. CASE b \in zombies
    <3>1. dc'[b] = Ticked(b, NoStream, connect)
      BY <2>1, <2>2 DEF TimerWith, AfterZombies
    <3>2. dc'[b] = NoStream
      BY <3>1, TickedType, StreamTypes
    <3> QED BY <3>2 DEF NoStream, Created, ComingOf, Downloads
  <2> QED BY <2>1, <2>2, TickedComing
<1>2. ASSUME NEW a \in Accounts, ListenKeyAck(a) PROVE ComingOf(b)'
  <2>1. Commit(a, "LISTEN_KEY") /\ UNCHANGED <<want, late>>
    BY <1>2 DEF ListenKeyAck
  <2>2. CASE a = b /\ ~Live(b)
    <3>1. PICK k \in offered[b] : dc'[b] = Created(k)
      BY <1>2, <2>2 DEF ListenKeyAck, ListenKeyUpdate, TypeOK
    <3> QED BY <3>1 DEF Created, ComingOf, Downloads
  <2>3. CASE ~(a = b /\ ~Live(b))
    <3>1. dc'[b] = dc[b] \/ \E d \in Closed(dc[b]) : dc'[b] = d
      BY <1>2, <2>3 DEF ListenKeyAck, ListenKeyUpdate, TypeOK
    <3>2. dc'[b].state = dc[b].state /\ (dc'[b].conn = "READY" => dc[b].conn = "READY")
      BY <3>1, ClosedFacts
    <3> QED BY <2>1, <3>2, CommitComing DEF Kinds
  <2> QED BY <2>2, <2>3
<1>3. ASSUME NEW a \in Accounts, ListenKeyError(a) PROVE ComingOf(b)'
  BY <1>3, CommitComing DEF ListenKeyError, Kinds
<1>4. ASSUME NEW a \in Accounts, NEW k \in {"ACCOUNT", "OPEN_ORDERS"}, SnapshotAck(a, k)
      PROVE  ComingOf(b)'
  BY <1>4, CommitComing DEF SnapshotAck, Kinds, Downloads
<1>5. ASSUME NEW a \in Accounts, UserTradesAck(a) PROVE ComingOf(b)'
  <2>1. a # b => late'[b] = late[b]
    BY <1>5 DEF UserTradesAck, TypeOK
  <2> QED BY <1>5, <2>1, CommitComing DEF UserTradesAck, Kinds, Downloads
<1>6. ASSUME NEW a \in Accounts,
             OrderEntryConnected(a) \/ OrderEntryDisconnected(a) \/ Rotate(a)
      PROVE  ComingOf(b)'
  BY <1>6, ComingKept DEF OrderEntryConnected, OrderEntryDisconnected, Rotate
<1>7. ASSUME NEW a \in Accounts, SocketReady(a) PROVE ComingOf(b)'
  <2>1. CASE a # b
    BY <1>7, <2>1, ComingKept DEF SocketReady, TypeOK
  <2>2. CASE a = b
    <3>1. dc'[b] = Up(dc[b]) /\ "ACCOUNT" \in want'[b]
      BY <1>7, <2>2 DEF SocketReady, TypeOK
    <3>2. Up(dc[b]).state = "ACCOUNT"
      BY DEF Up, Enter, DropCopy
    <3> QED BY <3>1, <3>2 DEF ComingOf, Coming
  <2> QED BY <2>1, <2>2
<1>8. ASSUME NEW a \in Accounts, ConnectFailed(a) \/ RefreshDue(a)
      PROVE  ComingOf(b)'
  <2>1. CASE ConnectFailed(a)
    <3>1. dc'[b].state = dc[b].state /\ dc'[b].conn \in {dc[b].conn, "DOWN"}
      BY <2>1 DEF ConnectFailed, TypeOK, DropCopy
    <3> QED BY <2>1, <3>1, ComingKept DEF ConnectFailed
  <2>2. CASE RefreshDue(a)
    <3>1. dc'[b].state = dc[b].state /\ dc'[b].conn = dc[b].conn
      BY <2>2 DEF RefreshDue, TypeOK, DropCopy
    <3> QED BY <2>2, <3>1, ComingKept DEF RefreshDue
  <2> QED BY <1>8, <2>1, <2>2
<1>9. ASSUME NEW a \in Accounts, Disconnected(a) PROVE ComingOf(b)'
  <2>1. CASE a # b
    BY <1>9, <2>1, ComingKept DEF Disconnected, TypeOK
  <2>2. CASE a = b
    <3>1. dc'[b] = Down(dc[b])
      BY <1>9, <2>2 DEF Disconnected, TypeOK
    <3>2. Down(dc[b]).state = "UNDEFINED"
      BY DEF Down, DropCopy
    <3> QED BY <3>1, <3>2 DEF ComingOf, Downloads
  <2> QED BY <2>1, <2>2
<1>10. ASSUME NEW a \in Accounts, ListenKeyExpired(a) PROVE ComingOf(b)'
  <2>1. dc'[b] = dc[b] \/ \E d \in Closed(dc[b]) : dc'[b] = d
    BY <1>10 DEF ListenKeyExpired, TypeOK
  <2>2. dc'[b].state = dc[b].state /\ (dc'[b].conn = "READY" => dc[b].conn = "READY")
    BY <2>1, ClosedFacts
  <2> QED BY <1>10, <2>2, ComingKept DEF ListenKeyExpired
<1>11. CASE UNCHANGED vars
  BY <1>11, ComingKept DEF vars
<1> QED
  BY <1>1, <1>2, <1>3, <1>4, <1>5, <1>6, <1>7, <1>8, <1>9, <1>10, <1>11 DEF Next

\* The safety core of a download that ends: a session never waits for a response
\* that cannot come, although the requests outlive the sessions.
THEOREM NothingLost == Spec => []DownloadComing
<1>1. Init => ComingInv
  <2> SUFFICES ASSUME Init, NEW a \in Accounts PROVE ComingOf(a)
    BY DEF ComingInv
  <2>1. dc[a] = NoStream
    BY DEF Init
  <2> QED BY <2>1 DEF NoStream, Created, ComingOf, Downloads
<1>2. ComingInv => DownloadComing
  BY DEF ComingInv, ComingOf, DownloadComing
<1> QED BY <1>1, <1>2, InitType, StepType, ComingStep, PTL DEF Spec

----------------------------------------------------------------------------
(* Streams are replaced cleanly, and no account is forgotten *)

\* The two things that may happen to a stream in a step.
Keeps(a)  == Live(a)' /\ dc'[a].key = dc[a].key /\ (dc[a].stop => dc'[a].stop)
Leaves(a) == /\ ~Live(a)'
             /\ dc[a].stop /\ dc[a].status = "DISCONNECTED"
             /\ "LISTEN_KEY" \in want'[a] \cup sent'[a]

\* The timer loses no request: what it does not send, it still wants.
LEMMA TimerKeepsRequests ==
  ASSUME TypeOK, NEW a \in Accounts, NEW send \in [Accounts -> SUBSET Kinds],
         NEW connect, TimerWith(send, connect),
         "LISTEN_KEY" \in want[a] \cup ZombieWant(a) \cup sent[a]
  PROVE  "LISTEN_KEY" \in want'[a] \cup sent'[a]
BY DEF TimerWith, TypeOK

\* What the timer does to one stream, the removal included.
LEMMA TimerOnStream ==
  ASSUME TypeOK, NEW a \in Accounts, NEW send, NEW connect, TimerWith(send, connect)
  PROVE  /\ a \in zombies => ~Live(a)'
         /\ a \notin zombies => /\ Live(a)' <=> Live(a)
                               /\ dc'[a].key = dc[a].key
                               /\ dc'[a].stop = dc[a].stop
<1>1. dc'[a] = Ticked(a, AfterZombies(a), connect)
  BY DEF TimerWith
<1>2. CASE a \in zombies
  <2>1. dc'[a] = NoStream
    BY <1>1, <1>2, StreamTypes, TickedType DEF AfterZombies
  <2> QED BY <1>2, <2>1 DEF Live, NoStream, Created
<1>3. CASE a \notin zombies
  <2>1. AfterZombies(a) = dc[a] /\ dc[a] \in DropCopy
    BY <1>3 DEF AfterZombies, TypeOK
  <2>2. /\ dc[a] = NoStream => dc'[a] = NoStream
        /\ dc[a].conn # "NONE" => dc'[a].conn # "NONE"
        /\ dc'[a].key = dc[a].key /\ dc'[a].stop = dc[a].stop
    BY <1>1, <2>1, TickedType
  <2>3. ~Live(a) => dc[a] = NoStream
    BY DEF TypeOK
  <2>4. NoStream.conn = "NONE"
    BY DEF NoStream, Created
  <2> QED BY <1>3, <2>2, <2>3, <2>4 DEF Live
<1> QED BY <1>2, <1>3

\* A stream that exists is kept, or leaves the way ReplacedCleanly says.
LEMMA ReplaceStep ==
  ASSUME TypeOK, ZombieSound, [Next]_vars, NEW a \in Accounts, Live(a)
  PROVE  Keeps(a) \/ Leaves(a)
<1> dc[a] \in DropCopy
  BY DEF TypeOK
<1>1. CASE Timer
  <2>1. PICK send \in [Accounts -> {{}} \cup {{k} : k \in Kinds}],
             connect \in SUBSET Accounts : TimerWith(send, connect)
    BY <1>1 DEF Timer
  <2>2. send \in [Accounts -> SUBSET Kinds]
    OBVIOUS
  <2>3. CASE a \in zombies
    <3>1. "LISTEN_KEY" \in ZombieWant(a)
      BY <2>3 DEF ZombieWant
    <3>2. "LISTEN_KEY" \in want'[a] \cup sent'[a]
      BY <2>1, <2>2, <3>1, TimerKeepsRequests
    <3>3. dc[a].stop /\ dc[a].status = "DISCONNECTED"
      BY <2>3 DEF ZombieSound
    <3> QED BY <2>1, <2>3, <3>2, <3>3, TimerOnStream DEF Leaves
  <2>4. CASE a \notin zombies
    BY <2>1, <2>4, TimerOnStream DEF Keeps
  <2> QED BY <2>3, <2>4
<1>2. ASSUME NEW b \in Accounts, NEW d \in Closed(dc[b]), Live(b), dc' = [dc EXCEPT ![b] = d]
      PROVE  Keeps(a)
  <2>1. dc[b] \in DropCopy
    BY DEF TypeOK
  <2>2. d.stop /\ d.key = dc[b].key /\ d.conn # "NONE"
    BY <1>2, <2>1, ClosedFacts DEF Live
  <2> QED BY <1>2, <2>2 DEF Keeps, Live, TypeOK
<1>3. ASSUME UNCHANGED dc PROVE Keeps(a)
  BY <1>3 DEF Keeps, Live
<1>4. ASSUME NEW b \in Accounts, ListenKeyAck(b) PROVE Keeps(a)
  <2>1. PICK k \in offered[b] : ListenKeyUpdate(b, k)
    BY <1>4 DEF ListenKeyAck
  <2>2. CASE ~Live(b) /\ dc' = [dc EXCEPT ![b] = Created(k)]
    BY <2>2 DEF Keeps, Live, TypeOK
  <2> QED BY <1>2, <1>3, <2>1, <2>2 DEF ListenKeyUpdate
<1>5. ASSUME NEW b \in Accounts, ListenKeyExpired(b) PROVE Keeps(a)
  BY <1>2, <1>5 DEF ListenKeyExpired, Live
<1>6. ASSUME NEW b \in Accounts,
             \/ ListenKeyError(b)
             \/ \E k \in {"ACCOUNT", "OPEN_ORDERS"} : SnapshotAck(b, k)
             \/ UserTradesAck(b) \/ OrderEntryConnected(b)
             \/ OrderEntryDisconnected(b) \/ Rotate(b)
      PROVE  Keeps(a)
  BY <1>3, <1>6 DEF ListenKeyError, SnapshotAck, UserTradesAck, OrderEntryConnected,
                    OrderEntryDisconnected, Rotate
<1>7. ASSUME NEW b \in Accounts,
             SocketReady(b) \/ ConnectFailed(b) \/ Disconnected(b) \/ RefreshDue(b)
      PROVE  Keeps(a)
  <2>1. CASE SocketReady(b)
    BY <2>1 DEF SocketReady, Up, Enter, Keeps, Live, TypeOK, DropCopy
  <2>2. CASE ConnectFailed(b)
    BY <2>2 DEF ConnectFailed, Keeps, Live, TypeOK, DropCopy
  <2>3. CASE Disconnected(b)
    BY <2>3 DEF Disconnected, Down, Keeps, Live, TypeOK, DropCopy
  <2>4. CASE RefreshDue(b)
    BY <2>4 DEF RefreshDue, Keeps, Live, TypeOK, DropCopy
  <2> QED BY <1>7, <2>1, <2>2, <2>3, <2>4
<1>8. CASE UNCHANGED vars
  BY <1>3, <1>8 DEF vars
<1> QED BY <1>1, <1>4, <1>5, <1>6, <1>7, <1>8 DEF Next

\* On every number of accounts: a stream keeps its key for life, and goes away
\* only stopped, announced as DISCONNECTED and with its successor asked for.
THEOREM ReplacedOnlyWhenStopped == Spec => ReplacedCleanly
<1>1. TypeOK /\ ZombieSound /\ [Next]_vars =>
        [\A a \in Accounts : Live(a) =>
           \/ Live(a)' /\ dc'[a].key = dc[a].key /\ (dc[a].stop => dc'[a].stop)
           \/ /\ ~Live(a)'
              /\ dc[a].stop /\ dc[a].status = "DISCONNECTED"
              /\ "LISTEN_KEY" \in want'[a] \cup sent'[a]]_vars
  BY ReplaceStep DEF Keeps, Leaves
<1>2. Init => ZombieSound
  BY DEF Init, ZombieSound
<1> QED BY <1>1, <1>2, InitType, StepType, ZombieStep, PTL DEF Spec, ReplacedCleanly

\* A stream whose key is not the last one answered has been told to stop: the
\* step from Keeps, and from the answer that brings a new key.
LEMMA StaleStep ==
  TypeOK /\ ZombieSound /\ StaleIsStopped /\ [Next]_vars => StaleIsStopped'
<1> SUFFICES ASSUME TypeOK, ZombieSound, StaleIsStopped, [Next]_vars,
                    NEW a \in Accounts, Live(a)', dc'[a].key # last'[a]
             PROVE  dc'[a].stop
  BY DEF StaleIsStopped
<1>1. ASSUME Live(a), last'[a] = last[a] PROVE dc'[a].stop
  BY <1>1, ReplaceStep DEF Keeps, Leaves, StaleIsStopped
<1>2. CASE Timer
  <2>1. PICK send \in [Accounts -> {{}} \cup {{k} : k \in Kinds}],
             connect \in SUBSET Accounts : TimerWith(send, connect)
    BY <1>2 DEF Timer
  <2>2. Live(a) /\ last' = last
    BY <2>1, TimerOnStream DEF TimerWith
  <2> QED BY <1>1, <2>2
<1>3. ASSUME NEW b \in Accounts, ListenKeyAck(b) PROVE dc'[a].stop
  <2>1. PICK k \in offered[b] : ListenKeyUpdate(b, k) /\ last' = [last EXCEPT ![b] = k]
    BY <1>3 DEF ListenKeyAck
  <2>2. CASE a # b
    <3>1. dc'[a] = dc[a] /\ last'[a] = last[a]
      BY <2>1, <2>2 DEF ListenKeyUpdate, TypeOK
    <3> QED BY <1>1, <3>1 DEF Live
  <2>3. CASE a = b
    <3>1. last'[a] = k
      BY <2>1, <2>3 DEF TypeOK
    <3>2. ~(~Live(a) /\ dc' = [dc EXCEPT ![a] = Created(k)])
      BY <3>1 DEF TypeOK, Created
    <3>3. ~(dc[a].key = k /\ UNCHANGED dc)
      BY <3>1
    <3>4. PICK d \in Closed(dc[a]) : dc' = [dc EXCEPT ![a] = d]
      BY <2>1, <2>3, <3>2, <3>3 DEF ListenKeyUpdate
    <3> QED BY <3>4, ClosedFacts DEF TypeOK
  <2> QED BY <2>2, <2>3
<1>4. ASSUME NEW b \in Accounts,
             \/ ListenKeyError(b)
             \/ \E k \in {"ACCOUNT", "OPEN_ORDERS"} : SnapshotAck(b, k)
             \/ UserTradesAck(b) \/ OrderEntryConnected(b)
             \/ OrderEntryDisconnected(b) \/ Rotate(b)
      PROVE  dc'[a].stop
  <2>1. UNCHANGED <<dc, last>>
    BY <1>4 DEF ListenKeyError, SnapshotAck, UserTradesAck, OrderEntryConnected,
                OrderEntryDisconnected, Rotate
  <2> QED BY <1>1, <2>1 DEF Live
<1>5. ASSUME NEW b \in Accounts,
             \/ SocketReady(b) \/ ConnectFailed(b) \/ Disconnected(b)
             \/ ListenKeyExpired(b) \/ RefreshDue(b)
      PROVE  dc'[a].stop
  <2>1. last' = last /\ Live(b)
    BY <1>5 DEF SocketReady, ConnectFailed, Disconnected, ListenKeyExpired, RefreshDue, Live
  <2>2. a # b => dc'[a] = dc[a]
    BY <1>5 DEF SocketReady, ConnectFailed, Disconnected, ListenKeyExpired, RefreshDue, TypeOK
  <2>3. Live(a)
    BY <2>1, <2>2 DEF Live
  <2> QED BY <1>1, <2>1, <2>3
<1>6. CASE UNCHANGED vars
  BY <1>1, <1>6 DEF vars, Live
<1> QED BY <1>2, <1>3, <1>4, <1>5, <1>6 DEF Next

\* The gateway never keeps a stream it knows to be stale.
THEOREM StaleStreamsStop == Spec => []StaleIsStopped
<1>1. Init => StaleIsStopped /\ ZombieSound
  BY DEF Init, StaleIsStopped, ZombieSound, Live, NoStream, Created
<1> QED BY <1>1, InitType, StepType, ZombieStep, StaleStep, PTL DEF Spec

\* What keeps an account from being forgotten: the request that is wanted or
\* sent stays so, until it creates the stream or is refused.
LEMMA OrphanStep == TypeOK /\ ZombieSound /\ NoOrphan /\ [Next]_vars => NoOrphan'
<1> SUFFICES ASSUME TypeOK, ZombieSound, NoOrphan, [Next]_vars,
                    NEW a \in Accounts, ~Live(a)', ~refused'[a]
             PROVE  "LISTEN_KEY" \in want'[a] \cup sent'[a]
  BY DEF NoOrphan
<1>1. CASE Live(a)
  BY <1>1, ReplaceStep DEF Keeps, Leaves
<1> SUFFICES ASSUME ~Live(a) PROVE "LISTEN_KEY" \in want'[a] \cup sent'[a]
  BY <1>1
<1>2. refused[a] \/ "LISTEN_KEY" \in want[a] \cup sent[a]
  BY DEF NoOrphan
<1>3. CASE Timer
  <2>1. PICK send \in [Accounts -> {{}} \cup {{k} : k \in Kinds}],
             connect \in SUBSET Accounts : TimerWith(send, connect)
    BY <1>3 DEF Timer
  <2>2. send \in [Accounts -> SUBSET Kinds] /\ refused' = refused
    BY <2>1 DEF TimerWith
  <2> QED BY <1>2, <2>1, <2>2, TimerKeepsRequests
<1>4. ASSUME NEW b \in Accounts, ListenKeyAck(b)
      PROVE  "LISTEN_KEY" \in want'[a] \cup sent'[a]
  <2>1. PICK k \in offered[b] : ListenKeyUpdate(b, k)
    BY <1>4 DEF ListenKeyAck
  <2>2. a # b
    BY <2>1 DEF ListenKeyUpdate, Live, Created, TypeOK
  <2> QED BY <1>2, <1>4, <2>2 DEF ListenKeyAck, Commit, TypeOK
<1>5. ASSUME NEW b \in Accounts, ListenKeyError(b)
      PROVE  "LISTEN_KEY" \in want'[a] \cup sent'[a]
  <2>1. a # b
    BY <1>5 DEF ListenKeyError, TypeOK
  <2> QED BY <1>2, <1>5, <2>1 DEF ListenKeyError, Commit, TypeOK
<1>6. ASSUME NEW b \in Accounts,
             \/ \E k \in {"ACCOUNT", "OPEN_ORDERS"} : SnapshotAck(b, k)
             \/ UserTradesAck(b)
      PROVE  "LISTEN_KEY" \in want'[a] \cup sent'[a]
  BY <1>2, <1>6 DEF SnapshotAck, UserTradesAck, Commit, TypeOK
<1>7. ASSUME NEW b \in Accounts,
             \/ OrderEntryConnected(b) \/ OrderEntryDisconnected(b)
             \/ SocketReady(b) \/ ConnectFailed(b) \/ Disconnected(b)
             \/ ListenKeyExpired(b) \/ Rotate(b) \/ RefreshDue(b)
      PROVE  "LISTEN_KEY" \in want'[a] \cup sent'[a]
  BY <1>2, <1>7 DEF OrderEntryConnected, OrderEntryDisconnected, SocketReady, ConnectFailed,
                    Disconnected, ListenKeyExpired, Rotate, RefreshDue, TypeOK
<1>8. CASE UNCHANGED vars
  BY <1>2, <1>8 DEF vars
<1> QED BY <1>3, <1>4, <1>5, <1>6, <1>7, <1>8 DEF Next

\* No account is forgotten: without a stream, its next listen-key is asked for,
\* or was refused.
THEOREM NoAccountForgotten == Spec => []NoOrphan
<1>1. Init => NoOrphan /\ ZombieSound
  BY DEF Init, NoOrphan, ZombieSound
<1> QED BY <1>1, InitType, StepType, ZombieStep, OrphanStep, PTL DEF Spec

----------------------------------------------------------------------------
(* The life cycle that clients rely on *)

Open(a) == dc[a].status \in {"DOWNLOADING", "READY"}

\* Clients see nothing of the stream of an account but that it exists and its
\* status, and what was downloaded only while it is open.
LEMMA Seen ==
  ASSUME NEW a
  PROVE  /\ ~Live(a) => Phase(a) = "ABSENT" /\ Fetched(a) = {}
         /\ Live(a) /\ ~Open(a) => Phase(a) = "CLOSED" /\ Fetched(a) = {}
         /\ Live(a) /\ Open(a) =>
              Phase(a) = dc[a].status /\ Fetched(a) = done[a] \cap Required
<1>1. CASE ~Live(a)
  BY <1>1 DEF Phase, Fetched
<1>2. CASE Live(a) /\ Open(a)
  BY <1>2 DEF Phase, Fetched, Open
<1>3. CASE Live(a) /\ ~Open(a)
  BY <1>3 DEF Phase, Fetched, Open
<1> QED BY <1>1, <1>2, <1>3

LEMMA SeenNext ==
  ASSUME NEW a
  PROVE  /\ ~Live(a)' => Phase(a)' = "ABSENT" /\ Fetched(a)' = {}
         /\ Live(a)' /\ ~Open(a)' => Phase(a)' = "CLOSED" /\ Fetched(a)' = {}
         /\ Live(a)' /\ Open(a)' =>
              Phase(a)' = dc'[a].status /\ Fetched(a)' = done'[a] \cap Required
<1>1. CASE ~Live(a)'
  BY <1>1 DEF Phase, Fetched
<1>2. CASE Live(a)' /\ Open(a)'
  BY <1>2 DEF Phase, Fetched, Open
<1>3. CASE Live(a)' /\ ~Open(a)'
  BY <1>3 DEF Phase, Fetched, Open
<1> QED BY <1>1, <1>2, <1>3

\* The variables of the life cycle, for one account.
LEMMA Mapped ==
  ASSUME NEW a \in Accounts
  PROVE  /\ [b \in Accounts |-> Phase(b)][a] = Phase(a)
         /\ [b \in Accounts |-> Fetched(b)][a] = Fetched(a)
         /\ [b \in Accounts |-> Phase(b)]'[a] = Phase(a)'
         /\ [b \in Accounts |-> Fetched(b)]'[a] = Fetched(a)'
OBVIOUS

\* A stream that is there before and after a step, with the same status, at most
\* had something downloaded.
LEMMA SameStatus ==
  ASSUME NEW a \in Accounts, Live(a)' <=> Live(a), Live(a) => dc'[a].status = dc[a].status,
         done[a] \subseteq done'[a]
  PROVE  Lifecycle!Step(a)
<1>1. CASE Live(a) /\ Open(a)
  <2>1. Live(a)' /\ Open(a)'
    BY <1>1 DEF Open
  <2>2. Phase(a)' = Phase(a) /\ Phase(a) \in {"DOWNLOADING", "READY"}
    BY <1>1, <2>1, Seen, SeenNext DEF Open
  <2>3. Fetched(a) \subseteq Fetched(a)' /\ Fetched(a)' \subseteq Required
    BY <1>1, <2>1, Seen, SeenNext
  <2>4. Lifecycle!Fetch(a)
    BY <2>2, <2>3, Mapped DEF Lifecycle!Fetch
  <2> QED BY <2>4 DEF Lifecycle!Step
<1>2. CASE ~(Live(a) /\ Open(a))
  <2>1. Phase(a)' = Phase(a) /\ Fetched(a)' = Fetched(a)
    BY <1>2, Seen, SeenNext DEF Open
  <2>2. Lifecycle!Idle(a)
    BY <2>1, Mapped DEF Lifecycle!Idle
  <2> QED BY <2>2 DEF Lifecycle!Step
<1> QED BY <1>1, <1>2

\* A stream that goes to another phase is announced in the right order.
LEMMA OtherStatus ==
  ASSUME NEW a \in Accounts
  PROVE  /\ ~Live(a) /\ Live(a)' /\ ~Open(a)' => Lifecycle!Step(a)
         /\ Live(a) /\ ~Open(a) /\ ~Live(a)' => Lifecycle!Step(a)
         /\ (/\ Live(a) /\ ~Open(a) /\ Live(a)'
             /\ dc'[a].status = "DOWNLOADING" /\ done'[a] = {}) => Lifecycle!Step(a)
         /\ Live(a) /\ Open(a) /\ Live(a)' /\ ~Open(a)' => Lifecycle!Step(a)
         /\ (/\ Live(a) /\ dc[a].status = "DOWNLOADING" /\ Live(a)' /\ dc'[a].status = "READY"
             /\ Required \subseteq done[a] /\ done'[a] = done[a]) => Lifecycle!Step(a)
<1> USE Mapped, Seen, SeenNext DEF Lifecycle!Moves
<1>1. ASSUME ~Live(a), Live(a)', ~Open(a)' PROVE Lifecycle!Create(a)
  BY <1>1 DEF Lifecycle!Create
<1>2. ASSUME Live(a), ~Open(a), ~Live(a)' PROVE Lifecycle!Remove(a)
  BY <1>2 DEF Lifecycle!Remove
<1>3. ASSUME Live(a), ~Open(a), Live(a)', dc'[a].status = "DOWNLOADING", done'[a] = {}
      PROVE  Lifecycle!Open(a)
  <2>1. Open(a)'
    BY <1>3 DEF Open
  <2>2. Fetched(a)' = {}
    BY <1>3, <2>1
  <2> QED BY <1>3, <2>1, <2>2 DEF Lifecycle!Open
<1>4. ASSUME Live(a), Open(a), Live(a)', ~Open(a)' PROVE Lifecycle!Close(a)
  BY <1>4 DEF Lifecycle!Close, Open
<1>5. ASSUME Live(a), dc[a].status = "DOWNLOADING", Live(a)', dc'[a].status = "READY",
             Required \subseteq done[a], done'[a] = done[a]
      PROVE  Lifecycle!Complete(a)
  <2>1. Open(a) /\ Open(a)'
    BY <1>5 DEF Open
  <2>2. Fetched(a) = Required /\ Fetched(a)' = Required
    BY <1>5, <2>1
  <2> QED BY <1>5, <2>1, <2>2 DEF Lifecycle!Complete
<1> QED BY <1>1, <1>2, <1>3, <1>4, <1>5 DEF Lifecycle!Step

\* The status of a stream before and after its timer.
LEMMA TickedStatus ==
  ASSUME NEW a \in Accounts, NEW d \in DropCopy, NEW connect
  PROVE  \/ Ticked(a, d, connect).status = d.status
         \/ /\ d.state \in Downloads
            /\ Ticked(a, d, connect).status \in {"DOWNLOADING", "READY"}
<1>1. CASE d.conn = "READY" /\ Advances(a, d)
  <2> DEFINE e == Enter(d, Following(d.state))
  <2>1. e \in DropCopy /\ e.status \in {"DOWNLOADING", "READY"}
    BY StreamTypes DEF Enter, DropCopy
  <2>2. d.state \in Downloads /\ Ticked(a, d, connect) = CheckListenKey(e)
    BY <1>1 DEF Ticked, CheckResponse, Advances
  <2> HIDE DEF e
  <2>3. CheckListenKey(e).status = e.status
    BY <2>1 DEF CheckListenKey, DropCopy
  <2> QED BY <2>1, <2>2, <2>3
<1>2. CASE d.conn = "READY" /\ ~Advances(a, d)
  <2>1. Ticked(a, d, connect) = CheckListenKey(d)
    BY <1>2 DEF Ticked, CheckResponse
  <2> QED BY <2>1 DEF CheckListenKey, DropCopy
<1>3. CASE d.conn # "READY"
  BY <1>3 DEF Ticked, DropCopy
<1> QED BY <1>1, <1>2, <1>3

\* Every step is a step of the life cycle for every account, or nothing that
\* its clients see.
LEMMA CycleStep ==
  ASSUME TypeOK, ZombieSound, DownloadInv, DownloadInv', [Next]_vars, NEW b \in Accounts
  PROVE  Lifecycle!Step(b)
<1> dc[b] \in DropCopy /\ DownloadOf(b) /\ DownloadOf(b)'
  BY DEF TypeOK, DownloadInv
<1>1. CASE Timer
  <2>1. PICK send \in [Accounts -> {{}} \cup {{k} : k \in Kinds}],
             connect \in SUBSET Accounts : TimerWith(send, connect)
    BY <1>1 DEF Timer
  <2>2. dc'[b] = Ticked(b, AfterZombies(b), connect) /\ done'[b] = done[b]
    BY <2>1 DEF TimerWith
  <2>3. CASE b \in zombies
    <3>1. ~Live(b)' /\ ~Open(b)
      BY <2>1, <2>3, TimerOnStream DEF ZombieSound, Open
    <3>2. CASE Live(b)
      BY <3>1, <3>2, OtherStatus
    <3>3. CASE ~Live(b)
      BY <2>2, <3>1, <3>3, SameStatus
    <3> QED BY <3>2, <3>3
  <2>4. CASE b \notin zombies
    <3>1. (Live(b)' <=> Live(b)) /\ dc'[b] = Ticked(b, dc[b], connect)
      BY <2>1, <2>2, <2>4, TimerOnStream DEF AfterZombies
    <3>2. CASE dc'[b].status = dc[b].status \/ ~Live(b)
      BY <2>2, <3>1, <3>2, SameStatus
    <3>3. CASE dc'[b].status # dc[b].status /\ Live(b)
      <4>1. dc[b].status = "DOWNLOADING" /\ dc'[b].status = "READY"
        BY <3>1, <3>3, TickedStatus DEF DownloadOf
      <4>2. Required \subseteq done[b]
        BY <2>2, <4>1 DEF DownloadOf, Behind
      <4> QED BY <2>2, <3>1, <3>3, <4>1, <4>2, OtherStatus
    <3> QED BY <3>2, <3>3
  <2> QED BY <2>3, <2>4
<1>2. ASSUME dc'[b] = dc[b], done[b] \subseteq done'[b] PROVE Lifecycle!Step(b)
  BY <1>2, SameStatus DEF Live
<1>3. ASSUME NEW d \in Closed(dc[b]), Live(b), dc'[b] = d, done' = done PROVE Lifecycle!Step(b)
  <2>1. dc'[b].status = dc[b].status /\ Live(b)'
    BY <1>3, ClosedFacts DEF Live
  <2> QED BY <1>3, <2>1, SameStatus
<1>4. ASSUME NEW a \in Accounts, ListenKeyAck(a) PROVE Lifecycle!Step(b)
  <2>1. PICK k \in offered[a] : ListenKeyUpdate(a, k)
    BY <1>4 DEF ListenKeyAck
  <2>2. done' = done
    BY <1>4 DEF ListenKeyAck
  <2>3. CASE ~Live(a) /\ dc' = [dc EXCEPT ![a] = Created(k)]
    <3>1. CASE a = b
      <4>1. dc'[b] = Created(k)
        BY <2>3, <3>1 DEF TypeOK
      <4>2. Live(b)' /\ ~Open(b)'
        BY <4>1 DEF Live, Open, Created
      <4> QED BY <2>3, <3>1, <4>2, OtherStatus
    <3>2. CASE a # b
      BY <1>2, <2>2, <2>3, <3>2 DEF TypeOK
    <3> QED BY <3>1, <3>2
  <2>4. CASE UNCHANGED dc
    BY <1>2, <2>2, <2>4
  <2>5. ASSUME NEW d \in Closed(dc[a]), Live(a), dc' = [dc EXCEPT ![a] = d]
        PROVE  Lifecycle!Step(b)
    BY <1>2, <1>3, <2>2, <2>5 DEF TypeOK
  <2> QED BY <2>1, <2>3, <2>4, <2>5 DEF ListenKeyUpdate
<1>5. ASSUME NEW a \in Accounts, ListenKeyExpired(a) PROVE Lifecycle!Step(b)
  <2>1. Live(a) /\ done' = done
    BY <1>5 DEF ListenKeyExpired, Live
  <2>2. PICK d \in Closed(dc[a]) : dc' = [dc EXCEPT ![a] = d]
    BY <1>5 DEF ListenKeyExpired
  <2> QED BY <1>2, <1>3, <2>1, <2>2 DEF TypeOK
<1>6. ASSUME NEW a \in Accounts,
             \/ ListenKeyError(a)
             \/ \E k \in {"ACCOUNT", "OPEN_ORDERS"} : SnapshotAck(a, k)
             \/ UserTradesAck(a) \/ OrderEntryConnected(a)
             \/ OrderEntryDisconnected(a) \/ Rotate(a)
      PROVE  Lifecycle!Step(b)
  <2>1. dc' = dc /\ done[b] \subseteq done'[b]
    BY <1>6 DEF ListenKeyError, SnapshotAck, UserTradesAck, OrderEntryConnected,
                OrderEntryDisconnected, Rotate, TypeOK
  <2> QED BY <1>2, <2>1
<1>7. ASSUME NEW a \in Accounts, SocketReady(a) PROVE Lifecycle!Step(b)
  <2>1. CASE a # b
    BY <1>2, <1>7, <2>1 DEF SocketReady, TypeOK
  <2>2. CASE a = b
    <3>1. dc'[b] = Up(dc[b]) /\ done'[b] = {} /\ dc[b].conn = "CONNECTING"
      BY <1>7, <2>2 DEF SocketReady, TypeOK
    <3>2. dc'[b].status = "DOWNLOADING" /\ Live(b)'
      BY <3>1 DEF Up, Enter, DropCopy, Live
    <3>3. Live(b) /\ ~Open(b)
      BY <3>1 DEF Live, Open, DownloadOf, Downloads
    <3> QED BY <3>1, <3>2, <3>3, OtherStatus
  <2> QED BY <2>1, <2>2
<1>8. ASSUME NEW a \in Accounts, ConnectFailed(a) \/ RefreshDue(a) PROVE Lifecycle!Step(b)
  <2>1. dc'[b].status = dc[b].status /\ (Live(b)' <=> Live(b)) /\ done' = done
    <3>1. CASE ConnectFailed(a)
      BY <3>1 DEF ConnectFailed, Live, TypeOK, DropCopy
    <3>2. CASE RefreshDue(a)
      BY <3>2 DEF RefreshDue, Live, TypeOK, DropCopy
    <3> QED BY <1>8, <3>1, <3>2
  <2> QED BY <2>1, SameStatus
<1>9. ASSUME NEW a \in Accounts, Disconnected(a) PROVE Lifecycle!Step(b)
  <2>1. CASE a # b
    BY <1>2, <1>9, <2>1 DEF Disconnected, TypeOK
  <2>2. CASE a = b
    <3>1. dc'[b] = Down(dc[b]) /\ done' = done /\ Live(b)
      BY <1>9, <2>2 DEF Disconnected, Live, TypeOK
    <3>2. Live(b)' /\ ~Open(b)'
      BY <3>1 DEF Down, DropCopy, Live, Open
    <3>3. CASE Open(b)
      BY <3>1, <3>2, <3>3, OtherStatus
    <3>4. CASE ~Open(b)
      <4>1. Phase(b)' = Phase(b) /\ Fetched(b)' = Fetched(b)
        BY <3>1, <3>2, <3>4, Seen, SeenNext
      <4> QED BY <4>1, Mapped DEF Lifecycle!Idle, Lifecycle!Step
    <3> QED BY <3>3, <3>4
  <2> QED BY <2>1, <2>2
<1>10. CASE UNCHANGED vars
  BY <1>2, <1>10 DEF vars
<1> QED
  BY <1>1, <1>4, <1>5, <1>6, <1>7, <1>8, <1>9, <1>10 DEF Next

\* What clients see of an account stays in the domains of the life cycle.
LEMMA SeenTypes ==
  ASSUME NEW a
  PROVE  /\ Phase(a) \in Lifecycle!Phases /\ Fetched(a) \in SUBSET Required
         /\ Phase(a)' \in Lifecycle!Phases /\ Fetched(a)' \in SUBSET Required
BY Seen, SeenNext DEF Lifecycle!Phases, Open

\* Controller, Request, OrderEntry and DropCopy together implement the life
\* cycle: for any number of accounts, listen-keys and download symbols, clients
\* are told of streams in the order StreamLifecycle allows.
THEOREM LifecycleImplemented == Spec => ImplementsLifecycle
<1>1. Init => Lifecycle!Init /\ ZombieSound /\ DownloadInv
  <2> SUFFICES ASSUME Init PROVE Lifecycle!Init /\ ZombieSound /\ DownloadInv
    OBVIOUS
  <2>1. ASSUME NEW a \in Accounts
        PROVE  Phase(a) = "ABSENT" /\ Fetched(a) = {} /\ DownloadOf(a)
    <3>1. dc[a] = NoStream
      BY DEF Init
    <3>2. ~Live(a)
      BY <3>1 DEF Live, NoStream, Created
    <3>3. DownloadOf(a)
      BY <3>1 DEF NoStream, Created, DownloadOf, Behind, Downloads
    <3> QED BY <3>2, <3>3, Seen
  <2>2. Lifecycle!Init
    BY <2>1 DEF Lifecycle!Init
  <2> QED BY <2>1, <2>2 DEF Init, ZombieSound, DownloadInv
<1>2. ASSUME TypeOK, ZombieSound, DownloadInv, DownloadInv', [Next]_vars
      PROVE  Lifecycle!Next
  <2>1. \A a \in Accounts : Lifecycle!Step(a)
    BY <1>2, CycleStep
  <2>2. /\ [a \in Accounts |-> Phase(a)]' \in [Accounts -> Lifecycle!Phases]
        /\ [a \in Accounts |-> Fetched(a)]' \in [Accounts -> SUBSET Required]
    BY SeenTypes
  <2> QED BY <2>1, <2>2 DEF Lifecycle!Next
<1>3. TypeOK /\ ZombieSound /\ DownloadInv /\ DownloadInv' /\ [Next]_vars
        => [Lifecycle!Next]_<<[a \in Accounts |-> Phase(a)], [a \in Accounts |-> Fetched(a)]>>
  BY <1>2
<1> QED
  BY <1>1, <1>3, InitType, StepType, ZombieStep, DownloadStep, PTL
  DEF Spec, ImplementsLifecycle, Lifecycle!Spec
=============================================================================
