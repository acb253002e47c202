------------------------- MODULE ClientConnections -------------------------
(***************************************************************************)
(* The client's connection table and session lifecycle                     *)
(* (business/usecase/client.connections.go, client.go, client.interface.go)*)
(* with the goroutines that use it: Start, the keepalive goroutine of each *)
(* UDP connection's Retry engine (which calls disconnect), the receive     *)
(* side handing data to commandData, and Exit from the connection manager. *)
(*                                                                         *)
(* uc.connections is a sequence and every clientConn keeps the index it    *)
(* was appended at (cc.idx); uc.connectionsMap is keyed by                 *)
(* Connection.Key(), which for a client UDP socket is built from the      *)
(* protocol, the server port and the server address only, so it is the   *)
(* port.  A socket is a pair <<port, gen>>: every Run opens a new one.     *)
(* The server is abstracted to the outcome of each attempt.                *)
(***************************************************************************)
EXTENDS Integers, Sequences, FiniteSets

CONSTANTS
    NumPorts,               \* PortMax - PortMin + 1, UDP only
    MaxGen,                 \* sockets Run may open per port
    MaxConnectionAttempts   \* cfg Server.MaxConnectionAttempts

ASSUME NumPorts \in Nat \ {0} /\ MaxGen \in Nat /\ MaxConnectionAttempts \in Nat \ {0}

Ports   == 1..NumPorts
Sockets == Ports \X (1..MaxGen)
None    == <<0, 0>>
MainT   == <<0, 1>>            \* the goroutine running Start
ExitT   == <<0, 2>>            \* the connection manager calling Exit
Threads == {MainT, ExitT} \cup Sockets

VARIABLES
    connections,     \* uc.connections: a sequence of sockets
    idx,             \* idx[k]: cc.idx of socket k's clientConn
    connectionsMap,  \* connectionsMap[p]: the socket stored under port p's key, or None
    sock,            \* sock[k]: "unused", "open" or "closed"
    engine,          \* engine[k]: Retry of ReceiverUDP: "none", "live" or "stopped"
    gen,             \* gen[p]: sockets opened on port p so far
    sessionID,       \* uc.sessionID: 0, or 1 for the id the server assigned
    isConnected,     \* uc.isConnected
    isExit,          \* uc.isExit
    ifaceOpen,       \* uc.interfaceConn # nil
    stream,          \* the merger's stream of the session exists
    mux,             \* the goroutine holding connMux for writing, or None
    pc,              \* pc[t]: where goroutine t is
    frame,           \* frame[t]: createConnection's port, attempt i and caller
    inflight,        \* a data message is on its way to commandData
    panicAt          \* "none", or where a nil dereference or bad index killed the process

vars == <<connections, idx, connectionsMap, sock, engine, gen, sessionID, isConnected,
          isExit, ifaceOpen, stream, mux, pc, frame, inflight, panicAt>>

NoFrame == [port |-> 0, i |-> 0, ret |-> "none"]

Init ==
    /\ connections = <<>>
    /\ idx = [k \in Sockets |-> 0]
    /\ connectionsMap = [p \in Ports |-> None]
    /\ sock = [k \in Sockets |-> "unused"]
    /\ engine = [k \in Sockets |-> "none"]
    /\ gen = [p \in Ports |-> 0]
    /\ sessionID = 0 /\ isConnected = FALSE /\ isExit = FALSE
    /\ ifaceOpen = FALSE /\ stream = FALSE
    /\ mux = None
    /\ pc = [t \in Threads |-> IF t = MainT THEN "cc_lock" ELSE "idle"]
    /\ frame = [t \in Threads |-> IF t = MainT THEN [port |-> 1, i |-> 0, ret |-> "start"] ELSE NoFrame]
    /\ inflight = FALSE
    /\ panicAt = "none"

-----------------------------------------------------------------------------
(* The table operations, over a record of the table.                      *)

Table == [conns |-> connections, idx |-> idx, map |-> connectionsMap]

SetTable(tb) ==
    /\ connections' = tb.conns /\ idx' = tb.idx /\ connectionsMap' = tb.map

\* structs.Delete(s, i): the slice without element i (0-based).  The
\* package is not part of this repository: an index at or past the end
\* either panics (append(s[:i], s[i+1:]...) and slices.Delete do) or
\* leaves the slice as it is; the callers choose between the two.
DeleteOk(s, i) == i < Len(s)
SliceDelete(s, i) == SubSeq(s, 1, i) \o SubSeq(s, i + 2, Len(s))

\* addConnection: a key already present keeps its clientConn and the new
\* one is neither stored nor appended (its idx stays 0).
\* Mutant: the index stored as a 1-based position.
AddConnectionOneBased(tb, k) ==
    IF tb.map[k[1]] # None THEN tb
    ELSE [tb EXCEPT !.idx[k] = Len(tb.conns) + 1,
                    !.map[k[1]] = k,
                    !.conns = Append(@, k)]

AddConnection(tb, k) ==
    IF tb.map[k[1]] # None THEN tb
    ELSE [tb EXCEPT !.idx[k] = Len(tb.conns),
                    !.map[k[1]] = k,
                    !.conns = Append(@, k)]

\* removeConnection's body, and the closure of the same name in
\* createConnection: look the key up, delete the slice element at the
\* stored idx, delete the key.  ok is FALSE when the index is out of range.
RemoveConnection(tb, p) ==
    LET cc == tb.map[p] IN
    IF cc = None THEN [ok |-> TRUE, tb |-> tb]
    ELSE [ok |-> DeleteOk(tb.conns, tb.idx[cc]),
          tb |-> [tb EXCEPT !.conns = IF DeleteOk(@, tb.idx[cc]) THEN SliceDelete(@, tb.idx[cc]) ELSE @,
                            !.map[p] = None]]

MapSize(tb) == Cardinality({p \in Ports : tb.map[p] # None})

\* Where goroutine t goes when createConnection returns res: Start moves
\* to the next port or gives up on an error; disconnect is done, or calls
\* Stop when the reconnect failed.
\* Mutant: disconnect's failed reconnect returns without calling Stop.
AfterCreateNoStop(t, res) ==
    CASE frame[t].ret = "start" /\ res = "ok" /\ frame[t].port < NumPorts ->
            [pc |-> "cc_lock", frame |-> [port |-> frame[t].port + 1, i |-> 0, ret |-> "start"]]
      [] frame[t].ret = "start" /\ res = "err" ->
            [pc |-> "failed", frame |-> frame[t]]
      [] OTHER -> [pc |-> "done", frame |-> frame[t]]

AfterCreate(t, res) ==
    CASE frame[t].ret = "start" /\ res = "ok" /\ frame[t].port < NumPorts ->
            [pc |-> "cc_lock", frame |-> [port |-> frame[t].port + 1, i |-> 0, ret |-> "start"]]
      [] frame[t].ret = "start" /\ res = "err" ->
            [pc |-> "failed", frame |-> frame[t]]
      [] frame[t].ret = "disconnect" /\ res = "err" ->
            [pc |-> "stop_chk", frame |-> [frame[t] EXCEPT !.ret = "failed"]]
      [] OTHER -> [pc |-> "done", frame |-> frame[t]]

Return(t, res) ==
    /\ mux' = None
    /\ pc' = [pc EXCEPT ![t] = AfterCreate(t, res).pc]
    /\ frame' = [frame EXCEPT ![t] = AfterCreate(t, res).frame]

\* createConnection: connMux.Lock, held until it returns.
CCLock(t) ==
    /\ pc[t] = "cc_lock" /\ mux = None
    /\ mux' = t /\ pc' = [pc EXCEPT ![t] = "cc_try"]
    /\ UNCHANGED <<connections, idx, connectionsMap, sock, engine, gen, sessionID, isConnected,
                   isExit, ifaceOpen, stream, frame, inflight, panicAt>>

\* The attempts are exhausted: ErrMaxConnectionAttempts.
CCGiveUp(t) ==
    /\ pc[t] = "cc_try" /\ mux = t /\ frame[t].i >= MaxConnectionAttempts
    /\ Return(t, "err")
    /\ UNCHANGED <<connections, idx, connectionsMap, sock, engine, gen, sessionID, isConnected,
                   isExit, ifaceOpen, stream, inflight, panicAt>>

NextAttempt(t) == frame' = [frame EXCEPT ![t].i = @ + 1]

\* uc.client.Run fails: sleep and continue.
CCRunFail(t) ==
    /\ pc[t] = "cc_try" /\ mux = t /\ frame[t].i < MaxConnectionAttempts
    /\ NextAttempt(t)
    /\ UNCHANGED <<connections, idx, connectionsMap, sock, engine, gen, sessionID, isConnected,
                   isExit, ifaceOpen, stream, mux, pc, inflight, panicAt>>

\* One attempt that opens socket k and adds it to the table, then:
\* "auth": commandAuthentication fails (not ErrUnauthorized): the closure
\*   removeConnection deletes the key, the socket is not closed;
\* "hs": authentication succeeds (CreateStream, createInterface, the
\*   session id) and commandHandshake fails: the same removal;
\* "unauth": the server refuses the key (ErrUnauthorized): createConnection
\*   returns at once, the connection stays in the table, no receive loop;
\* "ok": both succeed: the encryptor is set, isConnected, and ReceiverUDP
\*   starts the socket's receive loop and Retry engine.
Outcomes == {"auth", "hs", "unauth", "ok"}

CCAttempt(t, outcome) ==
    /\ pc[t] = "cc_try" /\ mux = t /\ frame[t].i < MaxConnectionAttempts
    /\ LET p  == frame[t].port
           k  == <<p, gen[p] + 1>>
           tb == AddConnection(Table, k)
           r  == RemoveConnection(tb, p)
       IN /\ gen[p] < MaxGen
          /\ gen' = [gen EXCEPT ![p] = @ + 1]
          /\ sock' = [sock EXCEPT ![k] = "open"]
          /\ IF outcome = "ok"
             THEN /\ SetTable(tb)
                  /\ stream' = TRUE /\ ifaceOpen' = TRUE /\ sessionID' = 1
                  /\ isConnected' = TRUE
                  /\ engine' = [engine EXCEPT ![k] = "live"]
                  /\ Return(t, "ok")
                  /\ UNCHANGED panicAt
             ELSE IF outcome = "unauth"
             THEN /\ SetTable(tb)
                  /\ Return(t, "err")
                  /\ UNCHANGED <<stream, ifaceOpen, sessionID, isConnected, engine, panicAt>>
             ELSE /\ SetTable(r.tb)
                  /\ panicAt' \in IF r.ok THEN {panicAt} ELSE {panicAt, "createConnection"}
                  /\ IF outcome = "hs"
                     THEN stream' = TRUE /\ ifaceOpen' = TRUE /\ sessionID' = 1
                     ELSE UNCHANGED <<stream, ifaceOpen, sessionID>>
                  /\ NextAttempt(t)
                  /\ UNCHANGED <<engine, isConnected, mux, pc>>
    /\ UNCHANGED <<isExit, inflight>>

-----------------------------------------------------------------------------
(* disconnect, run by the keepalive goroutine of socket k's Retry engine. *)

\* The keepalive loop sees no answer for KeepaliveProbes intervals:
\* r.Stop(), then r.disconnect(conn, ErrKeepaliveTimeoutExceeded).
KeepaliveTimeout(k) ==
    /\ pc[k] = "idle" /\ engine[k] = "live"
    /\ engine' = [engine EXCEPT ![k] = "stopped"]
    /\ pc' = [pc EXCEPT ![k] = "rm"]
    /\ UNCHANGED <<connections, idx, connectionsMap, sock, gen, sessionID, isConnected,
                   isExit, ifaceOpen, stream, mux, frame, inflight, panicAt>>

\* removeConnection: under connMux delete k's key, then Stop when the
\* map is empty.
DisconnectRemove(k) ==
    /\ pc[k] = "rm" /\ mux = None
    /\ LET r == RemoveConnection(Table, k[1]) IN
       /\ SetTable(r.tb)
       /\ pc' = [pc EXCEPT ![k] = IF MapSize(r.tb) = 0 THEN "stop_chk" ELSE "close"]
       /\ frame' = [frame EXCEPT ![k].ret = "rm"]
       /\ panicAt' \in IF r.ok THEN {panicAt} ELSE {panicAt, "removeConnection"}
    /\ UNCHANGED <<sock, engine, gen, sessionID, isConnected, isExit, ifaceOpen, stream, mux, inflight>>

\* conn.Close(), then a single reconnect of the port unless Exit began.
DisconnectClose(k) ==
    /\ pc[k] = "close"
    /\ sock' = [sock EXCEPT ![k] = "closed"]
    /\ pc' = [pc EXCEPT ![k] = IF isExit THEN "done" ELSE "cc_lock"]
    /\ frame' = [frame EXCEPT ![k] = [port |-> k[1], i |-> 0, ret |-> "disconnect"]]
    /\ UNCHANGED <<connections, idx, connectionsMap, engine, gen, sessionID, isConnected,
                   isExit, ifaceOpen, stream, mux, inflight, panicAt>>

-----------------------------------------------------------------------------
(* Stop, called by disconnect when the map became empty (it then goes on  *)
(* to close the socket) or when the reconnect failed.  Only               *)
(* closeInterface and getConnection take connMux.                         *)

StopReturn(t) == IF frame[t].ret = "rm" THEN "close" ELSE "done"

\* if !isConnected return; merger.DeleteStream(sessionID)
StopCheck(t) ==
    /\ pc[t] = "stop_chk"
    /\ IF isConnected
       THEN stream' = FALSE /\ pc' = [pc EXCEPT ![t] = "stop_if"]
       ELSE UNCHANGED stream /\ pc' = [pc EXCEPT ![t] = StopReturn(t)]
    /\ UNCHANGED <<connections, idx, connectionsMap, sock, engine, gen, sessionID, isConnected,
                   isExit, ifaceOpen, mux, frame, inflight, panicAt>>

\* closeInterface: under connMux, interfaceConn = nil.
StopInterface(t) ==
    /\ pc[t] = "stop_if" /\ mux = None
    /\ ifaceOpen' = FALSE
    /\ pc' = [pc EXCEPT ![t] = "stop_rst"]
    /\ UNCHANGED <<connections, idx, connectionsMap, sock, engine, gen, sessionID, isConnected,
                   isExit, stream, mux, frame, inflight, panicAt>>

\* sendReset (getConnection under the read lock, SendAsync), then reset():
\* sessionID = 0, isConnected = false.
StopReset(t) ==
    /\ pc[t] = "stop_rst" /\ mux = None
    /\ sessionID' = 0 /\ isConnected' = FALSE
    /\ pc' = [pc EXCEPT ![t] = StopReturn(t)]
    /\ UNCHANGED <<connections, idx, connectionsMap, sock, engine, gen, isExit, ifaceOpen,
                   stream, mux, frame, inflight, panicAt>>

-----------------------------------------------------------------------------
(* Exit, called once by the connection manager (Connect, Disconnect,      *)
(* Shutdown).  The manager keeps a handler only when Start returned nil,  *)
(* and calls Start and Exit under its own lock, so Exit follows a Start   *)
(* that succeeded.                                                         *)

\* if !isConnected return; isExit = true
ExitCheck ==
    /\ pc[ExitT] = "idle" /\ pc[MainT] = "done"
    /\ IF isConnected
       THEN isExit' = TRUE /\ pc' = [pc EXCEPT ![ExitT] = "x_rst"]
       ELSE UNCHANGED isExit /\ pc' = [pc EXCEPT ![ExitT] = "done"]
    /\ UNCHANGED <<connections, idx, connectionsMap, sock, engine, gen, sessionID, isConnected,
                   ifaceOpen, stream, mux, frame, inflight, panicAt>>

\* sendReset (read lock), cancel(), merger.DeleteStream(sessionID)
ExitReset ==
    /\ pc[ExitT] = "x_rst" /\ mux = None
    /\ stream' = FALSE
    /\ pc' = [pc EXCEPT ![ExitT] = "x_close"]
    /\ UNCHANGED <<connections, idx, connectionsMap, sock, engine, gen, sessionID, isConnected,
                   isExit, ifaceOpen, mux, frame, inflight, panicAt>>

\* closeAndRemoveAllConnections: under connMux, Close every socket of
\* uc.connections, then empty the slice and the map.
\* Mutant: closeAndRemoveAllConnections closes the sockets but keeps the map.
ExitCloseAllKeepsMap ==
    /\ pc[ExitT] = "x_close" /\ mux = None
    /\ LET inSlice == {connections[j] : j \in 1..Len(connections)} IN
       sock' = [k \in Sockets |-> IF k \in inSlice THEN "closed" ELSE sock[k]]
    /\ connections' = <<>>
    /\ pc' = [pc EXCEPT ![ExitT] = "x_if"]
    /\ UNCHANGED <<idx, connectionsMap, engine, gen, sessionID, isConnected, isExit, ifaceOpen,
                   stream, mux, frame, inflight, panicAt>>

ExitCloseAll ==
    /\ pc[ExitT] = "x_close" /\ mux = None
    /\ LET inSlice == {connections[j] : j \in 1..Len(connections)} IN
       sock' = [k \in Sockets |-> IF k \in inSlice THEN "closed" ELSE sock[k]]
    /\ connections' = <<>>
    /\ connectionsMap' = [p \in Ports |-> None]
    /\ pc' = [pc EXCEPT ![ExitT] = "x_if"]
    /\ UNCHANGED <<idx, engine, gen, sessionID, isConnected, isExit, ifaceOpen, stream, mux,
                   frame, inflight, panicAt>>

\* closeInterface, then reset().
ExitInterface ==
    /\ pc[ExitT] = "x_if" /\ mux = None
    /\ ifaceOpen' = FALSE /\ sessionID' = 0 /\ isConnected' = FALSE
    /\ pc' = [pc EXCEPT ![ExitT] = "done"]
    /\ UNCHANGED <<connections, idx, connectionsMap, sock, engine, gen, isExit, stream, mux,
                   frame, inflight, panicAt>>

-----------------------------------------------------------------------------
(* The receive side.                                                      *)

\* ReceiverUDP's loop reads from a closed socket, returns, and its deferred
\* conn.Retry.Stop() stops the engine.
ReceiverExit(k) ==
    /\ sock[k] = "closed" /\ engine[k] = "live"
    /\ engine' = [engine EXCEPT ![k] = "stopped"]
    /\ UNCHANGED <<connections, idx, connectionsMap, sock, gen, sessionID, isConnected,
                   isExit, ifaceOpen, stream, mux, pc, frame, inflight, panicAt>>

\* A data frame read by a live receive loop is taken by the session's
\* merger worker, which will pass it to socketReceiver.
DataPick ==
    /\ ~inflight /\ stream
    /\ \E k \in Sockets : sock[k] = "open" /\ engine[k] = "live"
    /\ inflight' = TRUE
    /\ UNCHANGED <<connections, idx, connectionsMap, sock, engine, gen, sessionID, isConnected,
                   isExit, ifaceOpen, stream, mux, pc, frame, panicAt>>

\* commandData: if !isConnected return nil; then
\* uc.interfaceConn.handler.Name(), which dereferences a nil interfaceConn.
CommandData ==
    /\ inflight
    /\ inflight' = FALSE
    /\ panicAt' = IF isConnected /\ ~ifaceOpen THEN "commandData" ELSE panicAt
    /\ UNCHANGED <<connections, idx, connectionsMap, sock, engine, gen, sessionID, isConnected,
                   isExit, ifaceOpen, stream, mux, pc, frame>>

-----------------------------------------------------------------------------
Alive == panicAt = "none"

\* The process died, or every goroutine has returned and nothing is left
\* to deliver.
Finished ==
    /\ \/ ~Alive
       \/ /\ \A t \in Threads : pc[t] \in {"idle", "done", "failed"}
          /\ \A k \in Sockets : engine[k] # "live"
          /\ ~inflight
    /\ UNCHANGED vars

Next ==
    \/ Alive /\ \E t \in Threads : CCLock(t)
    \/ Alive /\ \E t \in Threads : CCGiveUp(t)
    \/ Alive /\ \E t \in Threads : CCRunFail(t)
    \/ Alive /\ \E t \in Threads, o \in Outcomes : CCAttempt(t, o)
    \/ Alive /\ \E k \in Sockets : KeepaliveTimeout(k)
    \/ Alive /\ \E k \in Sockets : DisconnectRemove(k)
    \/ Alive /\ \E k \in Sockets : DisconnectClose(k)
    \/ Alive /\ \E t \in Threads : StopCheck(t)
    \/ Alive /\ \E t \in Threads : StopInterface(t)
    \/ Alive /\ \E t \in Threads : StopReset(t)
    \/ Alive /\ ExitCheck
    \/ Alive /\ ExitReset
    \/ Alive /\ ExitCloseAll
    \/ Alive /\ ExitInterface
    \/ Alive /\ \E k \in Sockets : ReceiverExit(k)
    \/ Alive /\ DataPick
    \/ Alive /\ CommandData
    \/ Finished

\* Every goroutine that is running gets scheduled.  Whether the server
\* answers, whether a peer falls silent, when Exit is called and whether
\* data arrives are the environment's choice.
Fairness ==
    /\ \A t \in Threads :
         WF_vars(Alive /\ (CCLock(t) \/ CCGiveUp(t) \/ CCRunFail(t) \/ \E o \in Outcomes : CCAttempt(t, o)
                           \/ StopCheck(t) \/ StopInterface(t) \/ StopReset(t)))
    /\ \A k \in Sockets : WF_vars(Alive /\ (DisconnectRemove(k) \/ DisconnectClose(k) \/ ReceiverExit(k)))
    /\ WF_vars(Alive /\ (ExitReset \/ ExitCloseAll \/ ExitInterface))
    /\ WF_vars(Alive /\ CommandData)

Spec == Init /\ [][Next]_vars /\ Fairness

-----------------------------------------------------------------------------
(* Properties.                                                            *)

TypeOK ==
    /\ connections \in Seq(Sockets) /\ Len(connections) <= Cardinality(Sockets)
    /\ idx \in [Sockets -> 0..Cardinality(Sockets) - 1]
    /\ connectionsMap \in [Ports -> Sockets \cup {None}]
    /\ sock \in [Sockets -> {"unused", "open", "closed"}]
    /\ engine \in [Sockets -> {"none", "live", "stopped"}]
    /\ gen \in [Ports -> 0..MaxGen]
    /\ sessionID \in {0, 1} /\ isConnected \in BOOLEAN /\ isExit \in BOOLEAN
    /\ ifaceOpen \in BOOLEAN /\ stream \in BOOLEAN /\ inflight \in BOOLEAN
    /\ mux \in Threads \cup {None}
    /\ frame \in [Threads -> [port : 0..NumPorts, i : 0..MaxConnectionAttempts,
                              ret : {"none", "start", "disconnect", "failed", "rm"}]]

\* getConnection picks uc.connections[rand.Intn(len(uc.connectionsMap))]
\* and SendAsync writes to it: every connection the slice offers is an open
\* socket, after any sequence of adds, keepalive disconnects and reconnects.
ConnectionsOpen ==
    \A j \in 1..Len(connections) : sock[connections[j]] = "open"

\* Exit stops the client: once the connection manager's Exit has returned,
\* every receive loop and Retry engine of the client eventually stops, also
\* when Exit comes while disconnect is reconnecting a port.
ExitStopsClient ==
    (pc[ExitT] = "done") ~> (~Alive \/ \A k \in Sockets : engine[k] # "live")

\* getConnection never indexes past the slice: it draws an index below
\* len(uc.connectionsMap) and reads uc.connections at it, so the map may
\* never hold more connections than the slice, after any sequence of
\* addConnection, removals by a stored (possibly stale) idx, the
\* createConnection closure and closeAndRemoveAllConnections; otherwise the
\* send path panics with an index out of range.
GetConnectionInRange ==
    MapSize(Table) <= Len(connections)

\* A connection lost to a keepalive timeout is replaced, or the session is
\* torn down: unless Exit has run, disconnect reconnects the port through
\* createConnection and, when that fails, calls Stop; the client is never
\* left "connected" with the port missing for good.
LostPortReconnectedOrStopped ==
    \A k \in Sockets :
        (pc[k] = "close" /\ ~isExit) ~> (~Alive \/ connectionsMap[k[1]] # None \/ ~isConnected)
====
