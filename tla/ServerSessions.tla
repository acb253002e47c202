--------------------------- MODULE ServerSessions ---------------------------
(***************************************************************************)
(* The server's session, interface and connection tables                  *)
(* (business/usecase/server*.go), the UDP port loops that feed them        *)
(* (adapter/server/udp.go, server.v1.go) and one client driving them       *)
(* (business/usecase/client*.go).  Each server port is one goroutine       *)
(* handling its datagrams in order; the Retry engine of a (port, session)  *)
(* pair calls disconnect from its own goroutine when keepalives stop.      *)
(*                                                                         *)
(* One client id and one user.  A socket of the client is a key           *)
(* [port, gen]: every (re)connection on a port opens a new socket, so a    *)
(* new remote address.  Data frames, keepalives and ACKs are abstracted:   *)
(* what they change is which engine a port creates and whether an engine   *)
(* hears from the client.                                                  *)
(***************************************************************************)
EXTENDS Integers, FiniteSets

CONSTANTS
    Ports,             \* the UDP ports PortMin..PortMax
    SessionIds,        \* the session ids createSession may draw
    IfNames,           \* tun device numbers 0..N-1
    MaxGen,            \* sockets the client opens per port
    MaxSessionsCount,  \* len(cfg.Users), the initial soft cap of a port
    MaxBadHeaders      \* datagrams whose header fails to decrypt or parse

ASSUME IfNames \subseteq Nat /\ MaxGen \in Nat /\ MaxSessionsCount \in Nat /\ MaxBadHeaders \in Nat
ASSUME 0 \notin SessionIds

NoIf  == -1
Keys  == [port : Ports, gen : 1..MaxGen]
NoKey(p) == [port |-> p, gen |-> 0]

NoSession  == [live |-> FALSE, ifName |-> NoIf]
ClosedIf   == [open |-> FALSE, sid |-> 0, conns |-> {}]
NoConn     == [live |-> FALSE, ifName |-> NoIf, sid |-> 0]
NoEngine(p) == [st |-> "none", key |-> NoKey(p)]
NoMsg      == [t |-> "none", sid |-> 0, key |-> [port |-> "none", gen |-> 0]]
NoReply    == [t |-> "none", ok |-> FALSE, sid |-> 0]
Idle       == [st |-> "idle", key |-> [port |-> "none", gen |-> 0], sid |-> 0, ifName |-> NoIf]

VARIABLES
    \* ServerUseCase
    sessions,        \* sessions[s]: [live, ifName]
    interfaces,      \* interfaces[n]: [open, sid, conns], conns a set of [key, sid]
    connections,     \* connections[k]: the serverConn [live, ifName, sid]
    client2session,  \* the client's entry of client2session, 0 if none
    streams,         \* the merger's sessions (CreateStream / DeleteStream)
    \* V1 server adapter
    cc,              \* cc[p][s]: the port's connectionControl entry [st, key]
    cnt, maxc,       \* curSessionsCount and maxSessionsCount of each port
    dropped,         \* droppedSessions, shared by the ports
    spc,             \* spc[p]: where port p is in an authentication
    panicAt,         \* "none", or the line whose nil dereference killed the process
    used,            \* session ids drawn so far
    faults,          \* bad-header datagrams so far
    \* the client
    csid,            \* uc.sessionID
    connected,       \* uc.isConnected
    cst,             \* cst[p]: the client's socket on p: "down", "auth", "hs" or "up"
    ssid,            \* ssid[p]: the session id its ReceiverUDP loop and engines use
    gen,             \* gen[p]: sockets opened on p so far
    busy,            \* createConnection holds connMux
    exited,          \* Exit was called
    inbox, reply     \* the request in flight to a port and its answer

srvVars    == <<sessions, interfaces, connections, client2session, streams>>
portVars   == <<cc, cnt, maxc, dropped, spc, panicAt, used, faults, faults>>
clientVars == <<csid, connected, cst, ssid, gen, busy, exited>>
vars == <<srvVars, portVars, clientVars, inbox, reply>>

-----------------------------------------------------------------------------
(* The tables as one record, so that a handler can be a chain of the      *)
(* functions it calls.                                                    *)

World == [sess |-> sessions, ifs |-> interfaces, conns |-> connections,
          c2s |-> client2session, streams |-> streams, dropped |-> dropped,
          cc |-> cc, cnt |-> cnt, maxc |-> maxc]

SetWorld(w) ==
    /\ sessions' = w.sess /\ interfaces' = w.ifs /\ connections' = w.conns
    /\ client2session' = w.c2s /\ streams' = w.streams
    /\ dropped' = w.dropped /\ cc' = w.cc /\ cnt' = w.cnt /\ maxc' = w.maxc

\* The engine of every connection of interface n is stopped (Retry.Stop,
\* Ack.Stop): conn.Retry of an entry is the engine of its port and session.
StopEngines(w, n) ==
    [w EXCEPT !.cc = [p \in Ports |-> [s \in SessionIds |->
        IF w.cc[p][s].st = "live" /\ \E e \in w.ifs[n].conns : e.key.port = p /\ e.sid = s
        THEN [w.cc[p][s] EXCEPT !.st = "stopped"]
        ELSE w.cc[p][s]]]]

\* Slip: dropSession leaves client2session in place.
DropSessionKeepClient(w, s) ==
    LET n == w.sess[s].ifName IN
    IF n = NoIf \/ ~w.ifs[n].open THEN w
    ELSE [StopEngines(w, n) EXCEPT !.ifs[n] = ClosedIf,
                                   !.sess[s] = NoSession,
                                   !.streams = @ \ {s}, !.dropped = @ \cup {s}]

\* dropSession: nothing when the session's interface is not in the table;
\* else stop the engines, close the device and forget the session.  The
\* connections table is left as it is.
DropSession(w, s) ==
    LET n == w.sess[s].ifName IN
    IF n = NoIf \/ ~w.ifs[n].open THEN w
    ELSE [StopEngines(w, n) EXCEPT !.ifs[n] = ClosedIf, !.c2s = 0,
                                   !.sess[s] = NoSession,
                                   !.streams = @ \ {s}, !.dropped = @ \cup {s}]

\* Slip: the last connection's removal deletes the session but does not
\* close and forget its device.
RemoveConnectionKeepIf(w, k, s) ==
    IF ~w.conns[k].live THEN w
    ELSE LET n  == w.conns[k].ifName
             w1 == [w EXCEPT !.conns[k] = NoConn]
         IN IF n = NoIf \/ ~w1.ifs[n].open THEN w1
            ELSE LET w2 == [w1 EXCEPT !.ifs[n].conns = {e \in @ : e.key # k}]
                 IN IF w2.ifs[n].conns # {} THEN w2
                    ELSE [w2 EXCEPT !.streams = @ \ {s},
                                    !.c2s = IF s \in DOMAIN w2.sess /\ w2.sess[s].live THEN 0 ELSE @,
                                    !.sess[s] = NoSession,
                                    !.dropped = @ \cup {s}]

\* Slip: DeleteStream on every removal, not only the last one.
RemoveConnectionEagerStream(w, k, s) ==
    IF ~w.conns[k].live THEN w
    ELSE LET n  == w.conns[k].ifName
             w1 == [w EXCEPT !.conns[k] = NoConn, !.streams = @ \ {s}]
         IN IF n = NoIf \/ ~w1.ifs[n].open THEN w1
            ELSE LET w2 == [w1 EXCEPT !.ifs[n].conns = {e \in @ : e.key # k}]
                 IN IF w2.ifs[n].conns # {} THEN w2
                    ELSE [w2 EXCEPT !.c2s = IF s \in DOMAIN w2.sess /\ w2.sess[s].live THEN 0 ELSE @,
                                    !.sess[s] = NoSession,
                                    !.dropped = @ \cup {s},
                                    !.ifs[n] = ClosedIf]

\* removeConnection(conn) with conn.Key() = k and conn.SessionID = s.  The
\* session is looked up by s, which need not be the connection's own
\* session (s = 0 from the port loop's header errors).
RemoveConnection(w, k, s) ==
    IF ~w.conns[k].live THEN w
    ELSE LET n  == w.conns[k].ifName
             w1 == [w EXCEPT !.conns[k] = NoConn]
         IN IF n = NoIf \/ ~w1.ifs[n].open THEN w1
            ELSE LET w2 == [w1 EXCEPT !.ifs[n].conns = {e \in @ : e.key # k}]
                 IN IF w2.ifs[n].conns # {} THEN w2
                    ELSE [w2 EXCEPT !.streams = @ \ {s},
                                    !.c2s = IF s \in DOMAIN w2.sess /\ w2.sess[s].live THEN 0 ELSE @,
                                    !.sess[s] = NoSession,
                                    !.dropped = @ \cup {s},
                                    !.ifs[n] = ClosedIf]

\* addConnection: drop the entries of the same session and port, add k.
AddConnection(w, k, n, s) ==
    [w EXCEPT !.conns = [j \in Keys |->
        IF j = k THEN [live |-> TRUE, ifName |-> n, sid |-> s]
        ELSE IF @[j].live /\ @[j].sid = s /\ j.port = k.port THEN NoConn
        ELSE @[j]]]

\* addInterfaceConnection: replace the entry of the same session and port,
\* or append; ErrInterfaceNotExists when the interface is gone.
AddInterfaceConnection(w, n, k, s) ==
    [w EXCEPT !.ifs[n].conns = {e \in @ : ~(e.sid = s /\ e.key.port = k.port)}
                               \cup {[key |-> k, sid |-> s]}]

\* The kernel names a new tun device with the lowest free number.
FreeIf == {n \in IfNames : ~interfaces[n].open}
LowestFreeIf == CHOOSE n \in FreeIf : \A m \in FreeIf : n <= m

\* Slip: every datagram with a session id is counted as a new session.
ArriveCountAll(w, p, m) ==
    IF m.sid # 0
    THEN [w EXCEPT !.cc[p][m.sid] = IF @.st = "none" THEN [st |-> "live", key |-> m.key] ELSE @,
                   !.cnt[p] = @ + 1]
    ELSE w

\* udp.go 136-149: a datagram with a session id creates the port's Retry
\* and Ack engines for that session, bound to the datagram's connection,
\* unless the port already holds an entry for it (in any state).
Arrive(w, p, m) ==
    IF m.sid # 0 /\ w.cc[p][m.sid].st = "none"
    THEN [w EXCEPT !.cc[p][m.sid] = [st |-> "live", key |-> m.key], !.cnt[p] = @ + 1]
    ELSE w

\* udp.go 175-187, after the receiver returned: above the soft cap, forget
\* every dropped session (counting each one, whether or not this port has
\* an entry for it) and empty the shared set; still above it, raise it.
Purge(w, p) ==
    IF w.cnt[p] <= w.maxc[p] THEN w
    ELSE LET w1 == [w EXCEPT !.cc[p] = [s \in SessionIds |->
                                  IF s \in w.dropped THEN NoEngine(p) ELSE @[s]],
                             !.cnt[p] = @ - Cardinality(w.dropped),
                             !.dropped = {}]
         IN IF w1.cnt[p] > w1.maxc[p] THEN [w1 EXCEPT !.maxc[p] = @ + 1] ELSE w1

\* The port has answered the datagram in its inbox.
Answer(p, r) == inbox' = [inbox EXCEPT ![p] = NoMsg] /\ reply' = [reply EXCEPT ![p] = r]

-----------------------------------------------------------------------------
(* A server port goroutine: receiverUDP -> socketReceiver -> command.      *)

\* dropSessionByClientID: ErrSessionNotExists when client2session has no
\* entry for the client, else dropSession of that session.
DropSessionByClientID(w) == IF w.c2s # 0 THEN DropSession(w, w.c2s) ELSE w

\* commandAuthentication with session id 0: dropSessionByClientID, then
\* createSession, which returns the client's session when dropSession left
\* it in place and otherwise draws an id no session has.
SAuthNew(p) ==
    /\ spc[p].st = "idle" /\ inbox[p].t = "auth" /\ inbox[p].sid = 0
    /\ LET w  == Arrive(World, p, inbox[p])
           w1 == DropSessionByClientID(w)
       IN \/ /\ w1.c2s # 0
             /\ SetWorld(w1) /\ UNCHANGED used
             /\ spc' = [spc EXCEPT ![p] = [Idle EXCEPT !.st = "stream", !.key = inbox[p].key,
                                                       !.sid = w1.c2s]]
          \/ /\ w1.c2s = 0
             /\ \E s \in SessionIds \ used :
                  /\ SetWorld([w1 EXCEPT !.sess[s] = [live |-> TRUE, ifName |-> NoIf], !.c2s = s])
                  /\ used' = used \cup {s}
                  /\ spc' = [spc EXCEPT ![p] = [Idle EXCEPT !.st = "stream", !.key = inbox[p].key,
                                                            !.sid = s]]
    /\ UNCHANGED <<panicAt, faults, clientVars, inbox, reply>>

\* commandAuthentication with a session id: checkSession accepts it while
\* the session exists.
SAuthResume(p) ==
    /\ spc[p].st = "idle" /\ inbox[p].t = "auth" /\ inbox[p].sid # 0
    /\ sessions[inbox[p].sid].live
    /\ SetWorld(Arrive(World, p, inbox[p]))
    /\ spc' = [spc EXCEPT ![p] = [Idle EXCEPT !.st = "stream", !.key = inbox[p].key,
                                              !.sid = inbox[p].sid]]
    /\ UNCHANGED <<panicAt, used, faults, clientVars, inbox, reply>>

\* ... and answers ErrUnauthorized when it does not.
SAuthReject(p) ==
    /\ spc[p].st = "idle" /\ inbox[p].t = "auth" /\ inbox[p].sid # 0
    /\ ~sessions[inbox[p].sid].live
    /\ SetWorld(Purge(Arrive(World, p, inbox[p]), p))
    /\ Answer(p, [t |-> "auth", ok |-> FALSE, sid |-> 0])
    /\ UNCHANGED <<spc, panicAt, used, faults, clientVars>>

\* merger.CreateStream(sessionID).
SAuthStream(p) ==
    /\ spc[p].st = "stream"
    /\ streams' = streams \cup {spc[p].sid}
    /\ spc' = [spc EXCEPT ![p].st = "iface"]
    /\ UNCHANGED <<sessions, interfaces, connections, client2session, cc, cnt, maxc,
                   dropped, panicAt, used, faults, clientVars, inbox, reply>>

\* createInterface: the session's interface if it names one, else a new
\* device recorded in interfaces and in sessions[sessionID].IfName; then
\* ic.handler.Name().  A session that is gone, or whose interface is gone,
\* is a nil pointer.
SAuthIface(p) ==
    /\ spc[p].st = "iface"
    /\ LET s == spc[p].sid
           n == sessions[s].ifName
       IN \/ /\ sessions[s].live /\ n # NoIf
             /\ IF interfaces[n].open
                THEN spc' = [spc EXCEPT ![p].st = "conn", ![p].ifName = n] /\ UNCHANGED panicAt
                ELSE panicAt' = "server.go:241" /\ UNCHANGED spc
             /\ UNCHANGED <<sessions, interfaces>>
          \/ /\ ~(sessions[s].live /\ n # NoIf)
             /\ FreeIf # {}
             /\ IF sessions[s].live
                THEN /\ interfaces' = [interfaces EXCEPT ![LowestFreeIf] =
                                         [open |-> TRUE, sid |-> s, conns |-> {}]]
                     /\ sessions' = [sessions EXCEPT ![s].ifName = LowestFreeIf]
                     /\ spc' = [spc EXCEPT ![p].st = "conn", ![p].ifName = LowestFreeIf]
                     /\ UNCHANGED panicAt
                ELSE /\ panicAt' = "server.interfaces.go:45"
                     /\ UNCHANGED <<spc, interfaces, sessions>>
    /\ UNCHANGED <<connections, client2session, streams, cc, cnt, maxc, dropped, used, faults,
                   clientVars, inbox, reply>>

\* addConnection, then the answer: the session id.  The port loop purges
\* after the receiver returns.
SAuthConn(p) ==
    /\ spc[p].st = "conn"
    /\ SetWorld(Purge(AddConnection(World, spc[p].key, spc[p].ifName, spc[p].sid), p))
    /\ Answer(p, [t |-> "auth", ok |-> TRUE, sid |-> spc[p].sid])
    /\ spc' = [spc EXCEPT ![p] = Idle]
    /\ UNCHANGED <<panicAt, used, faults, clientVars>>

\* commandHandshake: getConnection, setConnectionEncryptor, then
\* addInterfaceConnection with the serverConn's interface.
SHandshake(p) ==
    /\ spc[p].st = "idle" /\ inbox[p].t = "hs"
    /\ LET m  == inbox[p]
           w  == Arrive(World, p, m)
           sc == w.conns[m.key]
           ok == sc.live /\ sc.ifName # NoIf /\ w.ifs[sc.ifName].open
       IN /\ SetWorld(Purge(IF ok THEN AddInterfaceConnection(w, sc.ifName, m.key, sc.sid)
                                  ELSE w, p))
          /\ Answer(p, [t |-> "hs", ok |-> ok, sid |-> m.sid])
    /\ UNCHANGED <<spc, panicAt, used, faults, clientVars>>

\* commandReset: getConnection, then dropSessionByID of its session.
SReset(p) ==
    /\ spc[p].st = "idle" /\ inbox[p].t = "reset"
    /\ LET m  == inbox[p]
           w  == Arrive(World, p, m)
           sc == w.conns[m.key]
       IN SetWorld(Purge(IF sc.live /\ w.sess[sc.sid].live THEN DropSession(w, sc.sid)
                                                         ELSE w, p))
    /\ Answer(p, NoReply)
    /\ UNCHANGED <<spc, panicAt, used, faults, clientVars>>

\* udp.go 38-70: a datagram on port p from an address of the client whose
\* header fails to decrypt or parse (damaged on the way, or sent by anyone
\* with the client's source address).  The loop calls disconnect, that is
\* removeConnection, before connection.SessionID is set: the session id
\* it passes is 0.
SBadHeader(p) ==
    /\ spc[p].st = "idle" /\ faults < MaxBadHeaders
    /\ \E g \in 1..gen[p] : SetWorld(RemoveConnection(World, [port |-> p, gen |-> g], 0))
    /\ faults' = faults + 1
    /\ UNCHANGED <<spc, panicAt, used, clientVars, inbox, reply>>

\* The client is silent towards engine (p, s): no socket of it on port p is
\* up with session s.  Only keepalive and ACK frames reach Retry.Keepalive
\* and Retry.Ack (udp.go 153-164); authentication and handshake frames do
\* not, so a socket still authenticating feeds nothing either.
Silent(p, s) == ~(cst[p] = "up" /\ ssid[p] = s)

\* retry.go 235-243: KeepaliveProbes probes unanswered, the engine calls
\* disconnect(r.conn) = removeConnection of the connection it was made for.
EngineTimeout(p, s) ==
    /\ cc[p][s].st = "live" /\ Silent(p, s)
    /\ SetWorld(RemoveConnection([World EXCEPT !.cc[p][s].st = "exited"], cc[p][s].key, s))
    /\ UNCHANGED <<spc, panicAt, used, faults, clientVars, inbox, reply>>

-----------------------------------------------------------------------------
(* The client (client.connections.go, client.go).                          *)

Sock(p, g) == [port |-> p, gen |-> g]

\* Stop(): nothing unless connected; else sendReset over one of the
\* connections still in the table (none: "no connection"), then reset().
Stop(others) ==
    \/ /\ ~connected
       /\ UNCHANGED <<csid, connected, inbox>>
    \/ /\ connected
       /\ csid' = 0 /\ connected' = FALSE
       /\ LET up == {q \in others : cst[q] = "up" /\ inbox[q] = NoMsg} IN
          \/ \E q \in up : inbox' = [inbox EXCEPT ![q] = [t |-> "reset", sid |-> csid,
                                                          key |-> Sock(q, gen[q])]]
          \/ up = {} /\ UNCHANGED inbox

\* createConnection(port): client.Run opens a socket, addConnection, then
\* commandAuthentication sends the request with uc.sessionID.
CConnect(p) ==
    /\ ~exited /\ ~busy /\ cst[p] = "down" /\ gen[p] < MaxGen
    /\ inbox[p] = NoMsg /\ reply[p] = NoReply
    /\ gen' = [gen EXCEPT ![p] = @ + 1]
    /\ cst' = [cst EXCEPT ![p] = "auth"]
    /\ busy' = TRUE
    /\ inbox' = [inbox EXCEPT ![p] = [t |-> "auth", sid |-> csid, key |-> Sock(p, gen[p] + 1)]]
    /\ UNCHANGED <<srvVars, portVars, csid, connected, ssid, exited, reply>>

\* responseAuthentication: CreateStream, createInterface, uc.sessionID =
\* resp.SessionID; then commandHandshake sends the handshake.
CAuthOk(p) ==
    /\ reply[p].t = "auth" /\ reply[p].ok
    /\ csid' = reply[p].sid
    /\ cst' = [cst EXCEPT ![p] = "hs"]
    /\ inbox' = [inbox EXCEPT ![p] = [t |-> "hs", sid |-> reply[p].sid, key |-> Sock(p, gen[p])]]
    /\ reply' = [reply EXCEPT ![p] = NoReply]
    /\ UNCHANGED <<srvVars, portVars, connected, ssid, gen, busy, exited>>

\* ErrUnauthorized ends createConnection at once; disconnect then calls Stop.
CAuthFail(p) ==
    /\ reply[p].t = "auth" /\ ~reply[p].ok
    /\ cst' = [cst EXCEPT ![p] = "down"]
    /\ busy' = FALSE
    /\ reply' = [reply EXCEPT ![p] = NoReply]
    /\ Stop({q \in Ports : q # p /\ cst[q] # "down"})
    /\ UNCHANGED <<srvVars, portVars, ssid, gen, exited>>

\* responseHandshake: the shared key, isConnected; createConnection starts
\* ReceiverUDP, whose engines use the session id of that moment.
CHsOk(p) ==
    /\ reply[p].t = "hs" /\ reply[p].ok
    /\ cst' = [cst EXCEPT ![p] = "up"]
    /\ ssid' = [ssid EXCEPT ![p] = csid]
    /\ busy' = FALSE /\ connected' = TRUE
    /\ reply' = [reply EXCEPT ![p] = NoReply]
    /\ UNCHANGED <<srvVars, portVars, csid, gen, exited, inbox>>

\* A failed handshake: removeConnection and the next attempt on a new
\* socket, with connMux still held; after the last one,
\* ErrMaxConnectionAttempts, and disconnect calls Stop.
CHsFail(p) ==
    /\ reply[p].t = "hs" /\ ~reply[p].ok
    /\ reply' = [reply EXCEPT ![p] = NoReply]
    /\ \/ /\ gen[p] < MaxGen
          /\ gen' = [gen EXCEPT ![p] = @ + 1]
          /\ cst' = [cst EXCEPT ![p] = "auth"]
          /\ inbox' = [inbox EXCEPT ![p] = [t |-> "auth", sid |-> csid,
                                            key |-> Sock(p, gen[p] + 1)]]
          /\ UNCHANGED <<csid, connected, busy>>
       \/ /\ gen[p] = MaxGen
          /\ cst' = [cst EXCEPT ![p] = "down"] /\ busy' = FALSE
          /\ Stop({q \in Ports : q # p /\ cst[q] # "down"})
          /\ UNCHANGED gen
    /\ UNCHANGED <<srvVars, portVars, ssid, exited>>

\* The client's engine on p gives up (keepalive timeout): disconnect runs
\* removeConnection, which calls Stop when the table is empty, and closes
\* the socket; its createConnection is CConnect(p).
CLinkFail(p) ==
    /\ cst[p] = "up"
    /\ cst' = [cst EXCEPT ![p] = "down"]
    /\ IF \A q \in Ports \ {p} : cst[q] = "down"
       THEN Stop({})
       ELSE UNCHANGED <<csid, connected, inbox>>
    /\ UNCHANGED <<srvVars, portVars, ssid, gen, busy, exited, reply>>

\* Exit(): sendReset, cancel, DeleteStream, closeAndRemoveAllConnections,
\* closeInterface, reset().
CExit ==
    /\ ~exited /\ ~busy /\ connected
    /\ \E q \in Ports :
         /\ cst[q] = "up" /\ inbox[q] = NoMsg
         /\ inbox' = [inbox EXCEPT ![q] = [t |-> "reset", sid |-> csid, key |-> Sock(q, gen[q])]]
    /\ exited' = TRUE
    /\ cst' = [p \in Ports |-> "down"]
    /\ csid' = 0 /\ connected' = FALSE
    /\ UNCHANGED <<srvVars, portVars, ssid, gen, busy, reply>>

-----------------------------------------------------------------------------
Init ==
    /\ sessions = [s \in SessionIds |-> NoSession]
    /\ interfaces = [n \in IfNames |-> ClosedIf]
    /\ connections = [k \in Keys |-> NoConn]
    /\ client2session = 0
    /\ streams = {}
    /\ cc = [p \in Ports |-> [s \in SessionIds |-> NoEngine(p)]]
    /\ cnt = [p \in Ports |-> 0]
    /\ maxc = [p \in Ports |-> MaxSessionsCount]
    /\ dropped = {}
    /\ spc = [p \in Ports |-> Idle]
    /\ panicAt = "none"
    /\ used = {}
    /\ faults = 0
    /\ csid = 0 /\ connected = FALSE
    /\ cst = [p \in Ports |-> "down"] /\ ssid = [p \in Ports |-> 0]
    /\ gen = [p \in Ports |-> 0] /\ busy = FALSE /\ exited = FALSE
    /\ inbox = [p \in Ports |-> NoMsg] /\ reply = [p \in Ports |-> NoReply]

\* Nothing is left to do: the process died, every session id of the model
\* has been drawn (the bound on createSession), or every request was
\* answered and the client will open no further socket.
Finished ==
    /\ \/ panicAt # "none"
       \/ used = SessionIds
       \/ /\ \A p \in Ports : inbox[p] = NoMsg /\ reply[p] = NoReply /\ spc[p] = Idle
          /\ \A p \in Ports : cst[p] = "down" => (exited \/ gen[p] = MaxGen)
    /\ UNCHANGED vars

\* The process is running: no port loop has died of a nil dereference.
Alive == panicAt = "none"

Next ==
    \/ Alive /\ \E p \in Ports : SAuthNew(p)
    \/ Alive /\ \E p \in Ports : SAuthResume(p)
    \/ Alive /\ \E p \in Ports : SAuthReject(p)
    \/ Alive /\ \E p \in Ports : SAuthStream(p)
    \/ Alive /\ \E p \in Ports : SAuthIface(p)
    \/ Alive /\ \E p \in Ports : SAuthConn(p)
    \/ Alive /\ \E p \in Ports : SHandshake(p)
    \/ Alive /\ \E p \in Ports : SReset(p)
    \/ Alive /\ \E p \in Ports, s \in SessionIds : EngineTimeout(p, s)
    \/ Alive /\ \E p \in Ports : SBadHeader(p)
    \/ Alive /\ \E p \in Ports : CConnect(p)
    \/ Alive /\ \E p \in Ports : CAuthOk(p)
    \/ Alive /\ \E p \in Ports : CAuthFail(p)
    \/ Alive /\ \E p \in Ports : CHsOk(p)
    \/ Alive /\ \E p \in Ports : CHsFail(p)
    \/ Alive /\ \E p \in Ports : CLinkFail(p)
    \/ Alive /\ CExit
    \/ Finished

\* Each port goroutine handles its datagrams, each engine's keepalive
\* ticker fires, and the client's createConnection reads the answers.
Fairness ==
    /\ \A p \in Ports : WF_vars(Alive /\ (SAuthNew(p) \/ SAuthResume(p) \/ SAuthReject(p) \/ SAuthStream(p)
                                        \/ SAuthIface(p) \/ SAuthConn(p) \/ SHandshake(p) \/ SReset(p)))
    /\ \A p \in Ports, s \in SessionIds : WF_vars(Alive /\ EngineTimeout(p, s))
    /\ \A p \in Ports : WF_vars(Alive /\ (CAuthOk(p) \/ CAuthFail(p) \/ CHsOk(p) \/ CHsFail(p)))

Spec == Init /\ [][Next]_vars /\ Fairness

-----------------------------------------------------------------------------
TypeOK ==
    /\ sessions \in [SessionIds -> [live : BOOLEAN, ifName : IfNames \cup {NoIf}]]
    /\ interfaces \in [IfNames -> [open : BOOLEAN, sid : SessionIds \cup {0},
                                    conns : SUBSET [key : Keys, sid : SessionIds]]]
    /\ connections \in [Keys -> [live : BOOLEAN, ifName : IfNames \cup {NoIf}, sid : SessionIds \cup {0}]]
    /\ client2session \in SessionIds \cup {0} /\ streams \subseteq SessionIds
    /\ dropped \subseteq SessionIds \cup {0} /\ used \subseteq SessionIds /\ faults \in 0..MaxBadHeaders
    /\ cnt \in [Ports -> -Cardinality(SessionIds) - MaxBadHeaders..Cardinality(SessionIds)]
    /\ csid \in SessionIds \cup {0} /\ cst \in [Ports -> {"down", "auth", "hs", "up"}]

\* Every open tun device belongs to a live session that names it: no path
\* through removeConnection, dropSession or createInterface closes a
\* session's device without deleting the session, or deletes a session
\* whose device stays open.
OpenInterfaceOwned ==
    \A n \in IfNames : interfaces[n].open =>
        sessions[interfaces[n].sid].live /\ sessions[interfaces[n].sid].ifName = n

\* client2session names exactly the client's live session: dropSession and
\* removeConnection delete the mapping whenever they delete the session,
\* and createSession records every session it creates.
ClientSessionMapping ==
    /\ client2session # 0 => sessions[client2session].live
    /\ \A s \in SessionIds : sessions[s].live => client2session = s

\* A session that has a tun device has its merger stream: DeleteStream is
\* called only together with the deletion of the session (removeConnection
\* of the last connection, dropSession), and CreateStream precedes
\* createInterface in commandAuthentication.
SessionHasStream ==
    \A s \in SessionIds : sessions[s].live /\ sessions[s].ifName # NoIf => s \in streams

\* A session whose client has gone silent on every port is eventually
\* deleted: each port's Retry engine for it times out and removeConnection
\* of the last connection deletes it.
SessionReclaimed ==
    <>[](panicAt = "none" /\ \A p \in Ports : cst[p] = "down")
        => <>[](\A s \in SessionIds : ~sessions[s].live)

\* Spec, error handling: a frame whose header fails to decrypt or parse
\* is dropped and the connection kept.  So no datagram tears down the tun
\* device of a live session: a session that names a device has it open.
SessionInterfaceOpen ==
    \A s \in SessionIds : sessions[s].live /\ sessions[s].ifName # NoIf =>
        interfaces[sessions[s].ifName].open

\* The port loops never dereference a nil session or interface: createInterface and ic.handler.Name() in commandAuthentication.
NoNilDereference == panicAt = "none"
====
