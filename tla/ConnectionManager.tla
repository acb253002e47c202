-------------------------- MODULE ConnectionManager --------------------------
(***************************************************************************)
(* The client process's connection manager                                *)
(* (business/usecase/connection.manager.go, connection.manager.stat.go)    *)
(* and its IPC side (adapter/grpc/server/server.go): Connect, Disconnect   *)
(* and Shutdown under connMux, each Connect building a new ClientUseCase   *)
(* (a handler) and starting it; the statistics goroutine, fed through the  *)
(* buffered inStatCh by the statistic handler the handlers' port loops     *)
(* call, publishing on every tick to the channel of the GUI's              *)
(* StatisticStream while holding statMux.                                  *)
(*                                                                         *)
(* A handler's own life (ports, sessions, Exit) is ClientConnections'; here *)
(* it is "running", "failed" (Start returned an error, the ports it did    *)
(* connect stay up) or "exited".  Statistic values are abstracted away:    *)
(* what matters is who waits for whom.  Time is abstracted: the ticker     *)
(* fires at any step.                                                      *)
(***************************************************************************)
EXTENDS Naturals, FiniteSets

CONSTANTS
    ConnIds,      \* indices of cfg.Connections
    MaxConnects,  \* Connect calls that build a handler
    Reporters,    \* port loops calling the statistic handler (model values)
    MaxReports,   \* statistic handler calls in total
    Streams,      \* StatisticStream calls of the GUI (model values)
    NoStream      \* a model value: outStatCh is nil

ASSUME MaxConnects \in Nat /\ MaxReports \in Nat /\ NoStream \notin Streams

Handles  == 1..MaxConnects
NoHandle == 0
\* make(chan *connectionStatisticRequest, len(cfg.Connections))
InCap    == Cardinality(ConnIds)

VARIABLES
    connections,  \* connections[id]: the handler stored for id, or NoHandle
    hst,          \* hst[h]: "none" | "running" | "failed" | "exited"
    made,         \* handlers built so far
    ended,        \* Shutdown sent SIGINT: main returns, the process ends
    rpc,          \* rpc[r]: "idle" | "send" (in the statistic handler)
    reports,      \* statistic handler calls so far
    queued,       \* requests in inStatCh
    gpc,          \* statistics goroutine: "loop" | "send" (statMux held,
                  \*   sending on outStatCh)
    sendTo,       \* the stream whose channel it is sending on
    updated,      \* the updated flag
    init,         \* the init flag (one idle tick published)
    outStatCh,    \* the stream whose channel is uc.outStatCh, or NoStream
    spc           \* spc[s]: StatisticStream "idle" | "recv" | "sendmsg" |
                  \*   "unset" (deferred SetStatisticChannel(nil)) | "done"

mgrVars  == <<connections, hst, made, ended>>
statVars == <<rpc, reports, queued, gpc, sendTo, updated, init, outStatCh, spc>>
vars     == <<mgrVars, statVars>>

\* Handlers whose port loops are up and call the statistic handler.
Live == {h \in Handles : hst[h] \in {"running", "failed"}}

-----------------------------------------------------------------------------
(* ConnectionManagerUseCase, every method under connMux.Lock.              *)

\* The entries "for ... range uc.connections { ...; break }" removes: one
\* of the stored ones, whichever the map's range yields first.
FirstOfRange(S) == IF S = {} THEN {{}} ELSE {{i} : i \in S}

\* Connect(connID) (55-92): Exit and delete one stored connection, build a
\* handler, Start it; on a build or Start error return the error, else
\* store the handler as connected.  A handler whose Start failed is neither
\* stored nor exited.
Connect(id, built, started) ==
    /\ ~ended /\ made < MaxConnects
    /\ \E gone \in FirstOfRange({i \in ConnIds : connections[i] # NoHandle}) :
        LET conns1 == [i \in ConnIds |-> IF i \in gone THEN NoHandle ELSE connections[i]]
            hst1   == [h \in Handles |->
                          IF \E i \in gone : connections[i] = h THEN "exited" ELSE hst[h]]
            h      == made + 1
        IN IF ~built
           THEN connections' = conns1 /\ hst' = hst1 /\ UNCHANGED made
           ELSE /\ made' = h
                /\ hst' = [hst1 EXCEPT ![h] = IF started THEN "running" ELSE "failed"]
                /\ connections' = IF started THEN [conns1 EXCEPT ![id] = h] ELSE conns1
    /\ UNCHANGED <<ended, statVars>>

\* Disconnect(connID) (94-106): Exit and delete the stored handler; an id
\* with none is an error that changes nothing.
Disconnect(id) ==
    /\ ~ended /\ connections[id] # NoHandle
    /\ hst' = [hst EXCEPT ![connections[id]] = "exited"]
    /\ connections' = [connections EXCEPT ![id] = NoHandle]
    /\ UNCHANGED <<made, ended, statVars>>

\* Shutdown (140-149): Exit every stored handler, then quit <- SIGINT; main
\* returns and the process ends with every goroutine.
Shutdown ==
    /\ ~ended
    /\ hst' = [h \in Handles |-> IF \E i \in ConnIds : connections[i] = h THEN "exited" ELSE hst[h]]
    /\ ended' = TRUE
    /\ UNCHANGED <<connections, made, statVars>>

-----------------------------------------------------------------------------
(* The statistic handler (connection.manager.stat.go 10-22), called by a   *)
(* live handler's port receive loops (adapter/client/udp.go 52, tcp.go 76) *)
(* and its interface reader (client.interface.go 105): the caller blocks   *)
(* in the send on inStatCh until there is room.                            *)

StatCall(r) ==
    /\ ~ended /\ rpc[r] = "idle" /\ reports < MaxReports /\ Live # {}
    /\ rpc' = [rpc EXCEPT ![r] = "send"]
    /\ reports' = reports + 1
    /\ UNCHANGED <<mgrVars, queued, gpc, sendTo, updated, init, outStatCh, spc>>

StatEnqueue(r) ==
    /\ ~ended /\ rpc[r] = "send" /\ queued < InCap
    /\ queued' = queued + 1
    /\ rpc' = [rpc EXCEPT ![r] = "idle"]
    /\ UNCHANGED <<mgrVars, reports, gpc, sendTo, updated, init, outStatCh, spc>>

(* The goroutine of sessionStat (24-89).                                   *)

\* case <-uc.inStatCh: add the counts, updated.Store(true).
StatRecv ==
    /\ ~ended /\ gpc = "loop" /\ queued > 0
    /\ queued' = queued - 1
    /\ updated' = TRUE
    /\ UNCHANGED <<mgrVars, rpc, reports, gpc, sendTo, init, outStatCh, spc>>

\* case <-ticker.C, unless nothing was updated and the idle tick was already
\* published (continue, no step): take statMux, fold the counts, and either
\* block sending the map on outStatCh, or with no channel unlock, clear and
\* reset updated.  SetStatisticChannel holds statMux only within its own
\* step, so the Lock is free whenever the goroutine is in its loop.
StatTick ==
    /\ ~ended /\ gpc = "loop" /\ (updated \/ ~init)
    /\ init' = ~updated
    /\ IF outStatCh # NoStream
       THEN gpc' = "send" /\ sendTo' = outStatCh /\ UNCHANGED updated
       ELSE updated' = FALSE /\ UNCHANGED <<gpc, sendTo>>
    /\ UNCHANGED <<mgrVars, rpc, reports, queued, outStatCh, spc>>

\* The send meets StatisticStream's receive on the same channel; then
\* Unlock, clear(stat), updated.Store(false).
StatSent ==
    /\ ~ended /\ gpc = "send" /\ spc[sendTo] = "recv"
    /\ gpc' = "loop"
    /\ spc' = [spc EXCEPT ![sendTo] = "sendmsg"]
    /\ updated' = FALSE
    /\ UNCHANGED <<mgrVars, rpc, reports, queued, sendTo, init, outStatCh>>

(* StatisticStream (adapter/grpc/server/server.go 93-117), one call per    *)
(* GUI subscription.                                                       *)

\* make the unbuffered statCh, SetStatisticChannel(statCh) (statMux), then
\* the loop's first check of the stream's context.
StreamOpen(s) ==
    /\ ~ended /\ spc[s] = "idle" /\ gpc # "send"
    /\ outStatCh' = s
    /\ spc' \in {[spc EXCEPT ![s] = "recv"], [spc EXCEPT ![s] = "unset"]}
    /\ UNCHANGED <<mgrVars, rpc, reports, queued, gpc, sendTo, updated, init>>

\* SendMsg returns: on an error other than Canceled return; otherwise loop
\* again while the stream's context is not done.  A receive already
\* blocked in <-statCh does not see the context end.
StreamSend(s) ==
    /\ ~ended /\ spc[s] = "sendmsg"
    /\ spc' \in {[spc EXCEPT ![s] = "recv"], [spc EXCEPT ![s] = "unset"]}
    /\ UNCHANGED <<mgrVars, rpc, reports, queued, gpc, sendTo, updated, init, outStatCh>>

\* The deferred SetStatisticChannel(nil): waits for statMux.
StreamUnset(s) ==
    /\ ~ended /\ spc[s] = "unset" /\ gpc # "send"
    /\ outStatCh' = NoStream
    /\ spc' = [spc EXCEPT ![s] = "done"]
    /\ UNCHANGED <<mgrVars, rpc, reports, queued, gpc, sendTo, updated, init>>

-----------------------------------------------------------------------------

Init ==
    /\ connections = [i \in ConnIds |-> NoHandle]
    /\ hst = [h \in Handles |-> "none"]
    /\ made = 0 /\ ended = FALSE
    /\ rpc = [r \in Reporters |-> "idle"] /\ reports = 0 /\ queued = 0
    /\ gpc = "loop" /\ sendTo = NoStream /\ updated = FALSE /\ init = FALSE
    /\ outStatCh = NoStream
    /\ spc = [s \in Streams |-> "idle"]

Next ==
    \/ \E id \in ConnIds, built, started \in BOOLEAN : Connect(id, built, started)
    \/ \E id \in ConnIds : Disconnect(id)
    \/ Shutdown
    \/ \E r \in Reporters : StatCall(r) \/ StatEnqueue(r)
    \/ StatRecv \/ StatTick \/ StatSent
    \/ \E s \in Streams : StreamOpen(s) \/ StreamSend(s) \/ StreamUnset(s)

\* Goroutines that are able to run do (the scheduler is fair to each), the
\* ticker keeps ticking, and SendMsg returns.  Calls from the GUI and the
\* statistic calls themselves are not forced.
Fairness ==
    /\ \A r \in Reporters : WF_vars(StatEnqueue(r))
    /\ WF_vars(StatRecv) /\ WF_vars(StatTick) /\ WF_vars(StatSent)
    /\ \A s \in Streams : WF_vars(StreamSend(s)) /\ WF_vars(StreamUnset(s))

Spec == Init /\ [][Next]_vars /\ Fairness

-----------------------------------------------------------------------------
(* Properties.                                                             *)

TypeOK ==
    /\ connections \in [ConnIds -> Handles \cup {NoHandle}]
    /\ hst \in [Handles -> {"none", "running", "failed", "exited"}]
    /\ made \in 0..MaxConnects /\ ended \in BOOLEAN
    /\ rpc \in [Reporters -> {"idle", "send"}]
    /\ reports \in 0..MaxReports /\ queued \in 0..InCap
    /\ gpc \in {"loop", "send"} /\ sendTo \in Streams \cup {NoStream}
    /\ updated \in BOOLEAN /\ init \in BOOLEAN
    /\ outStatCh \in Streams \cup {NoStream}
    /\ spc \in [Streams -> {"idle", "recv", "sendmsg", "unset", "done"}]

\* Every call of the statistic handler from a port loop returns while the
\* process runs: the statistics goroutine keeps draining inStatCh whatever
\* the GUI's StatisticStream does.
StatCallsReturn ==
    \A r \in Reporters : rpc[r] = "send" ~> (rpc[r] = "idle" \/ ended)

\* Connect leaves no handler running that the manager does not hold, so
\* Disconnect and Shutdown reach every running tunnel.
StartedHandlersManaged ==
    \A h \in Live : \E i \in ConnIds : connections[i] = h
====
