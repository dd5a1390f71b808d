------------------------------ MODULE Ubridge ------------------------------
(***************************************************************************)
(* The udev bridge of src/src/resource/ubr.c on top of the worker control: *)
(* the main process hands every client connection (or an internal dbdump)  *)
(* to a fresh worker; the worker runs the command's state machine, sends   *)
(* what it wants stored to the main process, waits for the ack, replies to *)
(* the client and, for a scan, waits for the udev event that starts the    *)
(* second stage.                                                           *)
(*                                                                         *)
(* A worker serves one connection, so a client, its connection and its     *)
(* command share the worker's name.  Every action below is one callback of *)
(* one process; its effect on the channel is the action of WorkerControl   *)
(* with the message the callback sends.  What is stored is left to         *)
(* KVSync; here a sync only succeeds or fails.                             *)
(***************************************************************************)
EXTENDS Naturals, Sequences

CONSTANTS
    Workers, MaxLane, ExecTimeout,  \* as in WorkerControl
    Kinds,    \* requests that are made
    Faults    \* what may go wrong in the instance

Payloads == {"CLIENT", "SELF", "SYNC", "UMONITOR", "RESOURCES"}

\* "scan", "resources" and "plain" (active, version, dbstats, devices,
\* dbdump) are served; "rejected" fails _check_msg or _init_command with a
\* protocol this side knows, "newer" announces a newer protocol; "self" is
\* the dbdump the main process asks for itself.
AllKinds == {"scan", "resources", "plain", "rejected", "newer", "self"}

AllFaults == {"fork",     \* _get_worker fails
              "accept",   \* accept4 fails
              "conn",     \* the connection, or an internal command, cannot be created
              "exec",     \* a command's handler or result building fails
              "sync",     \* _sync_main_kv_store fails
              "tree",     \* the resource tree cannot be written
              "crash",    \* a worker dies
              "main",     \* the main process ends
              "client",   \* a client goes away early
              "stray"}    \* a tagged uevent without SID_SESSION_ID

ASSUME KindsAssumption == Kinds \subseteq AllKinds
ASSUME FaultsAssumption == Faults \subseteq AllFaults

VARIABLES
    main, proxy, proxyEs, timer, proc, sigs, parentExited, workerEs, yielded,
    toWrk, toPrx,
    ifcEs,   \* event source of the interface socket is on (main)
    umonEs,  \* event source of the udev monitor is on (main)
    kind,    \* request of the worker's client, "self", or "none"
    client,  \* the client process
    req,     \* its request: "unsent", "sent" or "taken" by the worker
    reply,   \* its reply: "none", "sent" or "read"
    conn,    \* the worker's connection resource
    cmd,     \* the command: the part of struct sid_ucmd_ctx control needs
    syncs,   \* history: what became of each stage's export buffer
    uevent   \* the udev event that follows the client's udev rule

wcVars  == <<main, proxy, proxyEs, timer, proc, sigs, parentExited, workerEs,
             yielded, toWrk, toPrx>>
cliVars == <<kind, client, req, reply>>
vars == <<wcVars, ifcEs, umonEs, cliVars, conn, cmd, syncs, uevent>>

WC == INSTANCE WorkerControl

-----------------------------------------------------------------------------
(***************************************************************************)
(* The command state machine.                                              *)
(***************************************************************************)
\* state, prev_state, stage, runs the handler source still has in its
\* counter, tim_out_es, res_buf /= NULL
NoCmd == [st |-> "UNDEFINED", prev |-> "UNDEFINED", stage |-> 0, armed |-> 0,
          tmo |-> FALSE, res |-> FALSE]

\* stage_count of _client_cmd_regs and _self_cmd_regs.
StageCount(k) == IF k = "scan" THEN 2 ELSE 0

\* Fault: stages are counted one too many.
LastStageEarly(k, c) == StageCount(k) <= c.stage + 1

\* _is_last_stage
LastStage(k, c) == StageCount(k) = 0 \/ StageCount(k) = c.stage

\* Fault: the stage timeout is not destroyed when the next stage starts.
ChangeStateKeepsTimer(c, s) ==
    LET moved == [c EXCEPT !.prev = c.st, !.st = s]
    IN CASE s = "EXE_SCHED" ->
              [moved EXCEPT !.armed = IF c.st = "INI" THEN @ ELSE @ + 1,
                            !.stage = IF c.st \in {"INI", "STG_WAIT"} THEN @ + 1 ELSE @]
         [] s = "STG_WAIT" -> [moved EXCEPT !.tmo = TRUE]
         [] s = "TIM_OUT"  -> [moved EXCEPT !.tmo = FALSE, !.armed = @ + 1]
         [] OTHER -> moved

\* Fault: no timeout is created for the wait between two stages.
ChangeStateNoTimer(c, s) ==
    LET moved == [c EXCEPT !.prev = c.st, !.st = s]
    IN IF s = "EXE_SCHED"
       THEN [moved EXCEPT !.armed = IF c.st = "INI" THEN @ ELSE @ + 1,
                          !.stage = IF c.st \in {"INI", "STG_WAIT"} THEN @ + 1 ELSE @]
       ELSE moved

\* _change_cmd_state when it succeeds.
ChangeState(c, s) ==
    LET moved == [c EXCEPT !.prev = c.st, !.st = s]
    IN CASE s = "EXE_SCHED" ->
              [moved EXCEPT !.armed = IF c.st = "INI" THEN @ ELSE @ + 1,
                            !.tmo = FALSE,
                            !.stage = IF c.st \in {"INI", "STG_WAIT"} THEN @ + 1 ELSE @]
         [] s = "STG_WAIT" -> [moved EXCEPT !.tmo = TRUE]
         [] s = "TIM_OUT"  -> [moved EXCEPT !.tmo = FALSE, !.armed = @ + 1]
         [] OTHER -> moved

\* _init_command: the deferred handler source starts with one run.
InitCommand ==
    ChangeState([NoCmd EXCEPT !.st = "INI", !.armed = 1, !.res = TRUE], "EXE_SCHED")

-----------------------------------------------------------------------------
Init ==
    /\ WC!Init
    /\ ifcEs = TRUE
    /\ umonEs = TRUE
    /\ kind = [w \in Workers |-> "none"]
    /\ client = [w \in Workers |-> "none"]
    /\ req = [w \in Workers |-> "unsent"]
    /\ reply = [w \in Workers |-> "none"]
    /\ conn = [w \in Workers |-> "none"]
    /\ cmd = [w \in Workers |-> NoCmd]
    /\ syncs = [w \in Workers |-> [s \in 1..2 |-> "none"]]
    /\ uevent = [w \in Workers |-> "none"]

-----------------------------------------------------------------------------
(***************************************************************************)
(* The main process.                                                       *)
(***************************************************************************)

\* _on_ubridge_interface_event: a worker, accept4, the CLIENT message.
InterfaceEvent(w) ==
    /\ ifcEs
    /\ WC!GetNewWorker(w, WC!DataExtMsg("CLIENT"))
    /\ \E k \in Kinds \ {"self"} : kind' = [kind EXCEPT ![w] = k]
    /\ client' = [client EXCEPT ![w] = "connected"]
    /\ conn' = [conn EXCEPT ![w] = "passed"]
    /\ UNCHANGED <<ifcEs, umonEs, req, reply, cmd, syncs, uevent>>

\* Its error returns.  A negative return turns the interface source off
\* (res.c: _sd_io_event_handler); the worker forked for a connection that
\* could not be accepted stays, without ever getting a message.
InterfaceEventFails(w) ==
    /\ ifcEs
    /\ \/ "fork" \in Faults /\ main = "alive" /\ UNCHANGED wcVars
       \/ "fork" \in Faults /\ WC!GetNewWorkerNoProxy(w)
       \/ "accept" \in Faults /\ WC!GetNewWorker(w, WC!NoMsg)
    /\ ifcEs' = FALSE
    /\ UNCHANGED <<umonEs, cliVars, conn, cmd, syncs, uevent>>

\* sid_ubr_cmd_dbdump, on SIGUSR1 to the main process.
CmdDbdump(w) ==
    /\ "self" \in Kinds
    /\ WC!GetNewWorker(w, WC!DataMsg("SELF"))
    /\ kind' = [kind EXCEPT ![w] = "self"]
    /\ UNCHANGED <<ifcEs, umonEs, client, req, reply, conn, cmd, syncs, uevent>>

\* Fault: the wakeup is sent whether or not the worker was found.
UmonitorEventBlind(w) ==
    /\ main = "alive" /\ umonEs /\ uevent[w] = "pending"
    /\ uevent' = [uevent EXCEPT ![w] = "gone"]
    /\ proxy' = [proxy EXCEPT ![w] = "ASSIGNED"]
    /\ toWrk' = [toWrk EXCEPT ![w] = Append(@, WC!DataMsg("UMONITOR"))]
    /\ UNCHANGED <<main, proxyEs, timer, proc, sigs, parentExited, workerEs, yielded,
                   toPrx, ifcEs, umonEs, cliVars, conn, cmd, syncs>>

\* _on_ubridge_umonitor_event: find the worker by SID_SESSION_ID and wake it.
\* Every failure (no such proxy, EPIPE) turns the monitor's source off.
UmonitorEvent(w) ==
    /\ main = "alive"
    /\ umonEs
    /\ uevent[w] = "pending"
    /\ uevent' = [uevent EXCEPT ![w] = "gone"]
    /\ umonEs' = (WC!ProxyLive(w) /\ WC!Alive(w))
    /\ IF WC!ProxyLive(w) THEN WC!ProxySend(w, WC!DataMsg("UMONITOR"))
                          ELSE UNCHANGED wcVars
    /\ UNCHANGED <<ifcEs, cliVars, conn, cmd, syncs>>

\* The same for a tagged uevent that carries no SID_SESSION_ID.
UmonitorEventStray ==
    /\ "stray" \in Faults
    /\ main = "alive"
    /\ umonEs
    /\ umonEs' = FALSE
    /\ UNCHANGED <<wcVars, ifcEs, cliVars, conn, cmd, syncs, uevent>>

\* Fault: the worker is not told that its export buffer was handled.
ProxyRecvSyncNoAck(w) ==
    /\ toPrx[w] /= <<>>
    /\ Head(toPrx[w]) = WC!DataExtMsg("SYNC")
    /\ syncs' = [syncs EXCEPT ![w][cmd[w].stage] = "stored"]
    /\ WC!ProxyRecvData(w, WC!NoMsg)
    /\ UNCHANGED <<ifcEs, umonEs, cliVars, conn, cmd, uevent>>

\* _worker_proxy_recv_system_cmd_sync: store (the result is ignored), ack.
ProxyRecvSync(w) ==
    /\ toPrx[w] /= <<>>
    /\ LET m == Head(toPrx[w])
       IN /\ m.cmd = "DATA_EXT"
          /\ m.data = "SYNC"
          /\ \E ok \in {m.fd} \cup (IF "sync" \in Faults THEN {FALSE} ELSE {}) :
                syncs' = [syncs EXCEPT ![w][cmd[w].stage] = IF ok THEN "stored" ELSE "failed"]
    /\ WC!ProxyRecvData(w, WC!DataMsg("SYNC"))
    /\ UNCHANGED <<ifcEs, umonEs, cliVars, conn, cmd, uevent>>

\* _worker_proxy_recv_system_cmd_resources; on failure nothing is sent.
ProxyRecvResources(w) ==
    /\ toPrx[w] /= <<>>
    /\ Head(toPrx[w]) = WC!DataMsg("RESOURCES")
    /\ \/ WC!ProxyRecvData(w, WC!DataExtMsg("RESOURCES"))
       \/ "tree" \in Faults /\ WC!ProxyRecvData(w, WC!NoMsg)
    /\ UNCHANGED <<ifcEs, umonEs, cliVars, conn, cmd, syncs, uevent>>

\* The callbacks of the proxy's channel.
ProxyChannelEvent(w) ==
    \/ ProxyRecvSync(w)
    \/ ProxyRecvResources(w)
    \/ /\ WC!ProxyRecvYield(w) \/ WC!ProxyRecvEof(w) \/ WC!ProxyRecvError(w)
       /\ UNCHANGED <<ifcEs, umonEs, cliVars, conn, cmd, syncs, uevent>>

ProxyChildEvent(w) ==
    /\ WC!ProxyChildEvent(w)
    /\ UNCHANGED <<ifcEs, umonEs, cliVars, conn, cmd, syncs, uevent>>

MainExit ==
    /\ "main" \in Faults
    /\ WC!MainExit
    /\ UNCHANGED <<ifcEs, umonEs, cliVars, conn, cmd, syncs, uevent>>

-----------------------------------------------------------------------------
(***************************************************************************)
(* The worker process: its channel and its connection.                     *)
(***************************************************************************)
WorkerStart(w) ==
    /\ WC!WorkerStart(w, TRUE)
    /\ UNCHANGED <<ifcEs, umonEs, cliVars, conn, cmd, syncs, uevent>>

\* _worker_recv_fn, MSG_CATEGORY_CLIENT: create the connection resource.
RecvClient(w) ==
    /\ toWrk[w] /= <<>>
    /\ Head(toWrk[w]) = WC!DataExtMsg("CLIENT")
    /\ WC!WorkerRecv(w, WC!NoMsg)
    /\ \E c \in {"open"} \cup (IF "conn" \in Faults THEN {"closed"} ELSE {}) :
          conn' = [conn EXCEPT ![w] = c]
    /\ UNCHANGED <<ifcEs, umonEs, cliVars, cmd, syncs, uevent>>

\* _worker_recv_fn, MSG_CATEGORY_SELF: create the command, which may fail.
RecvSelf(w) ==
    /\ toWrk[w] /= <<>>
    /\ Head(toWrk[w]) = WC!DataMsg("SELF")
    /\ WC!WorkerRecv(w, WC!NoMsg)
    /\ \E c \in {InitCommand} \cup (IF "conn" \in Faults THEN {cmd[w]} ELSE {}) :
          cmd' = [cmd EXCEPT ![w] = c]
    /\ UNCHANGED <<ifcEs, umonEs, cliVars, conn, syncs, uevent>>

\* Fault: a wakeup starts the next stage whatever the command was doing.
RecvWakeupResumes(w) ==
    /\ toWrk[w] /= <<>>
    /\ Head(toWrk[w]).data \in {"SYNC", "UMONITOR", "RESOURCES"}
    /\ WC!WorkerRecv(w, WC!NoMsg)
    /\ cmd' = [cmd EXCEPT ![w] = ChangeState([@ EXCEPT !.st = "STG_WAIT"], "EXE_SCHED")]
    /\ UNCHANGED <<ifcEs, umonEs, cliVars, conn, syncs, uevent>>

\* _worker_recv_system_cmd_{sync,umonitor,resources}: schedule the command,
\* unless it is scheduled already.
RecvWakeup(w) ==
    /\ toWrk[w] /= <<>>
    /\ Head(toWrk[w]).data \in {"SYNC", "UMONITOR", "RESOURCES"}
    /\ WC!WorkerRecv(w, WC!NoMsg)
    /\ cmd' = [cmd EXCEPT ![w] = IF @.st = "EXE_SCHED" THEN @
                                 ELSE ChangeState(@, "EXE_SCHED")]
    /\ UNCHANGED <<ifcEs, umonEs, cliVars, conn, syncs, uevent>>

WorkerChannelEvent(w) ==
    \/ RecvClient(w)
    \/ RecvSelf(w)
    \/ RecvWakeup(w)
    \/ /\ WC!WorkerRecvEof(w)
       /\ UNCHANGED <<ifcEs, umonEs, cliVars, conn, cmd, syncs, uevent>>

\* The client has closed its end of the connection.
ClientGone(w) == client[w] \in {"done", "failed", "left"}

\* _on_connection_event with a complete request: _create_cmd_res, and
\* _reply_failure if that fails.  For a protocol this side knows
\* _reply_failure only fills the buffer (the write is in the branch for a
\* failed sid_buf_add) and the connection stays; otherwise the connection is
\* closed and the worker exits.
ConnectionRequest(w) ==
    /\ conn[w] = "open"
    /\ req[w] = "sent"
    /\ req' = [req EXCEPT ![w] = "taken"]
    /\ WC!WorkerEvent(w, WC!NoMsg, kind[w] /= "newer")
    /\ cmd' = [cmd EXCEPT ![w] = IF kind[w] \in {"rejected", "newer"} THEN @ ELSE InitCommand]
    /\ conn' = [conn EXCEPT ![w] = IF kind[w] = "newer" THEN "closed" ELSE @]
    /\ UNCHANGED <<ifcEs, umonEs, kind, client, reply, syncs, uevent>>

\* _on_connection_event at end of file: _connection_cleanup; the command, if
\* there is one, moves up to the worker.  Nothing yields the worker.
ConnectionEof(w) ==
    /\ proc[w] = "running"
    /\ conn[w] = "open"
    /\ ClientGone(w)
    /\ req[w] /= "sent"
    /\ reply[w] /= "sent"
    /\ conn' = [conn EXCEPT ![w] = "closed"]
    /\ UNCHANGED <<wcVars, ifcEs, umonEs, cliVars, cmd, syncs, uevent>>

\* EPOLLERR: the client closed with the reply unread; cleanup, return -1,
\* and exit_on_failure ends the worker whatever its command is doing.
ConnectionError(w) ==
    /\ conn[w] = "open"
    /\ client[w] = "left"
    /\ reply[w] = "sent"
    /\ WC!WorkerEvent(w, WC!NoMsg, FALSE)
    /\ conn' = [conn EXCEPT ![w] = "closed"]
    /\ UNCHANGED <<ifcEs, umonEs, cliVars, cmd, syncs, uevent>>

ConnectionEvent(w) == ConnectionRequest(w) \/ ConnectionEof(w) \/ ConnectionError(w)

-----------------------------------------------------------------------------
(***************************************************************************)
(* The worker process: _cmd_handler, one run of the deferred source.       *)
(***************************************************************************)

\* The command as the running callback finds it.
Fired(w) == [cmd[w] EXCEPT !.armed = @ - 1]

HandlerRuns(w) == proc[w] = "running" /\ cmd[w].armed > 0

\* r < 0: CMD_STATE_ERR, yield, and exit_on_failure.
CmdFail(w) ==
    /\ cmd' = [cmd EXCEPT ![w] = ChangeState(Fired(w), "ERR")]
    /\ WC!WorkerEvent(w, WC!YieldMsg, FALSE)
    /\ UNCHANGED <<ifcEs, umonEs, cliVars, uevent>>

\* Sending the response succeeds: there is none left, nobody to send it to
\* (self), or the client still listens on an open connection.
CanReply(w) == ~cmd[w].res \/ kind[w] = "self" \/ (conn[w] = "open" /\ ~ClientGone(w))

\* RES_RESBUF_L_SEND, or RES_RESBUF_F_SEND and RES_EXPBUF_L_SEND: send the
\* response, then finish or wait for the next stage.
CmdReply(w) ==
    \/ /\ CanReply(w)
       /\ LET sending == [Fired(w) EXCEPT !.st = "RES_RESBUF_L_SEND", !.res = FALSE]
              next == IF LastStage(kind[w], sending) THEN "FIN" ELSE "STG_WAIT"
          IN /\ cmd' = [cmd EXCEPT ![w] = ChangeState(sending, next)]
             /\ WC!WorkerEvent(w, IF next = "FIN" THEN WC!YieldMsg ELSE WC!NoMsg, TRUE)
       /\ reply' = [reply EXCEPT ![w] =
                       IF cmd[w].res /\ kind[w] /= "self" THEN "sent" ELSE @]
       /\ UNCHANGED <<ifcEs, umonEs, kind, client, req, conn, uevent>>
    \/ /\ ~CanReply(w)
       /\ conn' = [conn EXCEPT ![w] = "closed"]
       /\ CmdFail(w)

\* Fault: the response goes out without waiting for the main process.
CmdAskMainNoWait(w, m, s) ==
    /\ CanReply(w)
    /\ LET next == IF LastStage(kind[w], cmd[w]) THEN "FIN" ELSE "STG_WAIT"
       IN cmd' = [cmd EXCEPT ![w] = ChangeState([Fired(w) EXCEPT !.res = FALSE], next)]
    /\ WC!WorkerEvent(w, m, TRUE)
    /\ reply' = [reply EXCEPT ![w] = IF cmd[w].res THEN "sent" ELSE @]
    /\ UNCHANGED <<ifcEs, umonEs, kind, client, req, conn, uevent>>

\* Send m to the main process and wait in state s; fail if it is gone.
CmdAskMain(w, m, s) ==
    \/ /\ WC!ProxyLive(w)
       /\ cmd' = [cmd EXCEPT ![w] = ChangeState(Fired(w), s)]
       /\ WC!WorkerEvent(w, m, TRUE)
       /\ UNCHANGED <<ifcEs, umonEs, cliVars, conn, uevent>>
    \/ /\ ~WC!ProxyLive(w)
       /\ CmdFail(w)
       /\ UNCHANGED conn

\* The first run, a new stage, or the resumed handler: execute, build the
\* results and send them out.  With CMD_KV_EXPBUF_TO_MAIN the export buffer
\* goes to the main process first, unless it is empty.
CmdExec(w) ==
    /\ HandlerRuns(w)
    /\ cmd[w].st = "EXE_SCHED"
    /\ cmd[w].prev \in {"INI", "EXE_WAIT", "STG_WAIT"}
    /\ \/ "exec" \in Faults /\ CmdFail(w) /\ UNCHANGED <<conn, syncs>>
       \/ /\ kind[w] = "resources" /\ cmd[w].prev = "INI"
          /\ CmdAskMain(w, WC!DataMsg("RESOURCES"), "EXE_WAIT")
          /\ UNCHANGED syncs
       \/ /\ kind[w] = "scan"
          /\ CmdAskMain(w, WC!DataExtMsg("SYNC"), "RES_EXPBUF_WAIT_ACK")
          /\ syncs' = [syncs EXCEPT ![w][cmd[w].stage] =
                          IF WC!ProxyLive(w) THEN "sent" ELSE @]
       \/ /\ kind[w] = "scan"
          /\ CmdReply(w)
          /\ syncs' = [syncs EXCEPT ![w][cmd[w].stage] = "empty"]
       \/ /\ kind[w] \in {"plain", "self"} \/ (kind[w] = "resources" /\ cmd[w].prev = "EXE_WAIT")
          /\ CmdReply(w)
          /\ UNCHANGED syncs

\* The export buffer is acked.
CmdAcked(w) ==
    /\ HandlerRuns(w)
    /\ cmd[w].st = "EXE_SCHED"
    /\ cmd[w].prev = "RES_EXPBUF_WAIT_ACK"
    /\ CmdReply(w)
    /\ UNCHANGED syncs

\* CMD_STATE_TIM_OUT, any other state than EXE_SCHED, or scheduled from any
\* other state: r is still -1 when the handler gets to its end.
CmdUnexpected(w) ==
    /\ HandlerRuns(w)
    /\ cmd[w].st = "EXE_SCHED" =>
          cmd[w].prev \notin {"INI", "EXE_WAIT", "STG_WAIT", "RES_EXPBUF_WAIT_ACK"}
    /\ CmdFail(w)
    /\ UNCHANGED <<conn, syncs>>

CmdHandler(w) == CmdExec(w) \/ CmdAcked(w) \/ CmdUnexpected(w)

\* Fault: the timeout yields the worker, as the handler will do again.
CmdTimeoutYields(w) ==
    /\ cmd[w].tmo
    /\ WC!WorkerEvent(w, WC!YieldMsg, TRUE)
    /\ cmd' = [cmd EXCEPT ![w] = ChangeState(@, "TIM_OUT")]
    /\ UNCHANGED <<ifcEs, umonEs, cliVars, conn, syncs, uevent>>

\* _on_cmd_tim_out_event
CmdTimeout(w) ==
    /\ proc[w] = "running"
    /\ cmd[w].tmo
    /\ cmd' = [cmd EXCEPT ![w] = IF @.st = "STG_WAIT" THEN ChangeState(@, "TIM_OUT")
                                 ELSE [@ EXCEPT !.tmo = FALSE]]
    /\ UNCHANGED <<wcVars, ifcEs, umonEs, cliVars, conn, syncs, uevent>>

WorkerSignal(w) ==
    /\ WC!WorkerSignal(w)
    /\ UNCHANGED <<ifcEs, umonEs, cliVars, conn, cmd, syncs, uevent>>

WorkerTerminate(w) ==
    /\ WC!WorkerTerminate(w)
    /\ UNCHANGED <<ifcEs, umonEs, cliVars, conn, cmd, syncs, uevent>>

\* A crash, possibly between the two writes of the SYNC message.
WorkerCrash(w) ==
    /\ "crash" \in Faults
    /\ \/ /\ WC!WorkerCrash(w, WC!NoMsg)
          /\ UNCHANGED syncs
       \/ /\ HandlerRuns(w) /\ kind[w] = "scan"
          /\ cmd[w].st = "EXE_SCHED" /\ cmd[w].prev \in {"INI", "STG_WAIT"}
          /\ WC!WorkerCrash(w, WC!TornMsg("SYNC"))
          /\ syncs' = [syncs EXCEPT ![w][cmd[w].stage] = "sent"]
    /\ UNCHANGED <<ifcEs, umonEs, cliVars, conn, cmd, uevent>>

-----------------------------------------------------------------------------
(***************************************************************************)
(* Clients (usid, sidctl) and udev: external, modelled from how the bridge *)
(* meets them.  A client sends one request and reads until reply or end of *)
(* file; udev broadcasts the event once the rule that ran usid is done.    *)
(***************************************************************************)
ClientSend(w) ==
    /\ client[w] = "connected"
    /\ client' = [client EXCEPT ![w] = "waiting"]
    /\ req' = [req EXCEPT ![w] = "sent"]
    /\ UNCHANGED <<wcVars, ifcEs, umonEs, kind, reply, conn, cmd, syncs, uevent>>

ClientRead(w) ==
    /\ client[w] = "waiting"
    /\ reply[w] = "sent"
    /\ client' = [client EXCEPT ![w] = "done"]
    /\ reply' = [reply EXCEPT ![w] = "read"]
    /\ UNCHANGED <<wcVars, ifcEs, umonEs, kind, req, conn, cmd, syncs, uevent>>

\* Nobody holds the other end of the client's socket any more.
ServerClosed(w) == conn[w] = "closed" \/ ~WC!Alive(w)

ClientEof(w) ==
    /\ client[w] \in {"connected", "waiting"}
    /\ reply[w] = "none"
    /\ ServerClosed(w)
    /\ client' = [client EXCEPT ![w] = "failed"]
    /\ UNCHANGED <<wcVars, ifcEs, umonEs, kind, req, reply, conn, cmd, syncs, uevent>>

ClientLeave(w) ==
    /\ "client" \in Faults
    /\ client[w] \in {"connected", "waiting"}
    /\ client' = [client EXCEPT ![w] = "left"]
    /\ UNCHANGED <<wcVars, ifcEs, umonEs, kind, req, reply, conn, cmd, syncs, uevent>>

UdevEvent(w) ==
    /\ kind[w] = "scan"
    /\ client[w] = "done"
    /\ uevent[w] = "none"
    /\ uevent' = [uevent EXCEPT ![w] = "pending"]
    /\ UNCHANGED <<wcVars, ifcEs, umonEs, cliVars, conn, cmd, syncs>>

-----------------------------------------------------------------------------
MainNext(w) ==
    \/ InterfaceEvent(w)
    \/ InterfaceEventFails(w)
    \/ CmdDbdump(w)
    \/ UmonitorEvent(w)
    \/ ProxyChannelEvent(w)
    \/ ProxyChildEvent(w)

WorkerNext(w) ==
    \/ WorkerStart(w)
    \/ WorkerChannelEvent(w)
    \/ ConnectionEvent(w)
    \/ CmdHandler(w)
    \/ CmdTimeout(w)
    \/ WorkerSignal(w)
    \/ WorkerTerminate(w)
    \/ WorkerCrash(w)

ClientNext(w) ==
    \/ ClientSend(w)
    \/ ClientRead(w)
    \/ ClientEof(w)
    \/ ClientLeave(w)
    \/ UdevEvent(w)

Next ==
    \/ MainExit
    \/ UmonitorEventStray
    \/ \E w \in Workers : MainNext(w) \/ WorkerNext(w) \/ ClientNext(w)

Spec == Init /\ [][Next]_vars

\* Each event source of either loop is served when it stays ready, timers
\* run out, processes that exit get there, and clients write and read.
\* Nothing makes a client connect, udev send an event or a fault happen.
Fairness ==
    \A w \in Workers :
        /\ WF_vars(ProxyChannelEvent(w))
        /\ WF_vars(ProxyChildEvent(w))
        /\ WF_vars(UmonitorEvent(w))
        /\ WF_vars(WorkerStart(w))
        /\ WF_vars(WorkerChannelEvent(w))
        /\ WF_vars(ConnectionEvent(w))
        /\ WF_vars(CmdHandler(w))
        /\ WF_vars(CmdTimeout(w))
        /\ WF_vars(WorkerSignal(w))
        /\ WF_vars(WorkerTerminate(w))
        /\ WF_vars(ClientSend(w) \/ ClientRead(w) \/ ClientEof(w))

FairSpec == Spec /\ Fairness
-----------------------------------------------------------------------------
(***************************************************************************)
(* Properties.                                                             *)
(***************************************************************************)

\* The comment in _cmd_handler: the export buffer goes to the main process
\* first.  By the time a scan's client sees the reply, and with it udev, the
\* main process has dealt with everything the stage exported, so a scan that
\* udev starts next is forked from a main process that knows of it.
AckBeforeReply ==
    \A w \in Workers : kind[w] = "scan" /\ reply[w] /= "none" =>
        syncs[w][1] \in {"empty", "stored", "failed"}

\* CMD_STATE_FIN, "all cmd stages done, all results successfully sent": both
\* stages of a finished scan have run and were dealt with by the main process,
\* and any client whose command finished has been sent its reply.
FinMeansAllSent ==
    \A w \in Workers : cmd[w].st = "FIN" =>
        /\ kind[w] = "scan" =>
              \A s \in 1..2 : syncs[w][s] \in {"empty", "stored", "failed"}
        /\ kind[w] /= "self" => reply[w] /= "none"

HasWakeup(w, p) == \E i \in 1..Len(toWrk[w]) : toWrk[w][i].cmd /= "YIELD" /\ toWrk[w][i].data = p

\* A wakeup finds the command waiting for it, so the SID_INTERNAL_ERROR
\* branches of _change_cmd_state and _cmd_handler are never taken: an ack
\* meets RES_EXPBUF_WAIT_ACK, a resource tree EXE_WAIT, a udev event a
\* command that waits for it or has just given up; the handler only runs
\* when scheduled or timed out, the timer only while waiting for a stage.
WakeupFindsWaiter ==
    \A w \in Workers : proc[w] = "running" =>
        /\ HasWakeup(w, "SYNC") => cmd[w].st = "RES_EXPBUF_WAIT_ACK"
        /\ HasWakeup(w, "RESOURCES") => cmd[w].st = "EXE_WAIT"
        /\ HasWakeup(w, "UMONITOR") => cmd[w].st \in {"STG_WAIT", "TIM_OUT"}
        /\ cmd[w].armed > 0 => cmd[w].st \in {"EXE_SCHED", "TIM_OUT"}
        /\ cmd[w].tmo <=> cmd[w].st = "STG_WAIT"

\* A command that timed out ends in CMD_STATE_ERR, also when the udev event
\* it waited for arrives before its handler has run.
TimeoutIsFinal ==
    [][\A w \in Workers :
          cmd[w].st = "TIM_OUT" \/ (cmd[w].st = "EXE_SCHED" /\ cmd[w].prev = "TIM_OUT") =>
              \/ cmd'[w].st \in {"TIM_OUT", "ERR"}
              \/ cmd'[w].st = "EXE_SCHED" /\ cmd'[w].prev = "TIM_OUT"]_vars

\* Neither side ever has to wait for room in the channel (sid_buf_write_all
\* and the ancillary byte spin on EAGAIN): at most two messages are under way.
FewUnderWay == \A w \in Workers : Len(toWrk[w]) + Len(toPrx[w]) <= 2

\* The bridge uses the worker control as WorkerControl allows.
RefinesWorkerControl == WC!Spec

\* Nothing will end the wait of w: the main process is gone, or it could not
\* give the resource tree the command asked for (EXE_WAIT has no timeout).
Abandoned(w) ==
    \/ main = "exited"
    \/ cmd[w].st = "EXE_WAIT" /\ toWrk[w] = <<>> /\ toPrx[w] = <<>>

\* Every command comes to an end: its worker is released, and its proxy with
\* it, unless the main process goes first or has no answer for it.
CommandEnds ==
    \A w \in Workers :
        cmd[w].st /= "UNDEFINED" ~> proxy[w] = "EXITED" \/ Abandoned(w)

\* A client that waits for an accepted request gets a reply or end of file.
ClientAnswered ==
    \A w \in Workers :
        client[w] = "waiting" /\ kind[w] /= "rejected" ~>
            client[w] /= "waiting" \/ Abandoned(w)

\* A scan goes on to its second stage when its udev event arrives in time,
\* otherwise it is ended by the stage timeout.
ScanLeavesStageWait ==
    \A w \in Workers :
        cmd[w].st = "STG_WAIT" ~>
            cmd[w].stage = 2 \/ cmd[w].st = "ERR" \/ ~WC!Alive(w) \/ main = "exited"

\* "TODO: make sure error path is not causing the client waiting for
\* response to hang": also a refused request is answered.
EveryClientAnswered ==
    \A w \in Workers : client[w] = "waiting" ~> client[w] /= "waiting"
=============================================================================
