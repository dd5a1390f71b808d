--------------------------- MODULE WorkerControl ---------------------------
(***************************************************************************)
(* The worker control of src/src/resource/wrk-ctl.c: the main process      *)
(* forks internal workers, keeps one worker proxy resource per worker and  *)
(* talks to it over a socket pair.  The two ends run their own event       *)
(* loops, so every action below is one callback of one of the two loops    *)
(* (or one step of the kernel), and callbacks of different processes       *)
(* interleave.                                                             *)
(*                                                                         *)
(* A worker is named by the id under which its proxy is created (a fresh   *)
(* UUID, ubr.c: _get_worker), so an element of Workers is forked at most   *)
(* once.  Actions take the message a callback sends as a parameter: a      *)
(* module that models the callbacks (Ubridge) supplies it, the generic     *)
(* Next below lets the callbacks send anything.                            *)
(***************************************************************************)
EXTENDS Naturals, Sequences

CONSTANTS
    Workers,      \* ids of the workers the main process may fork
    Payloads,     \* what a DATA or DATA_EXT message can carry
    MaxLane,      \* messages one direction of a channel holds (socket buffer)
    ExecTimeout   \* timeout_spec: "none", or the signal sent on expiry

ASSUME MaxLaneAssumption == MaxLane \in Nat \ {0}
ASSUME ExecTimeoutAssumption == ExecTimeout \in {"none", "NOSIG", "TERM", "KILL"}

VARIABLES
    main,         \* the main process: "alive" or "exited"
    proxy,        \* worker_proxy.state; "NONE" before creation or if it failed
    proxyEs,      \* the event source of the proxy's end of the channel is on
    timer,        \* exec_timeout_es is armed
    proc,         \* the worker process
    sigs,         \* signals pending in the worker (all are blocked there)
    parentExited, \* worker.parent_exited
    workerEs,     \* the event source of the worker's end of the channel is on
    yielded,      \* history: how sid_wrk_ctl_yield_worker disposed of a yield
    toWrk,        \* lane proxy -> worker
    toPrx         \* lane worker -> proxy

proxyVars  == <<proxy, proxyEs, timer>>
workerVars == <<proc, sigs, parentExited, workerEs, yielded>>
vars == <<main, proxy, proxyEs, timer, proc, sigs, parentExited, workerEs,
          yielded, toWrk, toPrx>>

-----------------------------------------------------------------------------
(***************************************************************************)
(* Messages.  DATA_EXT is followed by one byte of ancillary data with a    *)
(* file descriptor; fd = FALSE says that the sender died between the two   *)
(* writes, and the receiver sees ext.used with fd_pass = -1.               *)
(***************************************************************************)
YieldMsg      == [cmd |-> "YIELD"]
DataMsg(p)    == [cmd |-> "DATA", data |-> p, fd |-> FALSE]
DataExtMsg(p) == [cmd |-> "DATA_EXT", data |-> p, fd |-> TRUE]
TornMsg(p)    == [cmd |-> "DATA_EXT", data |-> p, fd |-> FALSE]
NoMsg         == [cmd |-> "NONE"]

DataMsgs == {DataMsg(p) : p \in Payloads} \cup {DataExtMsg(p) : p \in Payloads}
TornMsgs == {TornMsg(p) : p \in Payloads}
Messages == {YieldMsg} \cup DataMsgs \cup TornMsgs

\* The lane after a callback has sent m (at most one message per callback).
Put(lane, m) == IF m = NoMsg THEN lane ELSE Append(lane, m)

ProxyStates == {"NONE", "NEW", "IDLE", "ASSIGNED", "EXITING", "TIMED_OUT", "EXITED"}
ProcStates  == {"none", "forked", "running", "leaving", "zombie", "reaped"}

\* The proxy resource exists, hence its end of the channel is open.
ProxyLive(w) == main = "alive" /\ proxy[w] \notin {"NONE", "EXITED"}

\* The worker process has not terminated, hence its end is open.
Alive(w) == proc[w] \in {"forked", "running", "leaving"}

\* A message lane has room, or nothing is sent: sid_buf_write_all and
\* sid_comms_unix_send spin on EAGAIN, so a full lane blocks the sender.
Fits(lane, m) == m = NoMsg \/ Len(lane) < MaxLane

-----------------------------------------------------------------------------
Init ==
    /\ main = "alive"
    /\ proxy = [w \in Workers |-> "NONE"]
    /\ proxyEs = [w \in Workers |-> FALSE]
    /\ timer = [w \in Workers |-> FALSE]
    /\ proc = [w \in Workers |-> "none"]
    /\ sigs = [w \in Workers |-> {}]
    /\ parentExited = [w \in Workers |-> FALSE]
    /\ workerEs = [w \in Workers |-> FALSE]
    /\ yielded = [w \in Workers |-> "no"]
    /\ toWrk = [w \in Workers |-> <<>>]
    /\ toPrx = [w \in Workers |-> <<>>]

-----------------------------------------------------------------------------
(***************************************************************************)
(* The main process.                                                       *)
(***************************************************************************)

\* sid_wrk_ctl_get_new_worker: create the channel, fork, create the proxy
\* (state NEW, channel and child event sources, optional exec timer).  The
\* caller may send a first message m from the same event callback.
GetNewWorker(w, m) ==
    /\ main = "alive"
    /\ proc[w] = "none"
    /\ proc' = [proc EXCEPT ![w] = "forked"]
    /\ proxy' = [proxy EXCEPT ![w] = IF m = NoMsg THEN "NEW" ELSE "ASSIGNED"]
    /\ proxyEs' = [proxyEs EXCEPT ![w] = TRUE]
    /\ timer' = [timer EXCEPT ![w] = ExecTimeout /= "none"]
    /\ toWrk' = [toWrk EXCEPT ![w] = Put(@, m)]
    /\ UNCHANGED <<main, sigs, parentExited, workerEs, yielded, toPrx>>

\* The same when creating the proxy resource fails after the fork: the
\* channels are closed, but the child is neither told nor reaped.
GetNewWorkerNoProxy(w) ==
    /\ main = "alive"
    /\ proc[w] = "none"
    /\ proc' = [proc EXCEPT ![w] = "forked"]
    /\ UNCHANGED <<main, proxyVars, sigs, parentExited, workerEs, yielded,
                   toWrk, toPrx>>

\* sid_wrk_ctl_chan_send on a proxy: _channel_prepare_send makes the proxy
\* ASSIGNED whatever its state was; the write fails (EPIPE) and the message
\* is dropped if the worker's end is closed.
ProxySend(w, m) ==
    /\ ProxyLive(w)
    /\ Fits(toWrk[w], m)
    /\ proxy' = [proxy EXCEPT ![w] = "ASSIGNED"]
    /\ toWrk' = [toWrk EXCEPT ![w] = IF Alive(w) THEN Put(@, m) ELSE @]
    /\ UNCHANGED <<main, proxyEs, timer, workerVars, toPrx>>

\* Fault: kill() is left out of _make_worker_exit.
ProxyRecvYieldNoKill(w) ==
    /\ ProxyLive(w) /\ proxyEs[w] /\ toPrx[w] /= <<>> /\ Head(toPrx[w]) = YieldMsg
    /\ toPrx' = [toPrx EXCEPT ![w] = Tail(@)]
    /\ proxy' = [proxy EXCEPT ![w] = "EXITING"]
    /\ UNCHANGED <<main, proxyEs, timer, workerVars, toWrk>>

\* Fault: the source of the channel is destroyed on YIELD already.
ProxyRecvYieldCloses(w) ==
    /\ ProxyLive(w) /\ proxyEs[w] /\ toPrx[w] /= <<>> /\ Head(toPrx[w]) = YieldMsg
    /\ toPrx' = [toPrx EXCEPT ![w] = Tail(@)]
    /\ sigs' = [sigs EXCEPT ![w] = @ \cup {"TERM"}]
    /\ proxy' = [proxy EXCEPT ![w] = "EXITING"]
    /\ proxyEs' = [proxyEs EXCEPT ![w] = FALSE]
    /\ UNCHANGED <<main, timer, proc, parentExited, workerEs, yielded, toWrk>>

\* _on_worker_proxy_channel_event with a YIELD message: _make_worker_exit.
ProxyRecvYield(w) ==
    /\ ProxyLive(w)
    /\ proxyEs[w]
    /\ toPrx[w] /= <<>>
    /\ Head(toPrx[w]) = YieldMsg
    /\ toPrx' = [toPrx EXCEPT ![w] = Tail(@)]
    /\ sigs' = [sigs EXCEPT ![w] = IF Alive(w) THEN @ \cup {"TERM"} ELSE @]
    /\ proxy' = [proxy EXCEPT ![w] = "EXITING"]
    /\ UNCHANGED <<main, proxyEs, timer, proc, parentExited, workerEs, yielded,
                   toWrk>>

\* _on_worker_proxy_channel_event with data: proxy_rx.cb.fn runs and may
\* send m back through sid_wrk_ctl_chan_send.
ProxyRecvData(w, m) ==
    /\ ProxyLive(w)
    /\ proxyEs[w]
    /\ toPrx[w] /= <<>>
    /\ Head(toPrx[w]) /= YieldMsg
    /\ Fits(toWrk[w], m)
    /\ toPrx' = [toPrx EXCEPT ![w] = Tail(@)]
    /\ proxy' = [proxy EXCEPT ![w] = IF m = NoMsg THEN @ ELSE "ASSIGNED"]
    /\ toWrk' = [toWrk EXCEPT ![w] = IF Alive(w) THEN Put(@, m) ELSE @]
    /\ UNCHANGED <<main, proxyEs, timer, workerVars>>

\* _on_worker_proxy_channel_event at end of file: the source is destroyed.
ProxyRecvEof(w) ==
    /\ ProxyLive(w)
    /\ proxyEs[w]
    /\ toPrx[w] = <<>>
    /\ ~Alive(w)
    /\ proxyEs' = [proxyEs EXCEPT ![w] = FALSE]
    /\ UNCHANGED <<main, proxy, timer, workerVars, toWrk, toPrx>>

\* EPOLLERR: the worker died with messages unread, so the kernel resets the
\* socket; _chan_buf_recv gives up before reading and the negative return
\* turns the source off.  (ProxyRecv* may still win if epoll reported the
\* channel before the reset.)
ProxyRecvError(w) ==
    /\ ProxyLive(w)
    /\ proxyEs[w]
    /\ ~Alive(w)
    /\ toWrk[w] /= <<>>
    /\ proxyEs' = [proxyEs EXCEPT ![w] = FALSE]
    /\ UNCHANGED <<main, proxy, timer, workerVars, toWrk, toPrx>>

\* _on_worker_proxy_timeout_event: TIMED_OUT whatever the state, then kill.
ProxyTimeout(w) ==
    /\ ProxyLive(w)
    /\ timer[w]
    /\ timer' = [timer EXCEPT ![w] = FALSE]
    /\ proxy' = [proxy EXCEPT ![w] = "TIMED_OUT"]
    /\ sigs' = [sigs EXCEPT ![w] =
                    IF ExecTimeout = "TERM" /\ Alive(w) THEN @ \cup {"TERM"} ELSE @]
    /\ proc' = [proc EXCEPT ![w] =
                    IF ExecTimeout = "KILL" /\ Alive(w) THEN "zombie" ELSE @]
    /\ UNCHANGED <<main, proxyEs, parentExited, workerEs, yielded, toWrk, toPrx>>

\* Fault: the child event has the priority of the channel events.
ProxyChannelReadyNever(w) == FALSE

\* An event of the proxy's channel, priority 0, is pending.
ProxyChannelReady(w) == proxyEs[w] /\ (toPrx[w] /= <<>> \/ ~Alive(w))

\* Fault: the proxy is not unreferenced after the child has exited.
ProxyChildEventKeeps(w) ==
    /\ ProxyLive(w) /\ proc[w] = "zombie" /\ ~ProxyChannelReady(w)
    /\ proc' = [proc EXCEPT ![w] = "reaped"]
    /\ UNCHANGED <<main, proxyVars, sigs, parentExited, workerEs, yielded, toWrk, toPrx>>

\* _on_worker_proxy_child_event, priority 1: the proxy becomes EXITED and is
\* destroyed with its sources and its end of the channel; sd-event reaps the
\* child after the callback.
ProxyChildEvent(w) ==
    /\ ProxyLive(w)
    /\ proc[w] = "zombie"
    /\ ~ProxyChannelReady(w)
    /\ proxy' = [proxy EXCEPT ![w] = "EXITED"]
    /\ proxyEs' = [proxyEs EXCEPT ![w] = FALSE]
    /\ timer' = [timer EXCEPT ![w] = FALSE]
    /\ proc' = [proc EXCEPT ![w] = "reaped"]
    /\ UNCHANGED <<main, sigs, parentExited, workerEs, yielded, toWrk, toPrx>>

\* The main process ends (SIGTERM, SIGINT or a crash).  The kernel closes
\* the proxies' ends and sends PR_SET_PDEATHSIG to workers past prctl().
MainExit ==
    /\ main = "alive"
    /\ main' = "exited"
    /\ sigs' = [w \in Workers |-> IF proc[w] \in {"running", "leaving"}
                                  THEN sigs[w] \cup {"USR1"} ELSE sigs[w]]
    /\ UNCHANGED <<proxyVars, proc, parentExited, workerEs, yielded, toWrk, toPrx>>

-----------------------------------------------------------------------------
(***************************************************************************)
(* The worker process.                                                     *)
(***************************************************************************)

\* The child after fork: prctl(), the getppid() check, then
\* _run_internal_worker and _init_worker, which may fail (ok = FALSE).
WorkerStart(w, ok) ==
    /\ proc[w] = "forked"
    /\ IF main = "exited" \/ ~ok
       THEN /\ proc' = [proc EXCEPT ![w] = "leaving"]
            /\ UNCHANGED workerEs
       ELSE /\ proc' = [proc EXCEPT ![w] = "running"]
            /\ workerEs' = [workerEs EXCEPT ![w] = TRUE]
    /\ UNCHANGED <<main, proxyVars, sigs, parentExited, yielded, toWrk, toPrx>>

\* Fault: a yield is always sent, parent_exited is not looked at.
EmitNoRaise(w, m) ==
    /\ Fits(toPrx[w], m)
    /\ toPrx' = [toPrx EXCEPT ![w] = IF ProxyLive(w) THEN Put(@, m) ELSE @]
    /\ yielded' = [yielded EXCEPT ![w] = IF m /= YieldMsg THEN @ ELSE
                        IF parentExited[w] THEN "raised" ELSE "asked"]
    /\ UNCHANGED sigs

\* What sending m from the worker does: sid_wrk_ctl_chan_send for data,
\* sid_wrk_ctl_yield_worker for YieldMsg (which raises SIGTERM instead once
\* parent_exited is set).  A write to a closed channel is dropped.
Emit(w, m) ==
    /\ Fits(toPrx[w], m)
    /\ LET raise == m = YieldMsg /\ parentExited[w]
       IN /\ toPrx' = [toPrx EXCEPT ![w] =
                          IF ProxyLive(w) /\ ~raise THEN Put(@, m) ELSE @]
          /\ sigs' = [sigs EXCEPT ![w] = IF raise THEN @ \cup {"TERM"} ELSE @]
          /\ yielded' = [yielded EXCEPT ![w] =
                            IF m /= YieldMsg \/ @ = "raised" THEN @
                            ELSE IF raise THEN "raised" ELSE "asked"]

\* Any callback of the worker that is not about its channel: it may send m,
\* and with ok = FALSE it fails under exit_on_failure and ends the loop.
WorkerEvent(w, m, ok) ==
    /\ proc[w] = "running"
    /\ Emit(w, m)
    /\ proc' = [proc EXCEPT ![w] = IF ok THEN @ ELSE "leaving"]
    /\ UNCHANGED <<main, proxyVars, parentExited, workerEs, toWrk>>

\* _on_worker_channel_event: a message arrives, worker_rx.cb.fn may send m.
WorkerRecv(w, m) ==
    /\ proc[w] = "running"
    /\ workerEs[w]
    /\ toWrk[w] /= <<>>
    /\ toWrk' = [toWrk EXCEPT ![w] = Tail(@)]
    /\ Emit(w, m)
    /\ UNCHANGED <<main, proxyVars, proc, parentExited, workerEs>>

\* _on_worker_channel_event at end of file, or on EPOLLERR when the main
\* process died with messages of this worker unread: only the source goes.
WorkerRecvEof(w) ==
    /\ proc[w] = "running"
    /\ workerEs[w]
    /\ ~ProxyLive(w)
    /\ toWrk[w] = <<>> \/ toPrx[w] /= <<>>
    /\ workerEs' = [workerEs EXCEPT ![w] = FALSE]
    /\ UNCHANGED <<main, proxyVars, proc, sigs, parentExited, yielded, toWrk, toPrx>>

\* _on_worker_signal_event; signalfd hands out the lowest number first.
WorkerSignal(w) ==
    /\ proc[w] = "running"
    /\ sigs[w] /= {}
    /\ IF "USR1" \in sigs[w]
       THEN /\ sigs' = [sigs EXCEPT ![w] = @ \ {"USR1"}]
            /\ parentExited' = [parentExited EXCEPT ![w] = TRUE]
            /\ UNCHANGED proc
       ELSE /\ sigs' = [sigs EXCEPT ![w] = @ \ {"TERM"}]
            /\ proc' = [proc EXCEPT ![w] = "leaving"]
            /\ UNCHANGED parentExited
    /\ UNCHANGED <<main, proxyVars, workerEs, yielded, toWrk, toPrx>>

\* The event loop has returned; the process destroys its resources, exits.
WorkerTerminate(w) ==
    /\ proc[w] = "leaving"
    /\ proc' = [proc EXCEPT ![w] = "zombie"]
    /\ UNCHANGED <<main, proxyVars, sigs, parentExited, workerEs, yielded,
                   toWrk, toPrx>>

\* The worker is killed or crashes, possibly between the two writes of a
\* DATA_EXT message.
WorkerCrash(w, m) ==
    /\ Alive(w)
    /\ m /= NoMsg => proc[w] = "running" /\ ProxyLive(w) /\ Fits(toPrx[w], m)
    /\ proc' = [proc EXCEPT ![w] = "zombie"]
    /\ toPrx' = [toPrx EXCEPT ![w] = Put(@, m)]
    /\ UNCHANGED <<main, proxyVars, sigs, parentExited, workerEs, yielded, toWrk>>

-----------------------------------------------------------------------------
\* A callback of the proxy's channel.
ProxyChannelEvent(w) ==
    \/ ProxyRecvYield(w)
    \/ \E m \in DataMsgs \cup {NoMsg} : ProxyRecvData(w, m)
    \/ ProxyRecvEof(w)
    \/ ProxyRecvError(w)

ProxyNext(w) ==
    \/ \E m \in DataMsgs \cup {NoMsg} : GetNewWorker(w, m)
    \/ GetNewWorkerNoProxy(w)
    \/ \E m \in DataMsgs : ProxySend(w, m)
    \/ ProxyChannelEvent(w)
    \/ ProxyTimeout(w)
    \/ ProxyChildEvent(w)

WorkerNext(w) ==
    \/ \E ok \in BOOLEAN : WorkerStart(w, ok)
    \/ \E m \in DataMsgs \cup {YieldMsg, NoMsg}, ok \in BOOLEAN : WorkerEvent(w, m, ok)
    \/ \E m \in DataMsgs \cup {YieldMsg, NoMsg} : WorkerRecv(w, m)
    \/ WorkerRecvEof(w)
    \/ WorkerSignal(w)
    \/ WorkerTerminate(w)
    \/ \E m \in TornMsgs \cup {NoMsg} : WorkerCrash(w, m)

Next == MainExit \/ \E w \in Workers : ProxyNext(w) \/ WorkerNext(w)

Spec == Init /\ [][Next]_vars

\* Both event loops dispatch what stays pending, and the kernel schedules
\* the child and lets an exiting process exit.  Nothing is assumed about
\* timers, crashes or what callbacks choose to send.
Fairness ==
    \A w \in Workers :
        /\ WF_vars(ProxyChannelEvent(w))
        /\ WF_vars(ProxyChildEvent(w))
        /\ WF_vars(\E ok \in BOOLEAN : WorkerStart(w, ok))
        /\ WF_vars(WorkerSignal(w))
        /\ WF_vars(WorkerTerminate(w))

FairSpec == Spec /\ Fairness
-----------------------------------------------------------------------------
(***************************************************************************)
(* Properties.                                                             *)
(***************************************************************************)

\* Types of the state; a lane never holds more than MaxLane messages, because
\* a sender waits (EAGAIN) while the socket buffer is full.
TypeOK ==
    /\ main \in {"alive", "exited"}
    /\ proxy \in [Workers -> ProxyStates]
    /\ proxyEs \in [Workers -> BOOLEAN]
    /\ timer \in [Workers -> BOOLEAN]
    /\ proc \in [Workers -> ProcStates]
    /\ sigs \in [Workers -> SUBSET {"TERM", "USR1"}]
    /\ parentExited \in [Workers -> BOOLEAN]
    /\ workerEs \in [Workers -> BOOLEAN]
    /\ yielded \in [Workers -> {"no", "asked", "raised"}]
    /\ toWrk \in [Workers -> Seq(Messages)]
    /\ toPrx \in [Workers -> Seq(Messages)]
    /\ \A w \in Workers : Len(toWrk[w]) <= MaxLane /\ Len(toPrx[w]) <= MaxLane

\* As long as the main process has a proxy, the PID in it is that of its own
\* unreaped child: _make_worker_exit and _on_worker_proxy_timeout_event never
\* kill() a PID the kernel may have given to another process.
KillHitsOwnChild ==
    \A w \in Workers : ProxyLive(w) => proc[w] \notin {"none", "reaped"}

\* While the worker runs, its proxy keeps listening on the channel:
\* _on_worker_proxy_channel_event gives the source up only on end of file or
\* a reset, and a failing proxy_rx callback never costs it.
ListensWhileAlive ==
    \A w \in Workers : ProxyLive(w) /\ Alive(w) => proxyEs[w]

\* The lower priority of _on_worker_proxy_child_event works: when a proxy is
\* destroyed everything its worker had sent was received, unless the worker
\* died with messages of the proxy unread, which resets the socket.
ReceivedBeforeDestroy ==
    \A w \in Workers : proxy[w] = "EXITED" /\ toPrx[w] /= <<>> => toWrk[w] /= <<>>

HasYield(lane) == \E i \in 1..Len(lane) : lane[i] = YieldMsg

\* sid_wrk_ctl_yield_worker is never forgotten: until the worker leaves, its
\* YIELD is on the way to the proxy or SIGTERM is on the way back; a yield
\* after the main process is known to be gone has raised SIGTERM.
YieldNotLost ==
    \A w \in Workers : proc[w] = "running" =>
        /\ yielded[w] = "asked" /\ ProxyLive(w) => HasYield(toPrx[w]) \/ "TERM" \in sigs[w]
        /\ yielded[w] = "raised" => "TERM" \in sigs[w]

\* wrk-ctl.h: in EXITING and TIMED_OUT the exit signal has been sent to the
\* worker: SIGTERM is pending in it or it is on its way out.
ExitSignalSent ==
    \A w \in Workers :
        \/ proxy[w] = "EXITING"
        \/ proxy[w] = "TIMED_OUT" /\ ExecTimeout \in {"TERM", "KILL"}
        => "TERM" \in sigs[w] \/ ~ (proc[w] \in {"none", "forked", "running"})

\* A worker that asked to be released goes away and its proxy is destroyed,
\* unless the main process goes first.
YieldedIsReaped ==
    \A w \in Workers :
        yielded[w] = "asked" /\ ProxyLive(w) ~> proxy[w] = "EXITED" \/ main = "exited"

\* A worker that finishes after it learned of the main process' death ends.
OrphanEnds ==
    \A w \in Workers : yielded[w] = "raised" ~> ~Alive(w)
=============================================================================
