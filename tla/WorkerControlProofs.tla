------------------------ MODULE WorkerControlProofs ------------------------
(***************************************************************************)
(* The safety properties of WorkerControl for any set of workers, any      *)
(* payloads, any lane size and any exec timeout.                           *)
(***************************************************************************)
EXTENDS WorkerControl, TLAPS

\* The main process learns of a worker by forking it, and only a death of
\* the main process makes a worker believe in one.
Origins ==
    \A w \in Workers :
        /\ proc[w] = "none" => proxy[w] = "NONE" /\ toWrk[w] = <<>>
        /\ proc[w] \in {"none", "forked"} => yielded[w] = "no"
        /\ parentExited[w] \/ "USR1" \in sigs[w] => main = "exited"

\* A proxy that stopped listening has a dead worker, and what it left unread
\* was left because of a reset.
StoppedListening ==
    \A w \in Workers : proxy[w] /= "NONE" /\ ~proxyEs[w] =>
        /\ proc[w] \in {"zombie", "reaped"}
        /\ toPrx[w] /= <<>> => toWrk[w] /= <<>>

\* A destroyed proxy has no event source.
DestroyedIsDeaf == \A w \in Workers : proxy[w] = "EXITED" => ~proxyEs[w]

IndInv ==
    /\ TypeOK
    /\ Origins
    /\ KillHitsOwnChild
    /\ StoppedListening
    /\ DestroyedIsDeaf
    /\ YieldNotLost
    /\ ExitSignalSent
-----------------------------------------------------------------------------
(***************************************************************************)
(* Facts about lanes.                                                      *)
(***************************************************************************)

\* Sending within the limit keeps a lane a lane.
LEMMA PutType ==
  ASSUME NEW lane \in Seq(Messages), NEW m \in Messages \cup {NoMsg},
         Len(lane) <= MaxLane, Fits(lane, m)
  PROVE  /\ Put(lane, m) \in Seq(Messages)
         /\ Len(Put(lane, m)) <= MaxLane
<1>1. CASE m = NoMsg
  BY <1>1 DEF Put
<1>2. CASE m /= NoMsg
  <2>1. Put(lane, m) = Append(lane, m) /\ m \in Messages
    BY <1>2 DEF Put
  <2>2. Len(lane) < MaxLane
    BY <1>2 DEF Fits
  <2> HIDE DEF Messages
  <2> QED BY <2>1, <2>2, MaxLaneAssumption
<1> QED BY <1>1, <1>2

\* Receiving keeps a lane a lane.
LEMMA TailType ==
  ASSUME NEW lane \in Seq(Messages), Len(lane) <= MaxLane, lane /= <<>>
  PROVE  /\ Tail(lane) \in Seq(Messages)
         /\ Len(Tail(lane)) <= MaxLane
BY MaxLaneAssumption

\* A message that is sent does not push a YIELD out of the lane.
LEMMA PutKeepsYield ==
  ASSUME NEW lane \in Seq(Messages), NEW m \in Messages \cup {NoMsg}, HasYield(lane)
  PROVE  HasYield(Put(lane, m))
<1>1. CASE m = NoMsg
  BY <1>1 DEF Put
<1>2. CASE m /= NoMsg
  BY <1>2 DEF Put, HasYield
<1> QED BY <1>1, <1>2

\* A YIELD that is sent is in the lane.
LEMMA PutYield ==
  ASSUME NEW lane \in Seq(Messages)
  PROVE  HasYield(Put(lane, YieldMsg))
<1>1. YieldMsg /= NoMsg
  BY DEF YieldMsg, NoMsg
<1>2. YieldMsg \in Messages
  BY DEF Messages
<1>3. Put(lane, YieldMsg) = Append(lane, YieldMsg)
  BY <1>1 DEF Put
<1> QED BY <1>2, <1>3 DEF HasYield

\* Receiving another message leaves a YIELD in the lane.
LEMMA TailKeepsYield ==
  ASSUME NEW lane \in Seq(Messages), lane /= <<>>, Head(lane) /= YieldMsg, HasYield(lane)
  PROVE  HasYield(Tail(lane))
<1>1. PICK i \in 1..Len(lane) : lane[i] = YieldMsg
  BY DEF HasYield
<1>2. i /= 1
  BY <1>1
<1>3. i - 1 \in 1..Len(Tail(lane)) /\ Tail(lane)[i - 1] = YieldMsg
  BY <1>1, <1>2
<1> QED BY <1>3 DEF HasYield

-----------------------------------------------------------------------------
(***************************************************************************)
(* The inductive step: one lemma per action of the main process, of the    *)
(* worker and of the kernel.                                               *)
(***************************************************************************)

\* A fork gives a proxy that listens and a worker that has not yet yielded;
\* its channel is new, so there is room for a first message.
LEMMA GetNewWorkerInd ==
  ASSUME IndInv, NEW w \in Workers, NEW m \in DataMsgs \cup {NoMsg}, GetNewWorker(w, m)
  PROVE  IndInv'
<1> USE DEF IndInv, TypeOK, ProxyLive, Alive, proxyVars, workerVars, GetNewWorker
<1>1. TypeOK'
  <2>1. /\ m \in Messages \cup {NoMsg}
        /\ Fits(toWrk[w], m)
        /\ toWrk[w] \in Seq(Messages) /\ Len(toWrk[w]) <= MaxLane
    BY MaxLaneAssumption DEF Messages, Fits, Origins
  <2>2. Put(toWrk[w], m) \in Seq(Messages) /\ Len(Put(toWrk[w], m)) <= MaxLane
    BY <2>1, PutType
  <2> QED BY <2>2 DEF ProxyStates, ProcStates
<1>2. Origins'
  BY DEF Origins
<1>3. KillHitsOwnChild'
  BY DEF KillHitsOwnChild
<1>4. StoppedListening'
  BY DEF StoppedListening
<1>5. DestroyedIsDeaf'
  BY DEF DestroyedIsDeaf
<1>6. ExitSignalSent'
  BY DEF ExitSignalSent
<1>7. YieldNotLost'
  BY DEF YieldNotLost
<1> QED BY <1>1, <1>2, <1>3, <1>4, <1>5, <1>6, <1>7

\* A fork whose proxy cannot be created leaves a worker without a proxy.
LEMMA GetNewWorkerNoProxyInd ==
  ASSUME IndInv, NEW w \in Workers, GetNewWorkerNoProxy(w)
  PROVE  IndInv'
<1> USE DEF IndInv, TypeOK, ProxyLive, Alive, proxyVars, workerVars, GetNewWorkerNoProxy
<1>1. TypeOK'
  BY DEF ProxyStates, ProcStates
<1>2. Origins'
  BY DEF Origins
<1>3. KillHitsOwnChild'
  BY DEF KillHitsOwnChild
<1>4. StoppedListening'
  BY DEF StoppedListening
<1>5. ExitSignalSent'
  BY DEF ExitSignalSent, Origins
<1>6. (DestroyedIsDeaf /\ YieldNotLost)'
  BY DEF DestroyedIsDeaf, YieldNotLost
<1> QED BY <1>1, <1>2, <1>3, <1>4, <1>5, <1>6

\* sid_wrk_ctl_chan_send on a proxy: ASSIGNED promises no exit signal, and a
\* message enters the lane only while the worker lives, hence while the
\* proxy listens.
LEMMA ProxySendInd ==
  ASSUME IndInv, NEW w \in Workers, NEW m \in DataMsgs, ProxySend(w, m)
  PROVE  IndInv'
<1> USE DEF IndInv, TypeOK, ProxyLive, Alive, proxyVars, workerVars, ProxySend
<1>1. TypeOK'
  BY PutType DEF ProxyStates, ProcStates, Messages
<1>2. Origins'
  BY DEF Origins, KillHitsOwnChild
<1>3. KillHitsOwnChild'
  BY DEF KillHitsOwnChild
<1>4. StoppedListening'
  BY DEF StoppedListening
<1>5. DestroyedIsDeaf'
  BY DEF DestroyedIsDeaf
<1>6. ExitSignalSent'
  BY DEF ExitSignalSent
<1>7. YieldNotLost'
  BY DEF YieldNotLost
<1> QED BY <1>1, <1>2, <1>3, <1>4, <1>5, <1>6, <1>7

\* A YIELD that leaves the lane is replaced by SIGTERM (_make_worker_exit).
LEMMA ProxyRecvYieldInd ==
  ASSUME IndInv, NEW w \in Workers, ProxyRecvYield(w)
  PROVE  IndInv'
<1> USE DEF IndInv, TypeOK, ProxyLive, Alive, proxyVars, workerVars, ProxyRecvYield
<1>1. TypeOK'
  BY TailType DEF ProxyStates, ProcStates
<1>2. Origins'
  BY DEF Origins
<1>3. KillHitsOwnChild'
  BY DEF KillHitsOwnChild
<1>4. StoppedListening'
  BY DEF StoppedListening
<1>5. DestroyedIsDeaf'
  BY DEF DestroyedIsDeaf
<1>6. YieldNotLost'
  BY DEF YieldNotLost
<1>7. ExitSignalSent'
  BY DEF ExitSignalSent, KillHitsOwnChild
<1> QED BY <1>1, <1>2, <1>3, <1>4, <1>5, <1>6, <1>7

\* proxy_rx.cb.fn takes one message and keeps a YIELD behind it in the lane.
LEMMA ProxyRecvDataInd ==
  ASSUME IndInv, NEW w \in Workers, NEW m \in DataMsgs \cup {NoMsg}, ProxyRecvData(w, m)
  PROVE  IndInv'
<1> USE DEF IndInv, TypeOK, ProxyLive, Alive, proxyVars, workerVars, ProxyRecvData
<1>1. TypeOK'
  BY PutType, TailType DEF ProxyStates, ProcStates, Messages
<1>2. Origins'
  BY DEF Origins, KillHitsOwnChild
<1>3. KillHitsOwnChild'
  BY DEF KillHitsOwnChild
<1>4. StoppedListening'
  BY DEF StoppedListening
<1>5. DestroyedIsDeaf'
  BY DEF DestroyedIsDeaf
<1>6. YieldNotLost'
  BY TailKeepsYield DEF YieldNotLost
<1>7. ExitSignalSent'
  BY DEF ExitSignalSent
<1> QED BY <1>1, <1>2, <1>3, <1>4, <1>5, <1>6, <1>7

\* The source of the channel is given up at end of file, after the last message.
LEMMA ProxyRecvEofInd ==
  ASSUME IndInv, NEW w \in Workers, ProxyRecvEof(w)
  PROVE  IndInv'
<1> USE DEF IndInv, TypeOK, ProxyLive, Alive, proxyVars, workerVars, ProxyRecvEof
<1>1. TypeOK'
  BY DEF ProxyStates, ProcStates
<1>2. StoppedListening'
  BY DEF StoppedListening, KillHitsOwnChild, ProcStates
<1>3. DestroyedIsDeaf'
  BY DEF DestroyedIsDeaf
<1>4. (Origins /\ KillHitsOwnChild /\ YieldNotLost /\ ExitSignalSent)'
  BY DEF Origins, KillHitsOwnChild, YieldNotLost, ExitSignalSent
<1> QED BY <1>1, <1>2, <1>3, <1>4

\* The source of the channel is given up on a reset, with messages unread.
LEMMA ProxyRecvErrorInd ==
  ASSUME IndInv, NEW w \in Workers, ProxyRecvError(w)
  PROVE  IndInv'
<1> USE DEF IndInv, TypeOK, ProxyLive, Alive, proxyVars, workerVars, ProxyRecvError
<1>1. TypeOK'
  BY DEF ProxyStates, ProcStates
<1>2. StoppedListening'
  BY DEF StoppedListening, KillHitsOwnChild, ProcStates
<1>3. DestroyedIsDeaf'
  BY DEF DestroyedIsDeaf
<1>4. (Origins /\ KillHitsOwnChild /\ YieldNotLost /\ ExitSignalSent)'
  BY DEF Origins, KillHitsOwnChild, YieldNotLost, ExitSignalSent
<1> QED BY <1>1, <1>2, <1>3, <1>4

\* _on_worker_proxy_timeout_event signals a child that has not been reaped.
LEMMA ProxyTimeoutInd ==
  ASSUME IndInv, NEW w \in Workers, ProxyTimeout(w)
  PROVE  IndInv'
<1> USE DEF IndInv, TypeOK, ProxyLive, Alive, proxyVars, workerVars, ProxyTimeout
<1>1. TypeOK'
  BY DEF ProxyStates, ProcStates
<1>2. Origins'
  BY DEF Origins
<1>3. KillHitsOwnChild'
  BY DEF KillHitsOwnChild
<1>4. StoppedListening'
  BY DEF StoppedListening
<1>5. DestroyedIsDeaf'
  BY DEF DestroyedIsDeaf
<1>6. YieldNotLost'
  BY DEF YieldNotLost
<1>7. ExitSignalSent'
  BY DEF ExitSignalSent, KillHitsOwnChild
<1> QED BY <1>1, <1>2, <1>3, <1>4, <1>5, <1>6, <1>7

\* _on_worker_proxy_child_event runs when no event of the channel is pending,
\* so the proxy it destroys has read all it could.
LEMMA ProxyChildEventInd ==
  ASSUME IndInv, NEW w \in Workers, ProxyChildEvent(w)
  PROVE  IndInv'
<1> USE DEF IndInv, TypeOK, ProxyLive, Alive, proxyVars, workerVars, ProxyChildEvent, ProxyChannelReady
<1>1. TypeOK'
  BY DEF ProxyStates, ProcStates
<1>2. Origins'
  BY DEF Origins
<1>3. KillHitsOwnChild'
  BY DEF KillHitsOwnChild
<1>4. StoppedListening'
  BY DEF StoppedListening
<1>5. DestroyedIsDeaf'
  BY DEF DestroyedIsDeaf
<1>6. YieldNotLost'
  BY DEF YieldNotLost
<1>7. ExitSignalSent'
  BY DEF ExitSignalSent
<1> QED BY <1>1, <1>2, <1>3, <1>4, <1>5, <1>6, <1>7

\* The death of the main process takes every proxy and adds only SIGUSR1.
LEMMA MainExitInd ==
  ASSUME IndInv, MainExit
  PROVE  IndInv'
<1> USE DEF IndInv, TypeOK, ProxyLive, Alive, proxyVars, workerVars, MainExit
<1>1. TypeOK'
  BY DEF ProxyStates, ProcStates
<1>2. Origins'
  BY DEF Origins
<1>3. KillHitsOwnChild'
  BY DEF KillHitsOwnChild
<1>4. YieldNotLost'
  BY DEF YieldNotLost
<1>5. ExitSignalSent'
  BY DEF ExitSignalSent
<1>6. (StoppedListening /\ DestroyedIsDeaf)'
  BY DEF StoppedListening, DestroyedIsDeaf
<1> QED BY <1>1, <1>2, <1>3, <1>4, <1>5, <1>6

\* A worker that starts has not yielded.
LEMMA WorkerStartInd ==
  ASSUME IndInv, NEW w \in Workers, NEW ok \in BOOLEAN, WorkerStart(w, ok)
  PROVE  IndInv'
<1> USE DEF IndInv, TypeOK, ProxyLive, Alive, proxyVars, workerVars, WorkerStart
<1>1. TypeOK'
  BY DEF ProxyStates, ProcStates
<1>2. Origins'
  BY DEF Origins
<1>3. KillHitsOwnChild'
  BY DEF KillHitsOwnChild
<1>4. StoppedListening'
  BY DEF StoppedListening
<1>5. YieldNotLost'
  BY DEF YieldNotLost, Origins
<1>6. ExitSignalSent'
  BY DEF ExitSignalSent
<1>7. DestroyedIsDeaf'
  BY DEF DestroyedIsDeaf
<1> QED BY <1>1, <1>2, <1>3, <1>4, <1>5, <1>6, <1>7

\* A callback of the worker: its YIELD enters the lane or raises SIGTERM.
LEMMA WorkerEventInd ==
  ASSUME IndInv, NEW w \in Workers, NEW m \in DataMsgs \cup {YieldMsg, NoMsg}, NEW ok \in BOOLEAN,
         WorkerEvent(w, m, ok)
  PROVE  IndInv'
<1> USE DEF IndInv, TypeOK, ProxyLive, Alive, proxyVars, workerVars, WorkerEvent, Emit
<1>1. TypeOK'
  BY PutType DEF ProxyStates, ProcStates, Messages
<1>2. Origins'
  BY DEF Origins
<1>3. KillHitsOwnChild'
  BY DEF KillHitsOwnChild
<1>4. StoppedListening'
  BY DEF StoppedListening
<1>5. YieldNotLost'
  BY PutKeepsYield, PutYield DEF YieldNotLost, Messages
<1>6. ExitSignalSent'
  BY DEF ExitSignalSent
<1>7. DestroyedIsDeaf'
  BY DEF DestroyedIsDeaf
<1> QED BY <1>1, <1>2, <1>3, <1>4, <1>5, <1>6, <1>7

\* The same for worker_rx.cb.fn, which also takes a message from its lane.
LEMMA WorkerRecvInd ==
  ASSUME IndInv, NEW w \in Workers, NEW m \in DataMsgs \cup {YieldMsg, NoMsg}, WorkerRecv(w, m)
  PROVE  IndInv'
<1> USE DEF IndInv, TypeOK, ProxyLive, Alive, proxyVars, workerVars, WorkerRecv, Emit
<1>1. TypeOK'
  BY PutType, TailType DEF ProxyStates, ProcStates, Messages
<1>2. Origins'
  BY DEF Origins
<1>3. StoppedListening'
  BY DEF StoppedListening
<1>4. YieldNotLost'
  BY PutKeepsYield, PutYield DEF YieldNotLost, Messages
<1>5. ExitSignalSent'
  BY DEF ExitSignalSent
<1>6. (KillHitsOwnChild /\ DestroyedIsDeaf)'
  BY DEF KillHitsOwnChild, DestroyedIsDeaf
<1> QED BY <1>1, <1>2, <1>3, <1>4, <1>5, <1>6

\* The worker gives its own source of the channel up.
LEMMA WorkerRecvEofInd ==
  ASSUME IndInv, NEW w \in Workers, WorkerRecvEof(w)
  PROVE  IndInv'
<1> USE DEF IndInv, TypeOK, ProxyLive, Alive, proxyVars, workerVars, WorkerRecvEof
<1>1. TypeOK'
  BY DEF ProxyStates, ProcStates
<1>2. (Origins /\ KillHitsOwnChild /\ StoppedListening /\ DestroyedIsDeaf /\ YieldNotLost /\ ExitSignalSent)'
  BY DEF Origins, KillHitsOwnChild, StoppedListening, DestroyedIsDeaf, YieldNotLost, ExitSignalSent
<1> QED BY <1>1, <1>2

\* SIGUSR1 is taken before SIGTERM and tells of the death of the main process;
\* SIGTERM is consumed only by leaving the loop.
LEMMA WorkerSignalInd ==
  ASSUME IndInv, NEW w \in Workers, WorkerSignal(w)
  PROVE  IndInv'
<1> USE DEF IndInv, TypeOK, ProxyLive, Alive, proxyVars, workerVars, WorkerSignal
<1>1. PICK s \in {"TERM", "USR1"} :
             /\ sigs' = [sigs EXCEPT ![w] = @ \ {s}]
             /\ s = "TERM" => proc' = [proc EXCEPT ![w] = "leaving"]
             /\ s = "USR1" => UNCHANGED proc
  OBVIOUS
<1>2. /\ sigs' \in [Workers -> SUBSET {"TERM", "USR1"}]
      /\ \A v \in Workers : v /= w \/ s = "USR1" =>
            ("TERM" \in sigs'[v] <=> "TERM" \in sigs[v])
  <2>1. sigs' = [v \in Workers |-> IF v = w THEN sigs[v] \ {s} ELSE sigs[v]]
    BY <1>1
  <2>2. \A v \in Workers : sigs[v] \in SUBSET {"TERM", "USR1"}
    OBVIOUS
  <2> QED BY <2>1, <2>2
<1>3. TypeOK'
  BY <1>2 DEF ProxyStates, ProcStates
<1>4. Origins'
  BY DEF Origins
<1>5. KillHitsOwnChild'
  BY DEF KillHitsOwnChild
<1>6. StoppedListening'
  BY DEF StoppedListening
<1>7. YieldNotLost'
  BY <1>1, <1>2 DEF YieldNotLost
<1>8. ExitSignalSent'
  BY <1>1, <1>2 DEF ExitSignalSent
<1>9. DestroyedIsDeaf'
  BY DEF DestroyedIsDeaf
<1> QED BY <1>3, <1>4, <1>5, <1>6, <1>7, <1>8, <1>9

\* A process that exits leaves a zombie, which its proxy still owns.
LEMMA WorkerTerminateInd ==
  ASSUME IndInv, NEW w \in Workers, WorkerTerminate(w)
  PROVE  IndInv'
<1> USE DEF IndInv, TypeOK, ProxyLive, Alive, proxyVars, workerVars, WorkerTerminate
<1>1. TypeOK'
  BY DEF ProxyStates, ProcStates
<1>2. Origins'
  BY DEF Origins
<1>3. KillHitsOwnChild'
  BY DEF KillHitsOwnChild
<1>4. StoppedListening'
  BY DEF StoppedListening
<1>5. YieldNotLost'
  BY DEF YieldNotLost
<1>6. ExitSignalSent'
  BY DEF ExitSignalSent
<1>7. DestroyedIsDeaf'
  BY DEF DestroyedIsDeaf
<1> QED BY <1>1, <1>2, <1>3, <1>4, <1>5, <1>6, <1>7

\* A crash, even amid the two writes of a DATA_EXT message, happens while the
\* proxy still listens.
LEMMA WorkerCrashInd ==
  ASSUME IndInv, NEW w \in Workers, NEW m \in TornMsgs \cup {NoMsg}, WorkerCrash(w, m)
  PROVE  IndInv'
<1> USE DEF IndInv, TypeOK, ProxyLive, Alive, proxyVars, workerVars, WorkerCrash
<1>1. TypeOK'
  BY PutType DEF ProxyStates, ProcStates, Messages, Put
<1>2. Origins'
  BY DEF Origins
<1>3. KillHitsOwnChild'
  BY DEF KillHitsOwnChild
<1>4. StoppedListening'
  BY DEF StoppedListening
<1>5. YieldNotLost'
  BY DEF YieldNotLost
<1>6. ExitSignalSent'
  BY DEF ExitSignalSent
<1>7. DestroyedIsDeaf'
  BY DEF DestroyedIsDeaf
<1> QED BY <1>1, <1>2, <1>3, <1>4, <1>5, <1>6, <1>7

-----------------------------------------------------------------------------
(***************************************************************************)
(* The theorems.                                                           *)
(***************************************************************************)

\* Before the first fork there is nothing to violate.
LEMMA InitInd == Init => IndInv
<1> SUFFICES ASSUME Init PROVE IndInv
  OBVIOUS
<1> USE DEF Init
<1>1. TypeOK
  BY MaxLaneAssumption DEF TypeOK, ProxyStates, ProcStates
<1>2. Origins /\ StoppedListening /\ DestroyedIsDeaf
  BY DEF Origins, StoppedListening, DestroyedIsDeaf
<1>3. KillHitsOwnChild /\ YieldNotLost /\ ExitSignalSent
  BY DEF KillHitsOwnChild, ProxyLive, YieldNotLost, ExitSignalSent
<1> QED BY <1>1, <1>2, <1>3 DEF IndInv

\* Every callback of either event loop and every step of the kernel keeps
\* the inductive invariant.
LEMMA NextInd == IndInv /\ [Next]_vars => IndInv'
<1> SUFFICES ASSUME IndInv, [Next]_vars PROVE IndInv'
  OBVIOUS
<1>1. CASE UNCHANGED vars
  BY <1>1 DEF vars, IndInv, TypeOK, Origins, KillHitsOwnChild, StoppedListening,
              DestroyedIsDeaf, YieldNotLost, ExitSignalSent, ProxyLive
<1>2. CASE MainExit
  BY <1>2, MainExitInd
<1>3. ASSUME NEW w \in Workers, ProxyNext(w)
      PROVE  IndInv'
  <2>1. CASE \E m \in DataMsgs \cup {NoMsg} : GetNewWorker(w, m)
    BY <2>1, GetNewWorkerInd
  <2>2. CASE GetNewWorkerNoProxy(w)
    BY <2>2, GetNewWorkerNoProxyInd
  <2>3. CASE \E m \in DataMsgs : ProxySend(w, m)
    BY <2>3, ProxySendInd
  <2>4. CASE ProxyRecvYield(w)
    BY <2>4, ProxyRecvYieldInd
  <2>5. CASE \E m \in DataMsgs \cup {NoMsg} : ProxyRecvData(w, m)
    BY <2>5, ProxyRecvDataInd
  <2>6. CASE ProxyRecvEof(w)
    BY <2>6, ProxyRecvEofInd
  <2>7. CASE ProxyRecvError(w)
    BY <2>7, ProxyRecvErrorInd
  <2>8. CASE ProxyTimeout(w)
    BY <2>8, ProxyTimeoutInd
  <2>9. CASE ProxyChildEvent(w)
    BY <2>9, ProxyChildEventInd
  <2> QED
    BY <1>3, <2>1, <2>2, <2>3, <2>4, <2>5, <2>6, <2>7, <2>8, <2>9
       DEF ProxyNext, ProxyChannelEvent
<1>4. ASSUME NEW w \in Workers, WorkerNext(w)
      PROVE  IndInv'
  <2>1. CASE \E ok \in BOOLEAN : WorkerStart(w, ok)
    BY <2>1, WorkerStartInd
  <2>2. CASE \E m \in DataMsgs \cup {YieldMsg, NoMsg}, ok \in BOOLEAN : WorkerEvent(w, m, ok)
    BY <2>2, WorkerEventInd
  <2>3. CASE \E m \in DataMsgs \cup {YieldMsg, NoMsg} : WorkerRecv(w, m)
    BY <2>3, WorkerRecvInd
  <2>4. CASE WorkerRecvEof(w)
    BY <2>4, WorkerRecvEofInd
  <2>5. CASE WorkerSignal(w)
    BY <2>5, WorkerSignalInd
  <2>6. CASE WorkerTerminate(w)
    BY <2>6, WorkerTerminateInd
  <2>7. CASE \E m \in TornMsgs \cup {NoMsg} : WorkerCrash(w, m)
    BY <2>7, WorkerCrashInd
  <2> QED
    BY <1>4, <2>1, <2>2, <2>3, <2>4, <2>5, <2>6, <2>7 DEF WorkerNext
<1> QED BY <1>1, <1>2, <1>3, <1>4 DEF Next

\* The inductive invariant holds throughout every behaviour of wrk-ctl.c.
THEOREM Invariance == Spec => []IndInv
BY InitInd, NextInd, PTL DEF Spec

\* Types, and no lane beyond its socket buffer, for any number of workers.
THEOREM TypeCorrect == Spec => []TypeOK
<1>1. IndInv => TypeOK
  BY DEF IndInv
<1> QED BY <1>1, Invariance, PTL

\* kill() in _make_worker_exit and _on_worker_proxy_timeout_event only ever
\* hits a child of the main process that has not been reaped.
THEOREM KillIsSafe == Spec => []KillHitsOwnChild
<1>1. IndInv => KillHitsOwnChild
  BY DEF IndInv
<1> QED BY <1>1, Invariance, PTL

\* _on_worker_proxy_channel_event never deafens a proxy whose worker runs.
THEOREM ProxyListens == Spec => []ListensWhileAlive
<1>1. IndInv => ListensWhileAlive
  BY DEF IndInv, TypeOK, StoppedListening, ListensWhileAlive, ProxyLive, Alive
<1> QED BY <1>1, Invariance, PTL

\* The lower priority of _on_worker_proxy_child_event is enough: a destroyed
\* proxy left messages unread only if the socket was reset.
THEOREM NothingLostAtExit == Spec => []ReceivedBeforeDestroy
<1>1. IndInv => ReceivedBeforeDestroy
  BY DEF IndInv, StoppedListening, DestroyedIsDeaf, ReceivedBeforeDestroy
<1> QED BY <1>1, Invariance, PTL

\* sid_wrk_ctl_yield_worker always leads towards the worker's exit signal.
THEOREM YieldIsKept == Spec => []YieldNotLost
<1>1. IndInv => YieldNotLost
  BY DEF IndInv
<1> QED BY <1>1, Invariance, PTL

\* EXITING and TIMED_OUT mean what wrk-ctl.h says of them.
THEOREM ExitingMeansSignalled == Spec => []ExitSignalSent
<1>1. IndInv => ExitSignalSent
  BY DEF IndInv
<1> QED BY <1>1, Invariance, PTL
=============================================================================
