--------------------------- MODULE UbridgeProofs ---------------------------
(***************************************************************************)
(* The safety properties of Ubridge for any set of workers, any lane size, *)
(* any requests and any faults, and that it uses the worker control as     *)
(* WorkerControl allows.                                                   *)
(*                                                                         *)
(* The argument: command and channel move in step.  At most one message is *)
(* under way in each direction, and which one it can be follows from the   *)
(* state of the command; so whatever the worker receives is what it waits  *)
(* for.                                                                    *)
(***************************************************************************)
EXTENDS Ubridge, TLAPS

\* All the lanes there ever are.
ClientLane  == <<WC!DataExtMsg("CLIENT")>>
SelfLane    == <<WC!DataMsg("SELF")>>
AckLane     == <<WC!DataMsg("SYNC")>>
TreeLane    == <<WC!DataExtMsg("RESOURCES")>>
UdevLane    == <<WC!DataMsg("UMONITOR")>>
ExportLane  == <<WC!DataExtMsg("SYNC")>>
TornLane    == <<WC!TornMsg("SYNC")>>
AskTreeLane == <<WC!DataMsg("RESOURCES")>>
YieldLane   == <<WC!YieldMsg>>

WrkLanes == {<<>>, ClientLane, SelfLane, AckLane, TreeLane, UdevLane}
PrxLanes == {<<>>, ExportLane, TornLane, AskTreeLane, YieldLane}

\* What the main process has dealt with.
Dealt == {"empty", "stored", "failed"}

CmdStates == {"UNDEFINED", "EXE_SCHED", "EXE_WAIT", "RES_EXPBUF_WAIT_ACK", "STG_WAIT",
              "TIM_OUT", "FIN", "ERR"}

\* The states a command is scheduled from.
SchedFrom == {"INI", "EXE_WAIT", "STG_WAIT", "RES_EXPBUF_WAIT_ACK", "TIM_OUT"}

CmdType == [st : CmdStates, prev : CmdStates \cup {"INI", "RES_RESBUF_L_SEND"},
            stage : 0..2, armed : 0..2, tmo : BOOLEAN, res : BOOLEAN]

Types ==
    /\ kind \in [Workers -> AllKinds \cup {"none"}]
    /\ client \in [Workers -> {"none", "connected", "waiting", "done", "failed", "left"}]
    /\ req \in [Workers -> {"unsent", "sent", "taken"}]
    /\ reply \in [Workers -> {"none", "sent", "read"}]
    /\ conn \in [Workers -> {"none", "passed", "open", "closed"}]
    /\ cmd \in [Workers -> CmdType]
    /\ syncs \in [Workers -> [1..2 -> Dealt \cup {"none", "sent"}]]
    /\ uevent \in [Workers -> {"none", "pending", "gone"}]
    /\ proc \in [Workers -> WC!ProcStates]
    /\ toWrk \in [Workers -> WrkLanes]
    /\ toPrx \in [Workers -> PrxLanes]

\* A worker without a connection has no client, and one without a command has
\* sent nothing; a request makes one command.
Beginnings(w) ==
    /\ proc[w] = "none" => kind[w] = "none"
    /\ proc[w] = "forked" => cmd[w].st = "UNDEFINED"
    /\ kind[w] = "none" => cmd[w].st = "UNDEFINED" /\ toWrk[w] = <<>>
    /\ kind[w] \in {"none", "self"} =>
          client[w] = "none" /\ conn[w] = "none" /\ req[w] = "unsent" /\ reply[w] = "none"
    /\ client[w] = "connected" => req[w] = "unsent"
    /\ client[w] = "done" => reply[w] = "read"
    /\ conn[w] = "passed" => cmd[w].st = "UNDEFINED"
    /\ cmd[w].st /= "UNDEFINED" =>
          kind[w] \in {"scan", "resources", "plain", "self"} /\ (kind[w] /= "self" => req[w] = "taken")
    /\ cmd[w].st = "UNDEFINED" => cmd[w].armed = 0 /\ reply[w] = "none" /\ toPrx[w] = <<>>

\* What is on its way to the worker.
ToWorker(w) ==
    /\ toWrk[w] = ClientLane => conn[w] = "passed"
    /\ toWrk[w] = SelfLane => kind[w] = "self" /\ cmd[w].st = "UNDEFINED"
    /\ toWrk[w] = AckLane =>
          /\ cmd[w].st = "RES_EXPBUF_WAIT_ACK" /\ toPrx[w] = <<>>
          /\ syncs[w][cmd[w].stage] \in Dealt
    /\ toWrk[w] = TreeLane => cmd[w].st = "EXE_WAIT" /\ toPrx[w] = <<>>
    /\ toWrk[w] = UdevLane =>
          uevent[w] = "gone" /\ cmd[w].stage = 1 /\ cmd[w].st \in {"STG_WAIT", "TIM_OUT", "ERR"}

\* What is on its way to the proxy.
ToProxy(w) ==
    /\ toPrx[w] = ExportLane => cmd[w].st = "RES_EXPBUF_WAIT_ACK" /\ toWrk[w] = <<>>
    /\ toPrx[w] = TornLane => cmd[w].st = "EXE_SCHED" /\ ~WC!Alive(w)
    /\ toPrx[w] = AskTreeLane => cmd[w].st = "EXE_WAIT" /\ toWrk[w] = <<>>
    /\ toPrx[w] = YieldLane => cmd[w].st \in {"FIN", "ERR"}

\* The command.
Machine(w) ==
    LET c == cmd[w] IN
    /\ c.tmo <=> c.st = "STG_WAIT"
    /\ c.st /= "UNDEFINED" => c.stage \in {1, 2}
    /\ c.stage = 2 => kind[w] = "scan" /\ uevent[w] = "gone"
    /\ c.st = "EXE_SCHED" =>
          /\ c.prev \in SchedFrom
          /\ toWrk[w] = <<>>
          /\ c.armed = IF c.prev = "TIM_OUT" THEN 2 ELSE 1
          /\ c.stage = 1 \/ c.prev \in {"STG_WAIT", "RES_EXPBUF_WAIT_ACK"}
          /\ c.prev = "STG_WAIT" => c.stage = 2
          /\ c.prev = "EXE_WAIT" => kind[w] = "resources"
          /\ c.prev = "RES_EXPBUF_WAIT_ACK" => kind[w] = "scan" /\ syncs[w][c.stage] \in Dealt
          /\ c.prev = "TIM_OUT" => uevent[w] = "gone"
    /\ c.st = "EXE_WAIT" => kind[w] = "resources" /\ c.armed = 0
    /\ c.st = "RES_EXPBUF_WAIT_ACK" => kind[w] = "scan" /\ c.armed = 0
    /\ c.st = "STG_WAIT" => c.stage = 1 /\ kind[w] = "scan" /\ c.armed = 0
    /\ c.st = "TIM_OUT" => c.stage = 1 /\ kind[w] = "scan" /\ c.armed = 1
    /\ c.st = "FIN" =>
          /\ c.armed = 0 /\ ~c.res
          /\ kind[w] = "scan" => c.stage = 2 /\ syncs[w][2] \in Dealt
    /\ c.st = "ERR" => proc[w] /= "running"

\* The response buffer, the reply and what udev makes of it.
Replies(w) ==
    LET c == cmd[w] IN
    /\ reply[w] /= "none" => ~c.res /\ (kind[w] = "scan" => syncs[w][1] \in Dealt)
    /\ c.st /= "UNDEFINED" /\ ~c.res /\ kind[w] /= "self" => reply[w] /= "none"
    /\ c.st /= "UNDEFINED" /\ kind[w] = "scan" /\ c.stage = 1 /\ ~c.res =>
          c.st \in {"STG_WAIT", "TIM_OUT", "ERR"} \/ (c.st = "EXE_SCHED" /\ c.prev = "TIM_OUT")
    /\ c.stage = 2 \/ c.st \in {"STG_WAIT", "TIM_OUT"} \/ (c.st = "EXE_SCHED" /\ c.prev = "TIM_OUT")
          => ~c.res
    /\ uevent[w] /= "none" => kind[w] = "scan" /\ client[w] = "done"
    /\ uevent[w] = "pending" =>
          c.stage = 1 /\ c.st \in {"STG_WAIT", "TIM_OUT", "ERR"} /\ toWrk[w] = <<>>

Sound(w) == Beginnings(w) /\ ToWorker(w) /\ ToProxy(w) /\ Machine(w) /\ Replies(w)

IndInv == Types /\ \A w \in Workers : Sound(w)
-----------------------------------------------------------------------------
(***************************************************************************)
(* Facts about the lanes.                                                  *)
(***************************************************************************)

\* A lane that is not empty holds one message, and the message tells which
\* lane it is.
LEMMA WrkLaneFacts ==
  /\ \A l \in WrkLanes : l /= <<>> => Tail(l) = <<>>
  /\ \A l \in WrkLanes : Len(l) <= 1
  /\ \A l \in WrkLanes \ {<<>>} :
        /\ Head(l) = WC!DataExtMsg("CLIENT") => l = ClientLane
        /\ Head(l) = WC!DataMsg("SELF") => l = SelfLane
        /\ Head(l).data \in {"SYNC", "UMONITOR", "RESOURCES"} => l \in {AckLane, TreeLane, UdevLane}
        /\ Len(l) = 1 /\ l[1].cmd /= "YIELD"
        /\ l[1].data = "SYNC" => l = AckLane
        /\ l[1].data = "RESOURCES" => l = TreeLane
        /\ l[1].data = "UMONITOR" => l = UdevLane
  /\ \A l \in {ClientLane, SelfLane, AckLane, TreeLane, UdevLane} : l /= <<>>
  /\ \A l \in {AckLane, TreeLane, UdevLane} : l /= ClientLane /\ l /= SelfLane
  /\ AckLane /= TreeLane /\ AckLane /= UdevLane /\ TreeLane /= UdevLane /\ ClientLane /= SelfLane
BY DEF WrkLanes, ClientLane, SelfLane, AckLane, TreeLane, UdevLane, WC!DataMsg, WC!DataExtMsg

\* The same for the lanes to the proxy.
LEMMA PrxLaneFacts ==
  /\ \A l \in PrxLanes : l /= <<>> => Tail(l) = <<>>
  /\ \A l \in PrxLanes : Len(l) <= 1
  /\ \A l \in PrxLanes \ {<<>>} :
        /\ Head(l).cmd = "DATA_EXT" => l \in {ExportLane, TornLane}
        /\ Head(l) = WC!DataMsg("RESOURCES") => l = AskTreeLane
        /\ Head(l) = WC!YieldMsg => l = YieldLane
  /\ \A l \in {ExportLane, TornLane, AskTreeLane, YieldLane} : l /= <<>>
  /\ ExportLane /= TornLane /\ ExportLane /= AskTreeLane /\ ExportLane /= YieldLane
  /\ TornLane /= AskTreeLane /\ TornLane /= YieldLane /\ AskTreeLane /= YieldLane
BY DEF PrxLanes, ExportLane, TornLane, AskTreeLane, YieldLane,
       WC!DataMsg, WC!DataExtMsg, WC!TornMsg, WC!YieldMsg

\* The messages differ from no message.
LEMMA MsgFacts ==
  /\ WC!YieldMsg /= WC!NoMsg
  /\ \A p : WC!DataMsg(p) /= WC!NoMsg /\ WC!DataExtMsg(p) /= WC!NoMsg /\ WC!TornMsg(p) /= WC!NoMsg
  /\ \A p : WC!DataMsg(p) /= WC!YieldMsg /\ WC!DataExtMsg(p) /= WC!YieldMsg
BY DEF WC!DataMsg, WC!DataExtMsg, WC!TornMsg, WC!YieldMsg, WC!NoMsg

\* What a message makes of an empty lane.
LEMMA PutFacts ==
  /\ WC!Put(<<>>, WC!DataExtMsg("CLIENT")) = ClientLane
  /\ WC!Put(<<>>, WC!DataMsg("SELF")) = SelfLane
  /\ WC!Put(<<>>, WC!DataMsg("SYNC")) = AckLane
  /\ WC!Put(<<>>, WC!DataExtMsg("RESOURCES")) = TreeLane
  /\ WC!Put(<<>>, WC!DataMsg("UMONITOR")) = UdevLane
  /\ WC!Put(<<>>, WC!DataExtMsg("SYNC")) = ExportLane
  /\ WC!Put(<<>>, WC!TornMsg("SYNC")) = TornLane
  /\ WC!Put(<<>>, WC!DataMsg("RESOURCES")) = AskTreeLane
  /\ WC!Put(<<>>, WC!YieldMsg) = YieldLane
  /\ \A l : WC!Put(l, WC!NoMsg) = l
<1>1. ASSUME NEW m, m /= WC!NoMsg PROVE WC!Put(<<>>, m) = <<m>>
  BY <1>1 DEF WC!Put
<1>2. \A l : WC!Put(l, WC!NoMsg) = l
  BY DEF WC!Put
<1> QED
  BY <1>1, <1>2, MsgFacts DEF ClientLane, SelfLane, AckLane, TreeLane, UdevLane, ExportLane,
                              TornLane, AskTreeLane, YieldLane

-----------------------------------------------------------------------------
\* A worker of which at most the process moves on stays sound.
LEMMA Frame ==
  ASSUME NEW v \in Workers, Sound(v),
         proc'[v] = "none" => proc[v] = "none",
         proc'[v] = "forked" => proc[v] \in {"none", "forked"},
         proc'[v] = "running" => proc[v] \in {"forked", "running"},
         WC!Alive(v)' => WC!Alive(v) \/ proc[v] = "none",
         kind'[v] = kind[v], client'[v] = client[v], req'[v] = req[v], reply'[v] = reply[v],
         conn'[v] = conn[v], cmd'[v] = cmd[v], syncs'[v] = syncs[v], uevent'[v] = uevent[v],
         toWrk'[v] = toWrk[v], toPrx'[v] = toPrx[v]
  PROVE  Sound(v)'
<1>1. Beginnings(v)'
  BY DEF Sound, Beginnings
<1>2. ToWorker(v)'
  BY DEF Sound, ToWorker
<1>3. ToProxy(v)'
  BY DEF Sound, ToProxy, Beginnings
<1>4. Machine(v)'
  BY DEF Sound, Machine, Beginnings
<1>5. Replies(v)'
  BY DEF Sound, Replies
<1> QED BY <1>1, <1>2, <1>3, <1>4, <1>5 DEF Sound

\* The types of one worker's state.
TypedAt(w) ==
    /\ kind[w] \in AllKinds \cup {"none"}
    /\ client[w] \in {"none", "connected", "waiting", "done", "failed", "left"}
    /\ req[w] \in {"unsent", "sent", "taken"}
    /\ reply[w] \in {"none", "sent", "read"}
    /\ conn[w] \in {"none", "passed", "open", "closed"}
    /\ cmd[w] \in CmdType
    /\ syncs[w] \in [1..2 -> Dealt \cup {"none", "sent"}]
    /\ uevent[w] \in {"none", "pending", "gone"}
    /\ proc[w] \in WC!ProcStates
    /\ toWrk[w] \in WrkLanes
    /\ toPrx[w] \in PrxLanes

\* The step changes the state of no other worker than w.
Local(w) ==
    /\ kind' = [kind EXCEPT ![w] = kind'[w]] /\ client' = [client EXCEPT ![w] = client'[w]]
    /\ req' = [req EXCEPT ![w] = req'[w]] /\ reply' = [reply EXCEPT ![w] = reply'[w]]
    /\ conn' = [conn EXCEPT ![w] = conn'[w]] /\ cmd' = [cmd EXCEPT ![w] = cmd'[w]]
    /\ syncs' = [syncs EXCEPT ![w] = syncs'[w]] /\ uevent' = [uevent EXCEPT ![w] = uevent'[w]]
    /\ proc' = [proc EXCEPT ![w] = proc'[w]]
    /\ toWrk' = [toWrk EXCEPT ![w] = toWrk'[w]] /\ toPrx' = [toPrx EXCEPT ![w] = toPrx'[w]]

\* A function whose value is replaced at one point keeps its type.
LEMMA Replaced ==
  ASSUME NEW S, NEW T, NEW f \in [S -> T], NEW x \in S, NEW g,
         g = [f EXCEPT ![x] = g[x]], g[x] \in T
  PROVE  g \in [S -> T]
OBVIOUS

\* It is enough to look at the worker a step is about.
LEMMA LocalStep ==
  ASSUME IndInv, NEW w \in Workers, Local(w), TypedAt(w)', Sound(w)'
  PROVE  IndInv'
<1>1. Types'
  <2>1. Types
    BY DEF IndInv
  <2>2. kind' \in [Workers -> AllKinds \cup {"none"}]
    <3>1. kind \in [Workers -> AllKinds \cup {"none"}]
      BY <2>1 DEF Types
    <3>2. kind' = [kind EXCEPT ![w] = kind'[w]] /\ kind'[w] \in AllKinds \cup {"none"}
      BY DEF Local, TypedAt
    <3> QED BY <3>1, <3>2, Replaced
  <2>3. client' \in [Workers -> {"none", "connected", "waiting", "done", "failed", "left"}]
    <3>1. client \in [Workers -> {"none", "connected", "waiting", "done", "failed", "left"}]
      BY <2>1 DEF Types
    <3>2. client' = [client EXCEPT ![w] = client'[w]] /\ client'[w] \in {"none", "connected", "waiting", "done", "failed", "left"}
      BY DEF Local, TypedAt
    <3> QED BY <3>1, <3>2, Replaced
  <2>4. req' \in [Workers -> {"unsent", "sent", "taken"}]
    <3>1. req \in [Workers -> {"unsent", "sent", "taken"}]
      BY <2>1 DEF Types
    <3>2. req' = [req EXCEPT ![w] = req'[w]] /\ req'[w] \in {"unsent", "sent", "taken"}
      BY DEF Local, TypedAt
    <3> QED BY <3>1, <3>2, Replaced
  <2>5. reply' \in [Workers -> {"none", "sent", "read"}]
    <3>1. reply \in [Workers -> {"none", "sent", "read"}]
      BY <2>1 DEF Types
    <3>2. reply' = [reply EXCEPT ![w] = reply'[w]] /\ reply'[w] \in {"none", "sent", "read"}
      BY DEF Local, TypedAt
    <3> QED BY <3>1, <3>2, Replaced
  <2>6. conn' \in [Workers -> {"none", "passed", "open", "closed"}]
    <3>1. conn \in [Workers -> {"none", "passed", "open", "closed"}]
      BY <2>1 DEF Types
    <3>2. conn' = [conn EXCEPT ![w] = conn'[w]] /\ conn'[w] \in {"none", "passed", "open", "closed"}
      BY DEF Local, TypedAt
    <3> QED BY <3>1, <3>2, Replaced
  <2>7. cmd' \in [Workers -> CmdType]
    <3>1. cmd \in [Workers -> CmdType]
      BY <2>1 DEF Types
    <3>2. cmd' = [cmd EXCEPT ![w] = cmd'[w]] /\ cmd'[w] \in CmdType
      BY DEF Local, TypedAt
    <3> QED BY <3>1, <3>2, Replaced
  <2>8. syncs' \in [Workers -> [1..2 -> Dealt \cup {"none", "sent"}]]
    <3>1. syncs \in [Workers -> [1..2 -> Dealt \cup {"none", "sent"}]]
      BY <2>1 DEF Types
    <3>2. syncs' = [syncs EXCEPT ![w] = syncs'[w]] /\ syncs'[w] \in [1..2 -> Dealt \cup {"none", "sent"}]
      BY DEF Local, TypedAt
    <3> QED BY <3>1, <3>2, Replaced
  <2>9. uevent' \in [Workers -> {"none", "pending", "gone"}]
    <3>1. uevent \in [Workers -> {"none", "pending", "gone"}]
      BY <2>1 DEF Types
    <3>2. uevent' = [uevent EXCEPT ![w] = uevent'[w]] /\ uevent'[w] \in {"none", "pending", "gone"}
      BY DEF Local, TypedAt
    <3> QED BY <3>1, <3>2, Replaced
  <2>10. proc' \in [Workers -> WC!ProcStates]
    <3>1. proc \in [Workers -> WC!ProcStates]
      BY <2>1 DEF Types
    <3>2. proc' = [proc EXCEPT ![w] = proc'[w]] /\ proc'[w] \in WC!ProcStates
      BY DEF Local, TypedAt
    <3> QED BY <3>1, <3>2, Replaced
  <2>11. toWrk' \in [Workers -> WrkLanes]
    <3>1. toWrk \in [Workers -> WrkLanes]
      BY <2>1 DEF Types
    <3>2. toWrk' = [toWrk EXCEPT ![w] = toWrk'[w]] /\ toWrk'[w] \in WrkLanes
      BY DEF Local, TypedAt
    <3> QED BY <3>1, <3>2, Replaced
  <2>12. toPrx' \in [Workers -> PrxLanes]
    <3>1. toPrx \in [Workers -> PrxLanes]
      BY <2>1 DEF Types
    <3>2. toPrx' = [toPrx EXCEPT ![w] = toPrx'[w]] /\ toPrx'[w] \in PrxLanes
      BY DEF Local, TypedAt
    <3> QED BY <3>1, <3>2, Replaced
  <2> QED BY <2>2, <2>3, <2>4, <2>5, <2>6, <2>7, <2>8, <2>9, <2>10, <2>11, <2>12 DEF Types
<1>2. ASSUME NEW v \in Workers, v /= w PROVE Sound(v)'
  <2>1. /\ proc'[v] = proc[v] /\ kind'[v] = kind[v] /\ client'[v] = client[v]
        /\ req'[v] = req[v] /\ reply'[v] = reply[v] /\ conn'[v] = conn[v] /\ cmd'[v] = cmd[v]
        /\ syncs'[v] = syncs[v] /\ uevent'[v] = uevent[v]
        /\ toWrk'[v] = toWrk[v] /\ toPrx'[v] = toPrx[v]
    BY <1>2 DEF IndInv, Types, Local
  <2>2. Sound(v) /\ (WC!Alive(v)' => WC!Alive(v))
    BY <2>1 DEF IndInv, WC!Alive
  <2>3. /\ proc'[v] = "none" => proc[v] = "none"
        /\ proc'[v] = "forked" => proc[v] \in {"none", "forked"}
        /\ proc'[v] = "running" => proc[v] \in {"forked", "running"}
    BY <2>1
  <2> QED BY <2>1, <2>2, <2>3, Frame
<1> QED BY <1>1, <1>2 DEF IndInv

\* What the invariant says of one worker.
LEMMA Typing ==
  ASSUME IndInv, NEW w \in Workers
  PROVE  TypedAt(w) /\ Sound(w)
BY DEF IndInv, Types, TypedAt

\* What a step leaves alone at worker w.
ClientKept(w) ==
    kind'[w] = kind[w] /\ client'[w] = client[w] /\ req'[w] = req[w] /\ reply'[w] = reply[w]

BridgeVars == <<cliVars, conn, cmd, syncs, uevent>>

\* A step that at most moves the process of a worker on.
LEMMA OnlyProc ==
  ASSUME IndInv, NEW w \in Workers, UNCHANGED <<BridgeVars, toWrk, toPrx>>,
         proc' = [proc EXCEPT ![w] = proc'[w]], proc'[w] \in WC!ProcStates,
         \/ proc'[w] = proc[w]
         \/ proc[w] = "none" /\ proc'[w] = "forked"
         \/ proc[w] = "forked" /\ proc'[w] = "running"
         \/ proc[w] /= "none" /\ proc'[w] \in {"leaving", "zombie", "reaped"}
               /\ (proc'[w] = "leaving" => WC!Alive(w))
  PROVE  IndInv'
<1>1. TypedAt(w) /\ Sound(w) /\ Types
  BY Typing DEF IndInv
<1>2. Local(w)
  BY <1>1 DEF Types, Local, BridgeVars, cliVars
<1>3. TypedAt(w)'
  BY <1>1 DEF TypedAt, BridgeVars, cliVars
<1>4. Sound(w)'
  <2>1. /\ proc'[w] = "none" => proc[w] = "none"
        /\ proc'[w] = "forked" => proc[w] \in {"none", "forked"}
        /\ proc'[w] = "running" => proc[w] \in {"forked", "running"}
        /\ WC!Alive(w)' => WC!Alive(w) \/ proc[w] = "none"
    BY DEF WC!Alive
  <2> QED BY <1>1, <2>1, Frame DEF BridgeVars, cliVars
<1> QED BY <1>2, <1>3, <1>4, LocalStep

-----------------------------------------------------------------------------
(***************************************************************************)
(* What the actions of WorkerControl do to processes and lanes.            *)
(***************************************************************************)

\* A callback of the worker that sends m.
LEMMA WorkerEventEffect ==
  ASSUME Types, NEW w \in Workers, NEW m, NEW ok \in BOOLEAN, WC!WorkerEvent(w, m, ok)
  PROVE  /\ proc[w] = "running" /\ proc' = [proc EXCEPT ![w] = IF ok THEN "running" ELSE "leaving"]
         /\ toWrk' = toWrk
         /\ toPrx' = [toPrx EXCEPT ![w] = toPrx'[w]]
         /\ toPrx'[w] \in {toPrx[w], WC!Put(toPrx[w], m)}
BY DEF Types, WC!WorkerEvent, WC!Emit

\* A callback of the worker's channel that sends nothing.
LEMMA WorkerRecvEffect ==
  ASSUME Types, NEW w \in Workers, WC!WorkerRecv(w, WC!NoMsg)
  PROVE  /\ proc[w] = "running" /\ proc' = proc
         /\ toWrk[w] /= <<>> /\ toWrk' = [toWrk EXCEPT ![w] = <<>>]
         /\ toPrx' = toPrx
<1>1. toPrx' = [toPrx EXCEPT ![w] = toPrx[w]]
  BY PutFacts DEF Types, WC!WorkerRecv, WC!Emit
<1>2. toWrk[w] \in WrkLanes /\ toWrk[w] /= <<>> /\ toWrk' = [toWrk EXCEPT ![w] = Tail(toWrk[w])]
  BY DEF Types, WC!WorkerRecv
<1>3. Tail(toWrk[w]) = <<>>
  BY <1>2, WrkLaneFacts
<1> QED BY <1>1, <1>2, <1>3 DEF Types, WC!WorkerRecv

\* A callback of the proxy's channel that sends m.
LEMMA ProxyRecvEffect ==
  ASSUME Types, NEW w \in Workers, NEW m, WC!ProxyRecvData(w, m)
  PROVE  /\ proc' = proc
         /\ toPrx[w] /= <<>> /\ toPrx' = [toPrx EXCEPT ![w] = <<>>]
         /\ toWrk' = [toWrk EXCEPT ![w] = IF WC!Alive(w) THEN WC!Put(toWrk[w], m) ELSE toWrk[w]]
<1>1. toPrx[w] \in PrxLanes /\ toPrx[w] /= <<>> /\ toPrx' = [toPrx EXCEPT ![w] = Tail(toPrx[w])]
  BY DEF Types, WC!ProxyRecvData
<1>2. Tail(toPrx[w]) = <<>>
  BY <1>1, PrxLaneFacts
<1> QED BY <1>1, <1>2 DEF Types, WC!ProxyRecvData, WC!workerVars

\* A fork with a first message.
LEMMA GetNewWorkerEffect ==
  ASSUME Types, NEW w \in Workers, NEW m, WC!GetNewWorker(w, m)
  PROVE  /\ proc[w] = "none" /\ proc' = [proc EXCEPT ![w] = "forked"]
         /\ toWrk' = [toWrk EXCEPT ![w] = WC!Put(toWrk[w], m)] /\ toPrx' = toPrx
BY DEF Types, WC!GetNewWorker

-----------------------------------------------------------------------------
(***************************************************************************)
(* The inductive step, one lemma per callback: types, and the soundness of *)
(* the worker it is about.                                                 *)
(***************************************************************************)

\* A fork for a connection, with the CLIENT message.
LEMMA InterfaceEventInd ==
  ASSUME IndInv, NEW w \in Workers, InterfaceEvent(w)
  PROVE  IndInv'
<1> USE WrkLaneFacts
<1>1. TypedAt(w) /\ Sound(w) /\ Types
  BY Typing DEF IndInv
<1>2. /\ proc[w] = "none" /\ proc' = [proc EXCEPT ![w] = "forked"]
      /\ toWrk' = [toWrk EXCEPT ![w] = WC!Put(toWrk[w], WC!DataExtMsg("CLIENT"))]
      /\ toPrx' = toPrx
  BY <1>1, GetNewWorkerEffect DEF InterfaceEvent
<1>3. kind[w] = "none" /\ toWrk[w] = <<>> /\ cmd[w].st = "UNDEFINED"
  BY <1>1, <1>2 DEF Sound, Beginnings
<1>4. PICK k \in Kinds \ {"self"} : kind' = [kind EXCEPT ![w] = k]
  BY DEF InterfaceEvent
<1>5. k \in AllKinds \ {"self"}
  BY KindsAssumption
<1>6. /\ kind'[w] = k /\ proc'[w] = "forked" /\ toWrk'[w] = ClientLane /\ toPrx'[w] = toPrx[w]
      /\ client'[w] = "connected" /\ conn'[w] = "passed" /\ cmd'[w] = cmd[w] /\ req'[w] = req[w]
      /\ reply'[w] = reply[w] /\ syncs'[w] = syncs[w] /\ uevent'[w] = uevent[w]
      /\ Local(w)
  BY <1>1, <1>2, <1>3, <1>4, PutFacts DEF InterfaceEvent, Types, Local
<1>7. TypedAt(w)'
  BY <1>1, <1>5, <1>6 DEF TypedAt, WrkLanes, WC!ProcStates
<1>8. Beginnings(w)' /\ ToWorker(w)' /\ ToProxy(w)'
  BY <1>1, <1>3, <1>5, <1>6 DEF Sound, Beginnings, ToWorker, ToProxy, AllKinds
<1>9. Machine(w)' /\ Replies(w)'
  BY <1>1, <1>3, <1>6 DEF Sound, Beginnings, Machine, Replies
<1> QED BY <1>6, <1>7, <1>8, <1>9, LocalStep DEF Sound

\* _worker_recv_system_cmd_*: the command waits for what arrives.
LEMMA RecvWakeupInd ==
  ASSUME IndInv, NEW w \in Workers, RecvWakeup(w)
  PROVE  IndInv'
<1> USE WrkLaneFacts
<1>1. TypedAt(w) /\ Sound(w) /\ Types
  BY Typing DEF IndInv
<1>2. /\ proc[w] = "running" /\ proc' = proc
      /\ toWrk[w] /= <<>> /\ toWrk' = [toWrk EXCEPT ![w] = <<>>]
      /\ toPrx' = toPrx
  BY <1>1, WorkerRecvEffect DEF RecvWakeup
<1>3. toWrk[w] \in {AckLane, TreeLane, UdevLane}
  BY <1>1, <1>2 DEF RecvWakeup, TypedAt
<1>4. cmd[w].st \in {"RES_EXPBUF_WAIT_ACK", "EXE_WAIT", "STG_WAIT", "TIM_OUT"} /\ cmd[w] \in CmdType
  BY <1>1, <1>2, <1>3 DEF TypedAt, Sound, ToWorker, Machine
<1> DEFINE c == [st |-> "EXE_SCHED", prev |-> cmd[w].st,
                 stage |-> IF cmd[w].st = "STG_WAIT" THEN cmd[w].stage + 1 ELSE cmd[w].stage,
                 armed |-> cmd[w].armed + 1, tmo |-> FALSE, res |-> cmd[w].res]
<1>5. /\ cmd'[w] = c /\ toWrk'[w] = <<>> /\ toPrx'[w] = toPrx[w] /\ proc'[w] = "running"
      /\ kind'[w] = kind[w] /\ client'[w] = client[w] /\ conn'[w] = conn[w] /\ req'[w] = req[w]
      /\ reply'[w] = reply[w] /\ syncs'[w] = syncs[w] /\ uevent'[w] = uevent[w]
  <2>1. ChangeState(cmd[w], "EXE_SCHED") = c
    BY <1>4 DEF CmdType, ChangeState
  <2>2. cmd'[w] = ChangeState(cmd[w], "EXE_SCHED")
    BY <1>1, <1>4 DEF RecvWakeup, Types
  <2>3. toWrk'[w] = <<>> /\ toPrx'[w] = toPrx[w] /\ proc'[w] = "running"
    BY <1>1, <1>2 DEF Types
  <2> QED BY <2>1, <2>2, <2>3 DEF RecvWakeup, cliVars
<1>6. Local(w)
  BY <1>1, <1>2, <1>5 DEF RecvWakeup, Types, cliVars, Local
<1>7. TypedAt(w)'
  <2>1. c \in CmdType
    BY <1>1, <1>4 DEF CmdType, CmdStates, Sound, Machine
  <2> QED BY <1>1, <1>2, <1>5, <2>1 DEF TypedAt, WrkLanes
<1>8. Beginnings(w)' /\ ToWorker(w)' /\ ToProxy(w)'
  BY <1>1, <1>3, <1>4, <1>5, PrxLaneFacts DEF Sound, Beginnings, ToWorker, ToProxy, Machine, WC!Alive
<1>9. Machine(w)'
  BY <1>1, <1>3, <1>4, <1>5 DEF Sound, Beginnings, ToWorker, Machine, CmdType, SchedFrom
<1>10. Replies(w)'
  BY <1>1, <1>3, <1>4, <1>5 DEF Sound, Beginnings, ToWorker, Machine, CmdType, Replies
<1> QED BY <1>6, <1>7, <1>8, <1>9, <1>10, LocalStep DEF Sound

\* A fork that fails on the way leaves a worker without messages, or none.
LEMMA InterfaceEventFailsInd ==
  ASSUME IndInv, NEW w \in Workers, InterfaceEventFails(w)
  PROVE  IndInv'
<1>1. Types /\ TypedAt(w)
  BY Typing DEF IndInv
<1>2. UNCHANGED BridgeVars
  BY DEF InterfaceEventFails, BridgeVars
<1>3. CASE UNCHANGED wcVars
  BY <1>1, <1>2, <1>3, OnlyProc DEF wcVars, Types, TypedAt
<1>4. CASE WC!GetNewWorkerNoProxy(w)
  <2>1. proc[w] = "none" /\ proc' = [proc EXCEPT ![w] = "forked"] /\ UNCHANGED <<toWrk, toPrx>>
    BY <1>4 DEF WC!GetNewWorkerNoProxy
  <2>2. proc'[w] = "forked"
    BY <1>1, <2>1 DEF Types
  <2> QED BY <1>2, <2>1, <2>2, OnlyProc DEF WC!ProcStates
<1>5. CASE WC!GetNewWorker(w, WC!NoMsg)
  <2>1. /\ proc[w] = "none" /\ proc' = [proc EXCEPT ![w] = "forked"] /\ toPrx' = toPrx
        /\ toWrk' = [toWrk EXCEPT ![w] = toWrk[w]]
    BY <1>1, <1>5, GetNewWorkerEffect, PutFacts
  <2>2. proc'[w] = "forked" /\ toWrk' = toWrk
    BY <1>1, <2>1 DEF Types
  <2> QED BY <1>2, <2>1, <2>2, OnlyProc DEF WC!ProcStates
<1> QED BY <1>3, <1>4, <1>5 DEF InterfaceEventFails

\* A fork for the dbdump of the main process.
LEMMA CmdDbdumpInd ==
  ASSUME IndInv, NEW w \in Workers, CmdDbdump(w)
  PROVE  IndInv'
<1> USE WrkLaneFacts
<1>1. TypedAt(w) /\ Sound(w) /\ Types
  BY Typing DEF IndInv
<1>2. /\ proc[w] = "none" /\ proc' = [proc EXCEPT ![w] = "forked"]
      /\ toWrk' = [toWrk EXCEPT ![w] = WC!Put(toWrk[w], WC!DataMsg("SELF"))]
      /\ toPrx' = toPrx
  BY <1>1, GetNewWorkerEffect DEF CmdDbdump
<1>3. kind[w] = "none" /\ toWrk[w] = <<>> /\ cmd[w].st = "UNDEFINED"
  BY <1>1, <1>2 DEF Sound, Beginnings
<1>4. /\ kind'[w] = "self" /\ proc'[w] = "forked" /\ toWrk'[w] = SelfLane /\ toPrx'[w] = toPrx[w]
      /\ client'[w] = client[w] /\ conn'[w] = conn[w] /\ cmd'[w] = cmd[w] /\ req'[w] = req[w]
      /\ reply'[w] = reply[w] /\ syncs'[w] = syncs[w] /\ uevent'[w] = uevent[w]
      /\ Local(w)
  BY <1>1, <1>2, <1>3, PutFacts DEF CmdDbdump, Types, Local
<1>5. TypedAt(w)'
  BY <1>1, <1>4 DEF TypedAt, WrkLanes, WC!ProcStates, AllKinds
<1>6. Beginnings(w)' /\ ToWorker(w)' /\ ToProxy(w)'
  BY <1>1, <1>3, <1>4 DEF Sound, Beginnings, ToWorker, ToProxy
<1>7. Machine(w)' /\ Replies(w)'
  BY <1>1, <1>3, <1>4 DEF Sound, Beginnings, Machine, Replies
<1> QED BY <1>4, <1>5, <1>6, <1>7, LocalStep DEF Sound

\* The wakeup for a scan whose client is done: the command waits or gave up.
LEMMA UmonitorEventInd ==
  ASSUME IndInv, NEW w \in Workers, UmonitorEvent(w)
  PROVE  IndInv'
<1> USE WrkLaneFacts
<1>1. TypedAt(w) /\ Sound(w) /\ Types
  BY Typing DEF IndInv
<1>2. /\ cmd[w].stage = 1 /\ cmd[w].st \in {"STG_WAIT", "TIM_OUT", "ERR"} /\ toWrk[w] = <<>>
      /\ kind[w] = "scan" /\ client[w] = "done" /\ uevent[w] = "pending"
  BY <1>1 DEF UmonitorEvent, Sound, Replies
<1>3. /\ proc' = proc /\ toPrx' = toPrx
      /\ toWrk' = [toWrk EXCEPT ![w] = toWrk'[w]] /\ toWrk'[w] \in {<<>>, UdevLane}
  BY <1>1, <1>2, PutFacts DEF UmonitorEvent, WC!ProxySend, WC!workerVars, wcVars, Types
<1>4. /\ uevent'[w] = "gone" /\ ClientKept(w) /\ cmd'[w] = cmd[w] /\ conn'[w] = conn[w]
      /\ syncs'[w] = syncs[w] /\ Local(w)
  BY <1>1, <1>3 DEF UmonitorEvent, Types, cliVars, ClientKept, Local
<1> USE DEF ClientKept
<1>5. TypedAt(w)'
  BY <1>1, <1>3, <1>4 DEF TypedAt, WrkLanes
<1>6. Beginnings(w)' /\ ToWorker(w)'
  BY <1>1, <1>2, <1>3, <1>4 DEF Sound, Beginnings, ToWorker
<1>7. ToProxy(w)'
  BY <1>1, <1>2, <1>3, <1>4 DEF Sound, ToProxy, WC!Alive
<1>8. Machine(w)' /\ Replies(w)'
  BY <1>1, <1>2, <1>3, <1>4 DEF Sound, Machine, Replies
<1> QED BY <1>4, <1>5, <1>6, <1>7, <1>8, LocalStep DEF Sound

\* The export is dealt with and, if the worker lives, acked.
LEMMA ProxyRecvSyncInd ==
  ASSUME IndInv, NEW w \in Workers, ProxyRecvSync(w)
  PROVE  IndInv'
<1> USE WrkLaneFacts, PrxLaneFacts
<1>1. TypedAt(w) /\ Sound(w) /\ Types
  BY Typing DEF IndInv
<1>2. toPrx[w] \in {ExportLane, TornLane}
  BY <1>1 DEF ProxyRecvSync, TypedAt
<1>3. /\ proc' = proc /\ toPrx' = [toPrx EXCEPT ![w] = <<>>]
      /\ toWrk' = [toWrk EXCEPT ![w] = IF WC!Alive(w) THEN WC!Put(toWrk[w], WC!DataMsg("SYNC"))
                                       ELSE toWrk[w]]
  BY <1>1, ProxyRecvEffect DEF ProxyRecvSync
<1>4. toWrk[w] = <<>> /\ cmd[w].st \in {"RES_EXPBUF_WAIT_ACK", "EXE_SCHED"}
      /\ (WC!Alive(w) => cmd[w].st = "RES_EXPBUF_WAIT_ACK")
  BY <1>1, <1>2 DEF Sound, ToProxy, Machine
<1>5. PICK s \in Dealt : syncs' = [syncs EXCEPT ![w][cmd[w].stage] = s]
  BY DEF ProxyRecvSync, Dealt
<1>6. cmd[w].stage \in {1, 2}
  BY <1>1, <1>4 DEF Sound, Machine
<1>7. /\ syncs'[w] = [syncs[w] EXCEPT ![cmd[w].stage] = s] /\ syncs' = [syncs EXCEPT ![w] = syncs'[w]]
      /\ syncs'[w] \in [1..2 -> Dealt \cup {"none", "sent"}]
  BY <1>1, <1>5 DEF Types, TypedAt
<1>8. /\ toWrk'[w] = IF WC!Alive(w) THEN AckLane ELSE <<>>
      /\ toPrx'[w] = <<>> /\ proc'[w] = proc[w] /\ ClientKept(w) /\ cmd'[w] = cmd[w]
      /\ conn'[w] = conn[w] /\ uevent'[w] = uevent[w] /\ Local(w)
  BY <1>1, <1>3, <1>4, <1>7, PutFacts DEF ProxyRecvSync, Types, cliVars, ClientKept, Local
<1>9. /\ syncs'[w][cmd[w].stage] \in Dealt
      /\ \A i \in {1, 2} : syncs[w][i] \in Dealt => syncs'[w][i] \in Dealt
  BY <1>1, <1>6, <1>7 DEF TypedAt
<1> USE DEF ClientKept
<1>10. TypedAt(w)'
  BY <1>1, <1>7, <1>8 DEF TypedAt, WrkLanes, PrxLanes
<1>11. Beginnings(w)' /\ ToWorker(w)' /\ ToProxy(w)'
  BY <1>1, <1>4, <1>8, <1>9 DEF Sound, Beginnings, ToWorker, ToProxy
<1>12. Machine(w)'
  BY <1>1, <1>4, <1>6, <1>8, <1>9 DEF Sound, Machine, WC!Alive
<1>13. Replies(w)'
  BY <1>1, <1>4, <1>8, <1>9 DEF Sound, Replies
<1> QED BY <1>8, <1>10, <1>11, <1>12, <1>13, LocalStep DEF Sound

\* The resource tree is sent to the command that waits for it.
LEMMA ProxyRecvResourcesInd ==
  ASSUME IndInv, NEW w \in Workers, ProxyRecvResources(w)
  PROVE  IndInv'
<1> USE WrkLaneFacts, PrxLaneFacts
<1>1. TypedAt(w) /\ Sound(w) /\ Types
  BY Typing DEF IndInv
<1>2. toPrx[w] = AskTreeLane
  BY <1>1 DEF ProxyRecvResources, TypedAt
<1>3. toWrk[w] = <<>> /\ cmd[w].st = "EXE_WAIT"
  BY <1>1, <1>2 DEF Sound, ToProxy
<1>4. PICK m \in {WC!DataExtMsg("RESOURCES"), WC!NoMsg} : WC!ProxyRecvData(w, m)
  BY DEF ProxyRecvResources
<1>5. /\ proc' = proc /\ toPrx' = [toPrx EXCEPT ![w] = <<>>]
      /\ toWrk' = [toWrk EXCEPT ![w] = IF WC!Alive(w) THEN WC!Put(toWrk[w], m) ELSE toWrk[w]]
  BY <1>1, <1>4, ProxyRecvEffect
<1>6. /\ toWrk'[w] \in {<<>>, TreeLane} /\ toPrx'[w] = <<>> /\ proc'[w] = proc[w] /\ ClientKept(w)
      /\ cmd'[w] = cmd[w] /\ conn'[w] = conn[w] /\ uevent'[w] = uevent[w] /\ syncs'[w] = syncs[w]
      /\ Local(w)
  BY <1>1, <1>3, <1>5, PutFacts DEF ProxyRecvResources, Types, cliVars, ClientKept, Local
<1> USE DEF ClientKept
<1>7. TypedAt(w)'
  BY <1>1, <1>6 DEF TypedAt, WrkLanes, PrxLanes
<1>8. Beginnings(w)' /\ ToWorker(w)' /\ ToProxy(w)'
  BY <1>1, <1>3, <1>6 DEF Sound, Beginnings, ToWorker, ToProxy, Machine
<1>9. Machine(w)' /\ Replies(w)'
  BY <1>1, <1>3, <1>6 DEF Sound, Machine, Replies
<1> QED BY <1>6, <1>7, <1>8, <1>9, LocalStep DEF Sound

\* A YIELD is taken from the lane, or the proxy's source goes.
LEMMA ProxyRecvOtherInd ==
  ASSUME IndInv, NEW w \in Workers, UNCHANGED <<cliVars, conn, cmd, syncs, uevent>>,
         WC!ProxyRecvYield(w) \/ WC!ProxyRecvEof(w) \/ WC!ProxyRecvError(w)
  PROVE  IndInv'
<1> USE WrkLaneFacts, PrxLaneFacts
<1>1. TypedAt(w) /\ Sound(w) /\ Types
  BY Typing DEF IndInv
<1>2. CASE WC!ProxyRecvYield(w)
  <2>1. /\ toPrx[w] = YieldLane /\ proc' = proc /\ toWrk' = toWrk
        /\ toPrx' = [toPrx EXCEPT ![w] = Tail(toPrx[w])]
    BY <1>1, <1>2 DEF WC!ProxyRecvYield, TypedAt
  <2>2. /\ toWrk'[w] = toWrk[w] /\ toPrx'[w] = <<>> /\ proc'[w] = proc[w] /\ ClientKept(w)
        /\ cmd'[w] = cmd[w] /\ conn'[w] = conn[w] /\ uevent'[w] = uevent[w] /\ syncs'[w] = syncs[w]
        /\ Local(w)
    BY <1>1, <2>1 DEF Types, cliVars, ClientKept, Local, TypedAt
  <2> USE DEF ClientKept
  <2>3. TypedAt(w)'
    BY <1>1, <2>2 DEF TypedAt, PrxLanes
  <2>4. Sound(w)'
    BY <1>1, <2>1, <2>2 DEF Sound, Beginnings, ToWorker, ToProxy, Machine, Replies
  <2> QED BY <2>2, <2>3, <2>4, LocalStep
<1>3. CASE WC!ProxyRecvEof(w) \/ WC!ProxyRecvError(w)
  <2>1. UNCHANGED <<BridgeVars, toWrk, toPrx, proc>>
    BY <1>3 DEF WC!ProxyRecvEof, WC!ProxyRecvError, WC!workerVars, BridgeVars
  <2> QED BY <1>1, <2>1, OnlyProc DEF Types, TypedAt
<1> QED BY <1>2, <1>3

\* A step that leaves processes, lanes, commands and clients alone.
LEMMA NothingMoves ==
  ASSUME IndInv, UNCHANGED <<BridgeVars, toWrk, toPrx, proc>>
  PROVE  IndInv'
<1>1. Types'
  BY DEF IndInv, Types, BridgeVars, cliVars
<1>2. ASSUME NEW v \in Workers PROVE Sound(v)'
  <2>1. Sound(v) /\ (WC!Alive(v)' => WC!Alive(v))
    BY DEF IndInv, WC!Alive
  <2> QED BY <2>1, Frame DEF BridgeVars, cliVars
<1> QED BY <1>1, <1>2 DEF IndInv

\* The end of the main process, and an event of udev for no session.
LEMMA MainIndAlone ==
  ASSUME IndInv, MainExit \/ UmonitorEventStray
  PROVE  IndInv'
<1>1. UNCHANGED <<BridgeVars, toWrk, toPrx, proc>>
  BY DEF MainExit, WC!MainExit, UmonitorEventStray, BridgeVars, wcVars
<1> QED BY <1>1, NothingMoves

\* The callbacks that at most move the worker's process on.
LEMMA ProcessInd ==
  ASSUME IndInv, NEW w \in Workers, UNCHANGED BridgeVars,
         \/ WC!ProxyChildEvent(w)
         \/ WC!WorkerStart(w, TRUE)
         \/ WC!WorkerRecvEof(w)
         \/ WC!WorkerSignal(w)
         \/ WC!WorkerTerminate(w)
         \/ WC!WorkerCrash(w, WC!NoMsg)
  PROVE  IndInv'
<1>1. TypedAt(w) /\ Types
  BY Typing DEF IndInv
<1>2. CASE WC!ProxyChildEvent(w)
  <2>1. proc[w] = "zombie" /\ proc' = [proc EXCEPT ![w] = "reaped"] /\ UNCHANGED <<toWrk, toPrx>>
    BY <1>2 DEF WC!ProxyChildEvent
  <2>2. proc'[w] = "reaped"
    BY <1>1, <2>1 DEF Types
  <2> QED BY <2>1, <2>2, OnlyProc DEF WC!ProcStates
<1>3. CASE WC!WorkerStart(w, TRUE)
  <2>1. /\ proc[w] = "forked" /\ proc'[w] \in {"running", "leaving"} /\ WC!Alive(w)
        /\ proc' = [proc EXCEPT ![w] = proc'[w]] /\ UNCHANGED <<toWrk, toPrx>>
    BY <1>1, <1>3 DEF WC!WorkerStart, Types, WC!Alive
  <2> QED BY <2>1, OnlyProc DEF WC!ProcStates
<1>4. CASE WC!WorkerRecvEof(w)
  BY <1>1, <1>4, OnlyProc DEF WC!WorkerRecvEof, Types, TypedAt
<1>5. CASE WC!WorkerSignal(w)
  <2>1. /\ proc[w] = "running" /\ proc'[w] \in {"running", "leaving"} /\ WC!Alive(w)
        /\ proc' = [proc EXCEPT ![w] = proc'[w]] /\ UNCHANGED <<toWrk, toPrx>>
    BY <1>1, <1>5 DEF WC!WorkerSignal, Types, WC!Alive
  <2> QED BY <2>1, OnlyProc DEF WC!ProcStates
<1>6. CASE WC!WorkerTerminate(w)
  <2>1. proc[w] = "leaving" /\ proc' = [proc EXCEPT ![w] = "zombie"] /\ UNCHANGED <<toWrk, toPrx>>
    BY <1>6 DEF WC!WorkerTerminate
  <2>2. proc'[w] = "zombie"
    BY <1>1, <2>1 DEF Types
  <2> QED BY <2>1, <2>2, OnlyProc DEF WC!ProcStates
<1>7. CASE WC!WorkerCrash(w, WC!NoMsg)
  <2>1. /\ WC!Alive(w) /\ proc' = [proc EXCEPT ![w] = "zombie"] /\ toWrk' = toWrk
        /\ toPrx' = [toPrx EXCEPT ![w] = toPrx[w]]
    BY <1>7, PutFacts DEF WC!WorkerCrash
  <2>2. toPrx' = toPrx /\ proc'[w] = "zombie" /\ proc[w] /= "none"
    BY <1>1, <2>1 DEF Types, WC!Alive
  <2> QED BY <2>1, <2>2, OnlyProc DEF WC!ProcStates
<1> QED BY <1>2, <1>3, <1>4, <1>5, <1>6, <1>7

\* The connection resource is made, or could not be.
LEMMA RecvClientInd ==
  ASSUME IndInv, NEW w \in Workers, RecvClient(w)
  PROVE  IndInv'
<1> USE WrkLaneFacts
<1>1. TypedAt(w) /\ Sound(w) /\ Types
  BY Typing DEF IndInv
<1>2. /\ proc' = proc /\ toPrx' = toPrx
      /\ toWrk[w] /= <<>> /\ toWrk' = [toWrk EXCEPT ![w] = <<>>]
  BY <1>1, WorkerRecvEffect DEF RecvClient
<1>3. toWrk[w] = ClientLane /\ conn[w] = "passed" /\ cmd[w].st = "UNDEFINED"
  BY <1>1, <1>2 DEF RecvClient, TypedAt, Sound, ToWorker, Beginnings
<1>4. PICK c \in {"open", "closed"} : conn' = [conn EXCEPT ![w] = c]
  BY DEF RecvClient
<1>5. /\ toWrk'[w] = <<>> /\ toPrx'[w] = toPrx[w] /\ proc'[w] = proc[w] /\ ClientKept(w)
      /\ cmd'[w] = cmd[w] /\ conn'[w] = c /\ uevent'[w] = uevent[w] /\ syncs'[w] = syncs[w]
      /\ Local(w)
  BY <1>1, <1>2, <1>4 DEF RecvClient, Types, cliVars, ClientKept, Local
<1> USE DEF ClientKept
<1>6. TypedAt(w)'
  BY <1>1, <1>5 DEF TypedAt, WrkLanes
<1>7. Beginnings(w)' /\ ToWorker(w)' /\ ToProxy(w)'
  BY <1>1, <1>3, <1>5 DEF Sound, Beginnings, ToWorker, ToProxy, WC!Alive
<1>8. Machine(w)' /\ Replies(w)'
  BY <1>1, <1>3, <1>5 DEF Sound, Machine, Replies
<1> QED BY <1>5, <1>6, <1>7, <1>8, LocalStep DEF Sound

\* The command a request or the main process starts.
FirstCmd == [st |-> "EXE_SCHED", prev |-> "INI", stage |-> 1, armed |-> 1, tmo |-> FALSE,
             res |-> TRUE]

\* A command between two states of its handler.
AnyState == CmdStates \cup {"INI", "RES_RESBUF_L_SEND"}

CmdRec == [st : AnyState, prev : AnyState, stage : 0..2, armed : 0..2, tmo : BOOLEAN, res : BOOLEAN]

\* _change_cmd_state, state by state.
LEMMA ChangeStateIs ==
  ASSUME NEW c \in CmdRec
  PROVE  /\ ChangeState(c, "EXE_SCHED") =
               [st |-> "EXE_SCHED", prev |-> c.st,
                stage |-> IF c.st \in {"INI", "STG_WAIT"} THEN c.stage + 1 ELSE c.stage,
                armed |-> IF c.st = "INI" THEN c.armed ELSE c.armed + 1, tmo |-> FALSE, res |-> c.res]
         /\ ChangeState(c, "STG_WAIT") = [c EXCEPT !.prev = c.st, !.st = "STG_WAIT", !.tmo = TRUE]
         /\ ChangeState(c, "TIM_OUT") =
               [c EXCEPT !.prev = c.st, !.st = "TIM_OUT", !.tmo = FALSE, !.armed = c.armed + 1]
         /\ \A s \in {"EXE_WAIT", "RES_EXPBUF_WAIT_ACK", "FIN", "ERR"} :
               ChangeState(c, s) = [c EXCEPT !.prev = c.st, !.st = s]
BY DEF CmdRec, AnyState, CmdStates, ChangeState

\* The states a handler moves a command to are states of a command.
LEMMA AnyStates ==
  /\ CmdStates \subseteq AnyState /\ {"INI", "RES_RESBUF_L_SEND"} \subseteq AnyState
  /\ {"EXE_SCHED", "EXE_WAIT", "RES_EXPBUF_WAIT_ACK", "STG_WAIT", "TIM_OUT", "FIN", "ERR"}
        \subseteq CmdStates
BY DEF AnyState, CmdStates

\* A state that arms nothing only changes st and prev.
LEMMA MoveFacts ==
  ASSUME NEW f \in CmdRec, NEW s \in {"EXE_WAIT", "RES_EXPBUF_WAIT_ACK", "FIN", "ERR"}
  PROVE  /\ ChangeState(f, s) \in CmdType
         /\ ChangeState(f, s).st = s /\ ChangeState(f, s).stage = f.stage
         /\ ChangeState(f, s).res = f.res /\ ChangeState(f, s).tmo = f.tmo
         /\ ChangeState(f, s).armed = f.armed
<1>1. ChangeState(f, s) = [f EXCEPT !.prev = f.st, !.st = s]
  BY ChangeStateIs
<1>2. [f EXCEPT !.prev = f.st, !.st = s] \in CmdType
  BY AnyStates DEF CmdRec, AnyState, CmdType
<1>3. LET c == [f EXCEPT !.prev = f.st, !.st = s] IN
      c.st = s /\ c.stage = f.stage /\ c.res = f.res /\ c.tmo = f.tmo /\ c.armed = f.armed
  BY DEF CmdRec
<1> QED BY <1>1, <1>2, <1>3

\* What _init_command leaves: scheduled once, in its first stage, nothing sent.
LEMMA InitCommandIs ==
  InitCommand = FirstCmd /\ FirstCmd \in CmdType
<1> DEFINE ini == [NoCmd EXCEPT !.st = "INI", !.armed = 1, !.res = TRUE]
<1>1. ASSUME NEW n \in CmdRec, NEW b \in BOOLEAN, NEW i \in AnyState, NEW a \in 0..2
      PROVE  [n EXCEPT !.st = i, !.armed = a, !.res = b] \in CmdRec
  BY DEF CmdRec
<1>2. NoCmd \in CmdRec
  BY DEF CmdRec, AnyState, CmdStates, NoCmd
<1>3. ini \in CmdRec
  <2>1. "INI" \in AnyState /\ 1 \in 0..2
    BY AnyStates
  <2> QED BY <1>1, <1>2, <2>1, Zenon
<1>4. ini.st = "INI" /\ ini.stage = 0 /\ ini.armed = 1 /\ ini.res = TRUE
  BY <1>2 DEF CmdRec, NoCmd
<1> HIDE DEF ini
<1>5. ChangeState(ini, "EXE_SCHED") =
        [st |-> "EXE_SCHED", prev |-> "INI", stage |-> ini.stage + 1, armed |-> ini.armed,
         tmo |-> FALSE, res |-> ini.res]
  BY <1>3, <1>4, ChangeStateIs
<1>6. ini.stage + 1 = 1
  BY <1>4
<1>7. ChangeState(ini, "EXE_SCHED") = FirstCmd
  BY <1>4, <1>5, <1>6, Zenon DEF FirstCmd
<1>8. FirstCmd \in CmdType
  BY DEF FirstCmd, CmdType, CmdStates
<1> QED BY <1>7, <1>8 DEF InitCommand, ini

\* The command of a dbdump for the main process, if it can be created.
LEMMA RecvSelfInd ==
  ASSUME IndInv, NEW w \in Workers, RecvSelf(w)
  PROVE  IndInv'
<1> USE WrkLaneFacts
<1>1. TypedAt(w) /\ Sound(w) /\ Types
  BY Typing DEF IndInv
<1>2. /\ proc[w] = "running" /\ proc' = proc /\ toPrx' = toPrx
      /\ toWrk[w] /= <<>> /\ toWrk' = [toWrk EXCEPT ![w] = <<>>]
  BY <1>1, WorkerRecvEffect DEF RecvSelf
<1>3. toWrk[w] = SelfLane /\ kind[w] = "self" /\ cmd[w].st = "UNDEFINED" /\ toPrx[w] = <<>>
  BY <1>1, <1>2 DEF RecvSelf, TypedAt, Sound, ToWorker, Beginnings
<1>4. PICK c \in {FirstCmd, cmd[w]} : cmd' = [cmd EXCEPT ![w] = c]
  BY InitCommandIs DEF RecvSelf
<1>5. /\ toWrk'[w] = <<>> /\ toPrx'[w] = <<>> /\ proc'[w] = "running" /\ ClientKept(w)
      /\ cmd'[w] = c /\ conn'[w] = conn[w] /\ uevent'[w] = uevent[w] /\ syncs'[w] = syncs[w]
      /\ Local(w)
  BY <1>1, <1>2, <1>3, <1>4 DEF RecvSelf, Types, cliVars, ClientKept, Local
<1> USE DEF ClientKept
<1>6. TypedAt(w)'
  BY <1>1, <1>2, <1>5, InitCommandIs DEF TypedAt, WrkLanes
<1>7. CASE c = FirstCmd
  <2>1. Beginnings(w)' /\ ToWorker(w)' /\ ToProxy(w)'
    BY <1>1, <1>3, <1>5, <1>7, PrxLaneFacts DEF Sound, Beginnings, ToWorker, ToProxy, FirstCmd
  <2>2. Machine(w)' /\ Replies(w)'
    BY <1>1, <1>3, <1>5, <1>7 DEF Sound, Beginnings, Machine, Replies, FirstCmd, SchedFrom
  <2> QED BY <1>5, <1>6, <2>1, <2>2, LocalStep DEF Sound
<1>8. CASE c = cmd[w]
  <2>1. Beginnings(w)' /\ ToWorker(w)' /\ ToProxy(w)'
    BY <1>1, <1>3, <1>5, <1>8, PrxLaneFacts DEF Sound, Beginnings, ToWorker, ToProxy, WC!Alive
  <2>2. Machine(w)' /\ Replies(w)'
    BY <1>1, <1>3, <1>5, <1>8 DEF Sound, Beginnings, Machine, Replies, SchedFrom
  <2> QED BY <1>5, <1>6, <2>1, <2>2, LocalStep DEF Sound
<1> QED BY <1>4, <1>7, <1>8

\* A complete request: a command, a refusal, or the end of the connection.
LEMMA ConnectionRequestInd ==
  ASSUME IndInv, NEW w \in Workers, ConnectionRequest(w)
  PROVE  IndInv'
<1> USE WrkLaneFacts, PrxLaneFacts
<1>1. TypedAt(w) /\ Sound(w) /\ Types
  BY Typing DEF IndInv
<1>2. /\ proc[w] = "running" /\ toWrk' = toWrk
      /\ proc' = [proc EXCEPT ![w] = IF kind[w] /= "newer" THEN "running" ELSE "leaving"]
      /\ toPrx' = [toPrx EXCEPT ![w] = toPrx'[w]] /\ toPrx'[w] = toPrx[w]
  <2> DEFINE ok == kind[w] /= "newer"
  <2>1. ok \in BOOLEAN /\ WC!WorkerEvent(w, WC!NoMsg, ok)
    BY DEF ConnectionRequest
  <2> HIDE DEF ok
  <2>2. /\ proc[w] = "running" /\ proc' = [proc EXCEPT ![w] = IF ok THEN "running" ELSE "leaving"]
        /\ toWrk' = toWrk
        /\ toPrx' = [toPrx EXCEPT ![w] = toPrx'[w]]
        /\ toPrx'[w] \in {toPrx[w], WC!Put(toPrx[w], WC!NoMsg)}
    BY <1>1, <2>1, WorkerEventEffect
  <2> QED BY <2>2, PutFacts DEF ok
<1>3. conn[w] = "open" /\ req[w] = "sent"
  BY DEF ConnectionRequest
<1>4. /\ kind[w] \in AllKinds \ {"self"} /\ cmd[w].st = "UNDEFINED" /\ toPrx[w] = <<>>
      /\ reply[w] = "none" /\ toWrk[w] = <<>>
  <2>1. kind[w] \in AllKinds \ {"self"} /\ cmd[w].st = "UNDEFINED"
    BY <1>1, <1>3 DEF TypedAt, Sound, Beginnings
  <2>2. toPrx[w] = <<>> /\ reply[w] = "none"
    BY <1>1, <2>1 DEF Sound, Beginnings
  <2>3. toWrk[w] = <<>>
    BY <1>1, <1>3, <2>1 DEF TypedAt, WrkLanes, Sound, ToWorker
  <2> QED BY <2>1, <2>2, <2>3
<1>5. /\ toWrk'[w] = <<>> /\ toPrx'[w] = <<>> /\ kind'[w] = kind[w] /\ client'[w] = client[w]
      /\ req'[w] = "taken" /\ reply'[w] = "none" /\ uevent'[w] = uevent[w] /\ syncs'[w] = syncs[w]
      /\ cmd'[w] = IF kind[w] \in {"rejected", "newer"} THEN cmd[w] ELSE FirstCmd
      /\ conn'[w] \in {"open", "closed"} /\ proc'[w] \in {"running", "leaving"}
  BY <1>1, <1>2, <1>3, <1>4, InitCommandIs DEF ConnectionRequest, Types
<1>6. Local(w)
  BY <1>1, <1>2, <1>5 DEF ConnectionRequest, Types, Local
<1>7. TypedAt(w)'
  BY <1>1, <1>5, InitCommandIs DEF TypedAt, WrkLanes, PrxLanes, WC!ProcStates
<1>8. client[w] /= "connected" /\ client[w] /= "done"
  BY <1>1, <1>3, <1>4 DEF Sound, Beginnings
<1>9. Beginnings(w)' /\ ToWorker(w)' /\ ToProxy(w)'
  BY <1>1, <1>4, <1>5, <1>8 DEF Sound, Beginnings, ToWorker, ToProxy, FirstCmd, AllKinds
<1>10. Machine(w)' /\ Replies(w)'
  BY <1>1, <1>4, <1>5 DEF Sound, Beginnings, Machine, Replies, FirstCmd, SchedFrom
<1> QED BY <1>6, <1>7, <1>9, <1>10, LocalStep DEF Sound

-----------------------------------------------------------------------------
(***************************************************************************)
(* The handler of the command.                                             *)
(***************************************************************************)

\* When the handler runs the command is scheduled or timed out, nothing is
\* under way to the proxy, and only a udev event can be under way from it.
LEMMA HandlerFacts ==
  ASSUME IndInv, NEW w \in Workers, HandlerRuns(w)
  PROVE  /\ proc[w] = "running" /\ cmd[w].st \in {"EXE_SCHED", "TIM_OUT"}
         /\ toPrx[w] = <<>> /\ (cmd[w].st = "EXE_SCHED" => toWrk[w] = <<>>)
         /\ cmd[w].stage \in {1, 2} /\ cmd[w].armed \in {1, 2} /\ cmd[w] \in CmdType
         /\ Fired(w) \in CmdRec /\ Fired(w).stage = cmd[w].stage /\ Fired(w).res = cmd[w].res
         /\ Fired(w).armed = cmd[w].armed - 1 /\ Fired(w).tmo = cmd[w].tmo /\ Fired(w).st = cmd[w].st
<1>1. TypedAt(w) /\ Sound(w)
  BY Typing
<1>2. cmd[w] \in CmdType /\ cmd[w].armed \in {1, 2} /\ proc[w] = "running"
  BY <1>1 DEF HandlerRuns, TypedAt, CmdType
<1>3. cmd[w].st \in {"EXE_SCHED", "TIM_OUT"}
  BY <1>1, <1>2 DEF CmdType, CmdStates, Sound, Machine, Beginnings
<1>4. toPrx[w] = <<>>
  BY <1>1, <1>2, <1>3 DEF TypedAt, PrxLanes, Sound, ToProxy, WC!Alive
<1>5. /\ Fired(w).stage = cmd[w].stage /\ Fired(w).res = cmd[w].res
      /\ Fired(w).armed = cmd[w].armed - 1 /\ Fired(w).tmo = cmd[w].tmo /\ Fired(w).st = cmd[w].st
      /\ Fired(w) \in CmdRec
  BY <1>2 DEF Fired, CmdType, CmdRec, AnyState, CmdStates
<1> QED BY <1>1, <1>2, <1>3, <1>4, <1>5 DEF Sound, Machine

\* Where the handler leaves the command when it waits or fails.
LEMMA HandlerMoves ==
  ASSUME IndInv, NEW w \in Workers, HandlerRuns(w),
         NEW s \in {"EXE_WAIT", "RES_EXPBUF_WAIT_ACK", "ERR"}
  PROVE  LET c == ChangeState(Fired(w), s) IN
         /\ c \in CmdType /\ c.st = s /\ c.stage = cmd[w].stage /\ c.res = cmd[w].res
         /\ c.tmo = cmd[w].tmo /\ c.armed = cmd[w].armed - 1
BY HandlerFacts, MoveFacts

\* The handler fails: CMD_STATE_ERR, the worker yields and leaves.
LEMMA CmdFailInd ==
  ASSUME IndInv, NEW w \in Workers, HandlerRuns(w), CmdFail(w),
         conn' = [conn EXCEPT ![w] = conn'[w]], conn'[w] \in {conn[w], "closed"},
         conn'[w] = "closed" => conn[w] /= "none" \/ kind[w] \notin {"none", "self"},
         syncs' = [syncs EXCEPT ![w] = syncs'[w]],
         syncs'[w] \in {syncs[w], [syncs[w] EXCEPT ![cmd[w].stage] = "empty"]}
  PROVE  IndInv'
<1> USE WrkLaneFacts, PrxLaneFacts
<1>1. TypedAt(w) /\ Sound(w) /\ Types
  BY Typing DEF IndInv
<1>2. /\ proc[w] = "running" /\ proc' = [proc EXCEPT ![w] = "leaving"] /\ toWrk' = toWrk
      /\ toPrx' = [toPrx EXCEPT ![w] = toPrx'[w]]
      /\ toPrx'[w] \in {toPrx[w], WC!Put(toPrx[w], WC!YieldMsg)}
  BY <1>1, WorkerEventEffect DEF CmdFail
<1> DEFINE c == ChangeState(Fired(w), "ERR")
<1>3. /\ c \in CmdType /\ c.st = "ERR" /\ c.stage = cmd[w].stage /\ c.res = cmd[w].res
      /\ c.tmo = cmd[w].tmo /\ c.armed \in {0, 1}
  BY HandlerFacts, HandlerMoves
<1>4. cmd' = [cmd EXCEPT ![w] = c]
  BY DEF CmdFail
<1> HIDE DEF c
<1>5. /\ toWrk'[w] = toWrk[w] /\ toPrx'[w] \in {<<>>, YieldLane} /\ proc'[w] = "leaving"
      /\ cmd'[w] = c /\ ClientKept(w) /\ uevent'[w] = uevent[w] /\ Local(w)
  BY <1>1, <1>2, <1>4, HandlerFacts, PutFacts DEF CmdFail, Types, cliVars, ClientKept, Local
<1> USE DEF ClientKept
<1>6. /\ syncs'[w] \in [1..2 -> Dealt \cup {"none", "sent"}]
      /\ \A i \in {1, 2} : syncs[w][i] \in Dealt => syncs'[w][i] \in Dealt
  BY <1>1, HandlerFacts DEF TypedAt, Dealt
<1>7. TypedAt(w)'
  BY <1>1, <1>3, <1>5, <1>6 DEF TypedAt, PrxLanes, WC!ProcStates
<1>8. Beginnings(w)'
  BY <1>1, <1>2, <1>3, <1>5, HandlerFacts DEF Sound, Beginnings
<1>9. ToWorker(w)' /\ ToProxy(w)'
  BY <1>1, <1>2, <1>3, <1>5, HandlerFacts DEF Sound, ToWorker, ToProxy, Beginnings
<1>10. Machine(w)'
  BY <1>1, <1>3, <1>5, HandlerFacts DEF Sound, Machine
<1>11. Replies(w)'
  BY <1>1, <1>3, <1>5, <1>6, HandlerFacts DEF Sound, Machine, Replies
<1> QED BY <1>5, <1>7, <1>8, <1>9, <1>10, <1>11, LocalStep DEF Sound

\* The command while its response is sent.
Sending(f) == [f EXCEPT !.st = "RES_RESBUF_L_SEND", !.res = FALSE]

\* The response is sent: the command is done, or waits for its next stage.
LEMMA SendFacts ==
  ASSUME NEW f \in CmdRec
  PROVE  LET fin == ChangeState(Sending(f), "FIN")
             stg == ChangeState(Sending(f), "STG_WAIT")
         IN /\ Sending(f).stage = f.stage
            /\ fin \in CmdType /\ fin.st = "FIN" /\ fin.stage = f.stage /\ fin.armed = f.armed
            /\ fin.tmo = f.tmo /\ ~fin.res
            /\ stg \in CmdType /\ stg.st = "STG_WAIT" /\ stg.stage = f.stage /\ stg.armed = f.armed
            /\ stg.tmo /\ ~stg.res
<1> DEFINE g == Sending(f)
           stg == ChangeState(g, "STG_WAIT")
<1>1. ASSUME NEW b \in BOOLEAN, NEW s \in AnyState
      PROVE  [f EXCEPT !.st = s, !.res = b] \in CmdRec
  BY DEF CmdRec
<1>2. "RES_RESBUF_L_SEND" \in AnyState
  BY DEF AnyState
<1>3. g \in CmdRec
  BY <1>1, <1>2, Zenon DEF Sending
<1>4. g.stage = f.stage /\ g.armed = f.armed /\ g.tmo = f.tmo /\ ~g.res
      /\ g.st \in AnyState
  BY <1>2 DEF CmdRec, Sending
<1> HIDE DEF g
<1>5. /\ stg.st = "STG_WAIT" /\ stg.stage = g.stage /\ stg.armed = g.armed
      /\ stg.tmo /\ stg.res = g.res
  BY <1>3, ChangeStateIs DEF CmdRec
<1>6. stg \in CmdType
  <2>1. ASSUME NEW b \in BOOLEAN, NEW s \in CmdStates
        PROVE  [g EXCEPT !.prev = g.st, !.st = s, !.tmo = b] \in CmdType
    BY <1>3, <1>4 DEF CmdRec, CmdType, AnyState
  <2>2. stg = [g EXCEPT !.prev = g.st, !.st = "STG_WAIT", !.tmo = TRUE]
    BY <1>3, ChangeStateIs
  <2>3. "STG_WAIT" \in CmdStates
    BY AnyStates
  <2> QED BY <2>1, <2>2, <2>3, Zenon
<1>7. LET fin == ChangeState(g, "FIN")
      IN  /\ fin \in CmdType /\ fin.st = "FIN" /\ fin.stage = f.stage /\ fin.armed = f.armed
          /\ fin.tmo = f.tmo /\ ~fin.res
  BY <1>3, <1>4, MoveFacts
<1> QED BY <1>4, <1>5, <1>6, <1>7 DEF g

\* The response of a stage whose export is dealt with.
LEMMA CmdReplyInd ==
  ASSUME IndInv, NEW w \in Workers, HandlerRuns(w), CmdReply(w), cmd[w].st = "EXE_SCHED",
         cmd[w].prev /= "TIM_OUT", syncs' = [syncs EXCEPT ![w] = syncs'[w]],
         syncs'[w] \in {syncs[w], [syncs[w] EXCEPT ![cmd[w].stage] = "empty"]},
         kind[w] = "scan" => syncs'[w][cmd[w].stage] \in Dealt
  PROVE  IndInv'
<1>1. TypedAt(w) /\ Sound(w) /\ Types
  BY Typing DEF IndInv
<1>2. kind[w] \in {"scan", "resources", "plain", "self"}
  BY <1>1 DEF Sound, Beginnings
<1>3. CASE ~CanReply(w)
  <2>1. conn' = [conn EXCEPT ![w] = "closed"] /\ CmdFail(w)
    BY <1>3 DEF CmdReply
  <2>2. conn'[w] = "closed" /\ kind[w] \notin {"none", "self"}
    BY <1>1, <1>2, <1>3, <2>1 DEF CanReply, Types
  <2> QED BY <2>1, <2>2, CmdFailInd
<1>4. CASE CanReply(w)
  <2> DEFINE g == Sending(Fired(w))
             n == IF LastStage(kind[w], g) THEN "FIN" ELSE "STG_WAIT"
             c == ChangeState(g, n)
  <2>1. /\ cmd' = [cmd EXCEPT ![w] = c]
        /\ WC!WorkerEvent(w, IF n = "FIN" THEN WC!YieldMsg ELSE WC!NoMsg, TRUE)
        /\ reply' = [reply EXCEPT ![w] = IF cmd[w].res /\ kind[w] /= "self" THEN "sent" ELSE @]
        /\ UNCHANGED <<ifcEs, umonEs, kind, client, req, conn, uevent>>
    BY <1>4 DEF CmdReply, Sending
  <2>2. g.stage = cmd[w].stage
    BY HandlerFacts, SendFacts
  <2>3. n = IF kind[w] = "scan" /\ cmd[w].stage = 1 THEN "STG_WAIT" ELSE "FIN"
    BY <1>2, <2>2, HandlerFacts DEF LastStage, StageCount
  <2>4. /\ c \in CmdType /\ c.st = n /\ c.stage = cmd[w].stage /\ c.armed = cmd[w].armed - 1
        /\ ~c.res /\ (c.tmo <=> n = "STG_WAIT")
    <3>1. ~cmd[w].tmo
      BY <1>1, HandlerFacts DEF Sound, Machine, CmdType
    <3>2. CASE n = "FIN"
      <4>1. c = ChangeState(g, "FIN")
        BY <3>2
      <4> QED BY <3>1, <3>2, <4>1, HandlerFacts, SendFacts
    <3>3. CASE n = "STG_WAIT"
      <4>1. c = ChangeState(g, "STG_WAIT")
        BY <3>3
      <4> QED BY <3>3, <4>1, HandlerFacts, SendFacts
    <3> QED BY <2>3, <3>2, <3>3
  <2> HIDE DEF g, n, c
  <2>5. /\ proc' = [proc EXCEPT ![w] = "running"] /\ toWrk' = toWrk
        /\ toPrx' = [toPrx EXCEPT ![w] = toPrx'[w]]
        /\ toPrx'[w] \in {<<>>, IF n = "FIN" THEN YieldLane ELSE <<>>}
    <3> DEFINE m == IF n = "FIN" THEN WC!YieldMsg ELSE WC!NoMsg
    <3>1. WC!WorkerEvent(w, m, TRUE)
      BY <2>1
    <3>2. WC!Put(<<>>, m) = IF n = "FIN" THEN YieldLane ELSE <<>>
      BY PutFacts
    <3> HIDE DEF m
    <3>3. /\ proc' = [proc EXCEPT ![w] = IF TRUE THEN "running" ELSE "leaving"] /\ toWrk' = toWrk
          /\ toPrx' = [toPrx EXCEPT ![w] = toPrx'[w]]
          /\ toPrx'[w] \in {toPrx[w], WC!Put(toPrx[w], m)}
      BY <1>1, <3>1, WorkerEventEffect
    <3> QED BY <3>2, <3>3, HandlerFacts
  <2>6. /\ cmd'[w] = c /\ proc'[w] = "running" /\ toWrk'[w] = <<>>
        /\ reply'[w] = (IF cmd[w].res /\ kind[w] /= "self" THEN "sent" ELSE reply[w])
        /\ kind'[w] = kind[w] /\ client'[w] = client[w] /\ req'[w] = req[w] /\ conn'[w] = conn[w]
        /\ uevent'[w] = uevent[w]
    BY <1>1, <2>1, <2>5, HandlerFacts DEF Types
  <2>7. Local(w)
    BY <1>1, <2>1, <2>5, <2>6 DEF Types, Local
  <2>8. /\ syncs'[w] \in [1..2 -> Dealt \cup {"none", "sent"}]
        /\ \A i \in {1, 2} : syncs[w][i] \in Dealt => syncs'[w][i] \in Dealt
    BY <1>1, HandlerFacts DEF TypedAt, Dealt
  <2>9. cmd[w].armed = 1 /\ c.armed = 0
    BY <1>1, <2>4 DEF Sound, Machine
  <2>10. TypedAt(w)'
    BY <1>1, <2>4, <2>5, <2>6, <2>8 DEF TypedAt, WrkLanes, PrxLanes, WC!ProcStates
  <2>11. Beginnings(w)'
    BY <1>1, <1>2, <1>4, <2>3, <2>4, <2>6, HandlerFacts
       DEF Sound, Beginnings, CanReply, ClientGone, Replies
  <2>12. ToWorker(w)' /\ ToProxy(w)'
    BY <2>3, <2>4, <2>5, <2>6, WrkLaneFacts, PrxLaneFacts DEF ToWorker, ToProxy
  <2>13. Machine(w)'
    BY <1>1, <1>2, <2>3, <2>4, <2>6, <2>9, HandlerFacts DEF Sound, Machine
  <2>14. Replies(w)'
    BY <1>1, <1>2, <2>3, <2>4, <2>6, <2>8, HandlerFacts DEF Sound, Machine, Replies
  <2> QED BY <2>7, <2>10, <2>11, <2>12, <2>13, <2>14, LocalStep DEF Sound
<1> QED BY <1>3, <1>4

\* The command sends its export buffer, or asks for the resource tree, and
\* waits; or the main process is gone and it fails.
LEMMA CmdAskMainInd ==
  ASSUME IndInv, NEW w \in Workers, HandlerRuns(w), cmd[w].st = "EXE_SCHED",
         cmd[w].prev /= "TIM_OUT",
         \/ kind[w] = "scan" /\ CmdAskMain(w, WC!DataExtMsg("SYNC"), "RES_EXPBUF_WAIT_ACK")
         \/ kind[w] = "resources" /\ CmdAskMain(w, WC!DataMsg("RESOURCES"), "EXE_WAIT"),
         syncs' = [syncs EXCEPT ![w] = syncs'[w]],
         \/ syncs'[w] = syncs[w]
         \/ WC!ProxyLive(w) /\ syncs'[w] = [syncs[w] EXCEPT ![cmd[w].stage] = "sent"]
  PROVE  IndInv'
<1>1. TypedAt(w) /\ Sound(w) /\ Types
  BY Typing DEF IndInv
<1>0. PICK m, s :
         /\ CmdAskMain(w, m, s)
         /\ \/ m = WC!DataExtMsg("SYNC") /\ s = "RES_EXPBUF_WAIT_ACK" /\ kind[w] = "scan"
            \/ m = WC!DataMsg("RESOURCES") /\ s = "EXE_WAIT" /\ kind[w] = "resources"
  OBVIOUS
<1>2. CASE ~WC!ProxyLive(w)
  <2>1. CmdFail(w) /\ UNCHANGED conn /\ syncs'[w] = syncs[w]
    BY <1>0, <1>2 DEF CmdAskMain
  <2>2. /\ conn' = [conn EXCEPT ![w] = conn'[w]] /\ conn'[w] = conn[w]
        /\ kind[w] \notin {"none", "self"}
    BY <1>0, <1>1, <2>1 DEF Types
  <2> QED BY <2>1, <2>2, CmdFailInd
<1>3. CASE WC!ProxyLive(w)
  <2> DEFINE c == ChangeState(Fired(w), s)
  <2>1. /\ c \in CmdType /\ c.st = s /\ c.stage = cmd[w].stage /\ c.res = cmd[w].res
        /\ c.tmo = cmd[w].tmo /\ c.armed = cmd[w].armed - 1
    BY <1>0, HandlerMoves
  <2>2. cmd' = [cmd EXCEPT ![w] = c] /\ UNCHANGED <<cliVars, conn, uevent>>
        /\ WC!WorkerEvent(w, m, TRUE)
    BY <1>0, <1>3 DEF CmdAskMain
  <2> HIDE DEF c
  <2>3. /\ proc' = [proc EXCEPT ![w] = IF TRUE THEN "running" ELSE "leaving"] /\ toWrk' = toWrk
        /\ toPrx' = [toPrx EXCEPT ![w] = toPrx'[w]]
        /\ toPrx'[w] \in {toPrx[w], WC!Put(toPrx[w], m)}
    BY <1>1, <2>2, WorkerEventEffect
  <2>4. toPrx'[w] = <<>> \/ (s = "EXE_WAIT" /\ toPrx'[w] = AskTreeLane)
                         \/ (s = "RES_EXPBUF_WAIT_ACK" /\ toPrx'[w] = ExportLane)
    BY <1>0, <2>3, HandlerFacts, PutFacts
  <2>5. /\ cmd'[w] = c /\ proc'[w] = "running" /\ toWrk'[w] = <<>> /\ ClientKept(w)
        /\ conn'[w] = conn[w] /\ uevent'[w] = uevent[w] /\ Local(w)
    BY <1>1, <2>2, <2>3, HandlerFacts DEF Types, cliVars, ClientKept, Local
  <2> USE DEF ClientKept
  <2>6. /\ syncs'[w] \in [1..2 -> Dealt \cup {"none", "sent"}]
        /\ \A i \in {1, 2} : i /= cmd[w].stage => syncs'[w][i] = syncs[w][i]
    BY <1>1, HandlerFacts DEF TypedAt
  <2>7. cmd[w].armed = 1 /\ ~cmd[w].tmo /\ (kind[w] = "scan" /\ cmd[w].stage = 1 => cmd[w].res)
    BY <1>0, <1>1, HandlerFacts DEF Sound, Machine, Replies
  <2>8. TypedAt(w)'
    BY <1>0, <1>1, <2>1, <2>4, <2>5, <2>6 DEF TypedAt, WrkLanes, PrxLanes, WC!ProcStates
  <2>9. Beginnings(w)'
    BY <1>0, <1>1, <2>1, <2>5, HandlerFacts DEF Sound, Beginnings
  <2>10. ToWorker(w)' /\ ToProxy(w)'
    BY <1>0, <2>1, <2>4, <2>5, WrkLaneFacts, PrxLaneFacts DEF ToWorker, ToProxy
  <2>11. Machine(w)'
    BY <1>0, <1>1, <2>1, <2>5, <2>7, HandlerFacts DEF Sound, Machine
  <2>12. Replies(w)'
    BY <1>0, <1>1, <2>1, <2>5, <2>6, <2>7, HandlerFacts DEF Sound, Machine, Replies
  <2> QED BY <2>5, <2>8, <2>9, <2>10, <2>11, <2>12, LocalStep DEF Sound
<1> QED BY <1>2, <1>3

\* _cmd_handler, all of it.
LEMMA CmdHandlerInd ==
  ASSUME IndInv, NEW w \in Workers, CmdHandler(w)
  PROVE  IndInv'
<1>1. TypedAt(w) /\ Sound(w) /\ Types /\ HandlerRuns(w)
  BY Typing DEF IndInv, CmdHandler, CmdExec, CmdAcked, CmdUnexpected
<1> DEFINE stage == cmd[w].stage
<1>2. stage \in 1..2 /\ syncs[w] \in [1..2 -> Dealt \cup {"none", "sent"}] /\ DOMAIN syncs = Workers
  BY <1>1, HandlerFacts DEF TypedAt, Types
<1>3. UNCHANGED syncs => syncs' = [syncs EXCEPT ![w] = syncs'[w]] /\ syncs'[w] = syncs[w]
  BY <1>1 DEF Types
<1>4. ASSUME CmdFail(w), UNCHANGED <<conn, syncs>> PROVE IndInv'
  <2>1. /\ conn' = [conn EXCEPT ![w] = conn'[w]] /\ conn'[w] = conn[w]
        /\ kind[w] \notin {"none", "self"} \/ conn[w] /= "closed"
    BY <1>1, <1>4 DEF Types, Sound, Beginnings
  <2> QED BY <1>1, <1>3, <1>4, <2>1, CmdFailInd
<1>5. ASSUME CmdExec(w) PROVE IndInv'
  <2>1. cmd[w].st = "EXE_SCHED" /\ cmd[w].prev \in {"INI", "EXE_WAIT", "STG_WAIT"}
    BY <1>5 DEF CmdExec
  <2>2. CASE CmdFail(w) /\ UNCHANGED <<conn, syncs>>
    BY <1>4, <2>2
  <2>3. CASE /\ kind[w] = "resources" /\ cmd[w].prev = "INI"
             /\ CmdAskMain(w, WC!DataMsg("RESOURCES"), "EXE_WAIT")
             /\ UNCHANGED syncs
    <3>1. cmd[w].prev /= "TIM_OUT" /\ syncs' = [syncs EXCEPT ![w] = syncs'[w]] /\ syncs'[w] = syncs[w]
      BY <1>3, <2>1, <2>3
    <3> QED BY <1>1, <2>1, <2>3, <3>1, CmdAskMainInd
  <2>4. CASE /\ kind[w] = "scan"
             /\ CmdAskMain(w, WC!DataExtMsg("SYNC"), "RES_EXPBUF_WAIT_ACK")
             /\ syncs' = [syncs EXCEPT ![w][stage] = IF WC!ProxyLive(w) THEN "sent" ELSE @]
    <3>1. /\ syncs' = [syncs EXCEPT ![w] = syncs'[w]]
          /\ syncs'[w] = [syncs[w] EXCEPT ![stage] = IF WC!ProxyLive(w) THEN "sent" ELSE syncs[w][stage]]
      BY <1>2, <2>4
    <3>2. \/ syncs'[w] = syncs[w]
          \/ WC!ProxyLive(w) /\ syncs'[w] = [syncs[w] EXCEPT ![stage] = "sent"]
      BY <1>2, <3>1
    <3>3. cmd[w].prev /= "TIM_OUT" /\ syncs' = [syncs EXCEPT ![w] = syncs'[w]]
      BY <2>1, <3>1
    <3> QED BY <1>1, <2>1, <2>4, <3>2, <3>3, CmdAskMainInd
  <2>5. CASE /\ kind[w] = "scan" /\ CmdReply(w)
             /\ syncs' = [syncs EXCEPT ![w][stage] = "empty"]
    <3>1. /\ syncs' = [syncs EXCEPT ![w] = syncs'[w]]
          /\ syncs'[w] = [syncs[w] EXCEPT ![stage] = "empty"] /\ syncs'[w][stage] = "empty"
      BY <1>2, <2>5
    <3> QED BY <1>1, <2>1, <2>5, <3>1, CmdReplyInd DEF Dealt
  <2>6. CASE kind[w] /= "scan" /\ CmdReply(w) /\ UNCHANGED syncs
    BY <1>1, <1>3, <2>1, <2>6, CmdReplyInd
  <2> QED BY <1>5, <2>2, <2>3, <2>4, <2>5, <2>6 DEF CmdExec
<1>6. ASSUME CmdAcked(w) PROVE IndInv'
  <2>1. /\ cmd[w].st = "EXE_SCHED" /\ cmd[w].prev = "RES_EXPBUF_WAIT_ACK" /\ CmdReply(w)
        /\ UNCHANGED syncs
    BY <1>6 DEF CmdAcked
  <2>2. syncs[w][stage] \in Dealt
    BY <1>1, <2>1 DEF Sound, Machine
  <2> QED BY <1>1, <1>3, <2>1, <2>2, CmdReplyInd
<1>7. ASSUME CmdUnexpected(w) PROVE IndInv'
  BY <1>4, <1>7 DEF CmdUnexpected
<1> QED BY <1>5, <1>6, <1>7 DEF CmdHandler

-----------------------------------------------------------------------------
(***************************************************************************)
(* The stage timeout, the end of a connection, crashes, clients and udev.  *)
(***************************************************************************)

\* The command after its stage has timed out.
LEMMA TimedOutFacts ==
  ASSUME NEW f \in CmdRec
  PROVE  f.armed = 0 => LET c == ChangeState(f, "TIM_OUT") IN
         /\ c \in CmdType /\ c.st = "TIM_OUT" /\ c.stage = f.stage /\ c.armed = 1
         /\ ~c.tmo /\ c.res = f.res
<1> DEFINE moved == [f EXCEPT !.prev = f.st, !.st = "TIM_OUT"]
           c == ChangeState(f, "TIM_OUT")
<1>1. moved \in CmdRec /\ moved.st = "TIM_OUT" /\ moved.prev \in AnyState /\ moved.stage = f.stage
      /\ moved.armed = f.armed /\ moved.res = f.res
  BY DEF CmdRec, AnyState, CmdStates
<1>2. c = [moved EXCEPT !.tmo = FALSE, !.armed = @ + 1]
  BY Zenon DEF ChangeState
<1> HIDE DEF moved, c
<1>3. /\ c.st = "TIM_OUT" /\ c.stage = f.stage /\ c.armed = f.armed + 1
      /\ ~c.tmo /\ c.res = f.res
  BY <1>1, <1>2 DEF CmdRec
<1>4. ASSUME NEW m \in CmdRec, m.st \in CmdStates, NEW b \in BOOLEAN, NEW a \in 0..2
      PROVE  [m EXCEPT !.tmo = b, !.armed = a] \in CmdType
  BY <1>4 DEF CmdRec, CmdType, AnyState
<1>5. f.armed = 0 => moved.armed + 1 \in 0..2
  BY <1>1
<1>6. moved.st \in CmdStates
  BY <1>1, AnyStates
<1>7. f.armed = 0 => c \in CmdType
  BY <1>1, <1>2, <1>4, <1>5, <1>6, Zenon
<1> QED BY <1>3, <1>7 DEF c

\* The timer only runs while the command waits for its next stage.
LEMMA CmdTimeoutInd ==
  ASSUME IndInv, NEW w \in Workers, CmdTimeout(w)
  PROVE  IndInv'
<1>1. TypedAt(w) /\ Sound(w) /\ Types
  BY Typing DEF IndInv
<1>2. cmd[w].st = "STG_WAIT" /\ cmd[w].armed = 0 /\ cmd[w].stage = 1 /\ kind[w] = "scan"
      /\ cmd[w] \in CmdType /\ ~cmd[w].res
  BY <1>1 DEF CmdTimeout, Sound, Machine, Replies, TypedAt
<1> DEFINE c == ChangeState(cmd[w], "TIM_OUT")
<1>3. c \in CmdType /\ c.st = "TIM_OUT" /\ c.stage = 1 /\ c.armed = 1 /\ ~c.tmo /\ ~c.res
  <2>1. cmd[w] \in CmdRec
    BY <1>2 DEF CmdType, CmdRec, AnyState
  <2> QED BY <1>2, <2>1, TimedOutFacts
<1> HIDE DEF c
<1>4. /\ toWrk'[w] = toWrk[w] /\ toPrx'[w] = toPrx[w] /\ proc'[w] = proc[w] /\ ClientKept(w)
      /\ cmd'[w] = c /\ conn'[w] = conn[w] /\ uevent'[w] = uevent[w] /\ syncs'[w] = syncs[w]
      /\ Local(w)
  BY <1>1, <1>2 DEF CmdTimeout, Types, cliVars, wcVars, ClientKept, Local, c
<1> USE DEF ClientKept
<1>5. TypedAt(w)'
  BY <1>1, <1>3, <1>4 DEF TypedAt
<1>6. Beginnings(w)'
  BY <1>1, <1>2, <1>3, <1>4 DEF Sound, Beginnings, CmdTimeout
<1>7. ToWorker(w)' /\ ToProxy(w)'
  BY <1>1, <1>2, <1>3, <1>4, WrkLaneFacts, PrxLaneFacts DEF Sound, ToWorker, ToProxy, WC!Alive
<1>8. Machine(w)' /\ Replies(w)'
  BY <1>1, <1>2, <1>3, <1>4 DEF Sound, Machine, Replies
<1> QED BY <1>4, <1>5, <1>6, <1>7, <1>8, LocalStep DEF Sound

\* The connection goes; the worker stays or leaves.
LEMMA ConnectionClosedInd ==
  ASSUME IndInv, NEW w \in Workers, ConnectionEof(w) \/ ConnectionError(w)
  PROVE  IndInv'
<1>1. TypedAt(w) /\ Sound(w) /\ Types
  BY Typing DEF IndInv
<1>2. proc[w] = "running" /\ conn[w] = "open" /\ conn' = [conn EXCEPT ![w] = "closed"]
  BY DEF ConnectionEof, ConnectionError, WC!WorkerEvent
<1>3. /\ toWrk' = toWrk /\ toPrx' = [toPrx EXCEPT ![w] = toPrx'[w]] /\ toPrx'[w] = toPrx[w]
      /\ proc' = [proc EXCEPT ![w] = proc'[w]] /\ proc'[w] \in {"running", "leaving"}
  <2>1. CASE ConnectionEof(w)
    BY <1>1, <1>2, <2>1 DEF ConnectionEof, wcVars, Types
  <2>2. CASE ConnectionError(w)
    <3>1. WC!WorkerEvent(w, WC!NoMsg, FALSE)
      BY <2>2 DEF ConnectionError
    <3>2. /\ proc' = [proc EXCEPT ![w] = IF FALSE THEN "running" ELSE "leaving"] /\ toWrk' = toWrk
          /\ toPrx' = [toPrx EXCEPT ![w] = toPrx'[w]]
          /\ toPrx'[w] \in {toPrx[w], WC!Put(toPrx[w], WC!NoMsg)}
      BY <1>1, <3>1, WorkerEventEffect
    <3> QED BY <1>1, <3>2, PutFacts DEF Types
  <2> QED BY <2>1, <2>2
<1>4. /\ toWrk'[w] = toWrk[w] /\ ClientKept(w) /\ cmd'[w] = cmd[w] /\ conn'[w] = "closed"
      /\ uevent'[w] = uevent[w] /\ syncs'[w] = syncs[w] /\ Local(w)
  <2>1. UNCHANGED <<cliVars, cmd, syncs, uevent>>
    BY DEF ConnectionEof, ConnectionError
  <2> QED BY <1>1, <1>2, <1>3, <2>1 DEF Types, cliVars, ClientKept, Local
<1> USE DEF ClientKept
<1>5. TypedAt(w)'
  BY <1>1, <1>3, <1>4 DEF TypedAt, WC!ProcStates
<1>6. Beginnings(w)'
  BY <1>1, <1>2, <1>3, <1>4 DEF Sound, Beginnings
<1>7. ToWorker(w)'
  BY <1>1, <1>2, <1>3, <1>4 DEF Sound, ToWorker
<1>8. ToProxy(w)'
  BY <1>1, <1>2, <1>3, <1>4 DEF Sound, ToProxy, WC!Alive
<1>9. Machine(w)' /\ Replies(w)'
  BY <1>1, <1>2, <1>3, <1>4 DEF Sound, Machine, Replies
<1> QED BY <1>4, <1>5, <1>6, <1>7, <1>8, <1>9, LocalStep DEF Sound

\* A crash between the two writes of the export.
LEMMA TornCrashInd ==
  ASSUME IndInv, NEW w \in Workers, HandlerRuns(w), kind[w] = "scan", cmd[w].st = "EXE_SCHED",
         cmd[w].prev \in {"INI", "STG_WAIT"}, WC!WorkerCrash(w, WC!TornMsg("SYNC")),
         syncs' = [syncs EXCEPT ![w][cmd[w].stage] = "sent"],
         UNCHANGED <<cliVars, conn, cmd, uevent>>
  PROVE  IndInv'
<1>1. TypedAt(w) /\ Sound(w) /\ Types
  BY Typing DEF IndInv
<1>2. /\ proc' = [proc EXCEPT ![w] = "zombie"] /\ toWrk' = toWrk
      /\ toPrx' = [toPrx EXCEPT ![w] = WC!Put(toPrx[w], WC!TornMsg("SYNC"))]
  BY DEF WC!WorkerCrash
<1>3. /\ toWrk'[w] = <<>> /\ toPrx'[w] = TornLane /\ proc'[w] = "zombie" /\ ClientKept(w)
      /\ cmd'[w] = cmd[w] /\ conn'[w] = conn[w] /\ uevent'[w] = uevent[w]
  BY <1>1, <1>2, HandlerFacts, PutFacts DEF Types, cliVars, ClientKept
<1>4. /\ syncs' = [syncs EXCEPT ![w] = syncs'[w]]
      /\ syncs'[w] \in [1..2 -> Dealt \cup {"none", "sent"}]
      /\ \A i \in {1, 2} : i /= cmd[w].stage => syncs'[w][i] = syncs[w][i]
  BY <1>1, HandlerFacts DEF Types
<1>5. Local(w)
  BY <1>1, <1>2, <1>3, <1>4 DEF Types, cliVars, Local
<1>6. kind[w] = "scan" /\ cmd[w].stage = 1 => cmd[w].res
  BY <1>1, HandlerFacts DEF Sound, Replies
<1> USE DEF ClientKept
<1>7. TypedAt(w)'
  BY <1>1, <1>3, <1>4 DEF TypedAt, WrkLanes, PrxLanes, WC!ProcStates
<1>8. Beginnings(w)'
  BY <1>1, <1>3, HandlerFacts DEF Sound, Beginnings
<1>9. ToWorker(w)' /\ ToProxy(w)'
  BY <1>3, WrkLaneFacts, PrxLaneFacts DEF ToWorker, ToProxy, WC!Alive
<1>10. Machine(w)'
  BY <1>1, <1>3, HandlerFacts DEF Sound, Machine
<1>11. Replies(w)'
  BY <1>1, <1>3, <1>4, <1>6, HandlerFacts DEF Sound, Machine, Replies
<1> QED BY <1>5, <1>7, <1>8, <1>9, <1>10, <1>11, LocalStep DEF Sound

\* The client sends its request, reads its reply or goes; udev answers it.
LEMMA ClientNextInd ==
  ASSUME IndInv, NEW w \in Workers, ClientNext(w)
  PROVE  IndInv'
<1>1. TypedAt(w) /\ Sound(w) /\ Types
  BY Typing DEF IndInv
<1>2. UNCHANGED <<wcVars, kind, conn, cmd, syncs>>
  BY DEF ClientNext, ClientSend, ClientRead, ClientEof, ClientLeave, UdevEvent, cliVars
<1>3. /\ toWrk'[w] = toWrk[w] /\ toPrx'[w] = toPrx[w] /\ proc'[w] = proc[w] /\ kind'[w] = kind[w]
      /\ cmd'[w] = cmd[w] /\ conn'[w] = conn[w] /\ syncs'[w] = syncs[w]
  BY <1>2 DEF wcVars
<1>4. \/ /\ client[w] = "connected" /\ client'[w] = "waiting" /\ req'[w] = "sent"
         /\ reply'[w] = reply[w] /\ uevent'[w] = uevent[w]
      \/ /\ client[w] = "waiting" /\ reply[w] = "sent" /\ client'[w] = "done" /\ reply'[w] = "read"
         /\ req'[w] = req[w] /\ uevent'[w] = uevent[w]
      \/ /\ client[w] \in {"connected", "waiting"} /\ client'[w] \in {"failed", "left"}
         /\ req'[w] = req[w] /\ reply'[w] = reply[w] /\ uevent'[w] = uevent[w]
      \/ /\ kind[w] = "scan" /\ client[w] = "done" /\ uevent[w] = "none" /\ uevent'[w] = "pending"
         /\ client'[w] = client[w] /\ req'[w] = req[w] /\ reply'[w] = reply[w]
  BY <1>1 DEF ClientNext, ClientSend, ClientRead, ClientEof, ClientLeave, UdevEvent, cliVars, Types
<1>5. Local(w)
  BY <1>1, <1>2 DEF ClientNext, ClientSend, ClientRead, ClientEof, ClientLeave, UdevEvent, cliVars,
                    wcVars, Types, Local
<1>6. TypedAt(w)'
  BY <1>1, <1>3, <1>4 DEF TypedAt
<1>7. Beginnings(w)'
  BY <1>1, <1>3, <1>4 DEF Sound, Beginnings
<1>8. ToWorker(w)'
  <2>1. toWrk[w] = UdevLane => uevent'[w] = uevent[w]
    BY <1>1, <1>4 DEF Sound, ToWorker
  <2> QED BY <1>1, <1>3, <2>1 DEF Sound, ToWorker
<1>9. ToProxy(w)'
  BY <1>1, <1>3, <1>4 DEF Sound, ToProxy, WC!Alive
<1>10. Machine(w)'
  <2>1. uevent[w] = "gone" => uevent'[w] = "gone"
    BY <1>4
  <2> QED BY <1>1, <1>3, <2>1 DEF Sound, Machine
<1>11. Replies(w)'
  <2>1. uevent'[w] = "pending" /\ uevent[w] = "none" =>
           /\ cmd[w].stage = 1 /\ cmd[w].st \in {"STG_WAIT", "TIM_OUT", "ERR"} /\ toWrk[w] = <<>>
           /\ kind[w] = "scan" /\ client[w] = "done"
    <3> SUFFICES ASSUME uevent'[w] = "pending", uevent[w] = "none"
                 PROVE  /\ cmd[w].stage = 1 /\ cmd[w].st \in {"STG_WAIT", "TIM_OUT", "ERR"}
                        /\ toWrk[w] = <<>> /\ kind[w] = "scan" /\ client[w] = "done"
      OBVIOUS
    <3>1. kind[w] = "scan" /\ client[w] = "done"
      BY <1>4
    <3>2. reply[w] = "read" /\ cmd[w].st /= "UNDEFINED" /\ ~cmd[w].res
      BY <1>1, <3>1 DEF Sound, Beginnings, Replies
    <3>3. cmd[w].stage = 1
      BY <1>1, <3>2 DEF Sound, Machine
    <3>4. cmd[w].st \in {"STG_WAIT", "TIM_OUT", "ERR"}
      BY <1>1, <3>1, <3>2, <3>3 DEF Sound, Replies, Machine
    <3>5. toWrk[w] = <<>>
      BY <1>1, <3>1, <3>4 DEF Sound, ToWorker, Beginnings, TypedAt, WrkLanes
    <3> QED BY <3>1, <3>3, <3>4, <3>5
  <2> QED BY <1>1, <1>3, <1>4, <2>1 DEF Sound, Replies
<1> QED BY <1>5, <1>6, <1>7, <1>8, <1>9, <1>10, <1>11, LocalStep DEF Sound

-----------------------------------------------------------------------------
(***************************************************************************)
(* The invariant.                                                          *)
(***************************************************************************)
\* At the start there are no workers, and every lane is empty.
LEMMA InitInd == Init => IndInv
<1> SUFFICES ASSUME Init PROVE IndInv
  OBVIOUS
<1> USE DEF Init, WC!Init
<1>1. NoCmd \in CmdType
  BY DEF NoCmd, CmdType, CmdStates
<1>2. Types
  BY <1>1 DEF Types, AllKinds, WC!ProcStates, WrkLanes, PrxLanes, Dealt
<1>3. ASSUME NEW w \in Workers PROVE Sound(w)
  <2>1. /\ kind[w] = "none" /\ client[w] = "none" /\ req[w] = "unsent" /\ reply[w] = "none"
        /\ conn[w] = "none" /\ uevent[w] = "none" /\ proc[w] = "none" /\ toWrk[w] = <<>>
        /\ toPrx[w] = <<>>
    OBVIOUS
  <2>2. /\ cmd[w].st = "UNDEFINED" /\ cmd[w].stage = 0 /\ cmd[w].armed = 0 /\ ~cmd[w].tmo
        /\ ~cmd[w].res
    BY DEF NoCmd
  <2> QED BY <2>1, <2>2, WrkLaneFacts, PrxLaneFacts
          DEF Sound, Beginnings, ToWorker, ToProxy, Machine, Replies
<1> QED BY <1>2, <1>3 DEF IndInv

\* Every callback keeps the invariant.
LEMMA NextInd ==
  ASSUME IndInv, [Next]_vars
  PROVE  IndInv'
<1>1. CASE UNCHANGED vars
  BY <1>1, NothingMoves DEF vars, wcVars, BridgeVars
<1>2. CASE MainExit \/ UmonitorEventStray
  BY <1>2, MainIndAlone
<1>3. ASSUME NEW w \in Workers, MainNext(w) PROVE IndInv'
  <2>1. CASE ProxyChannelEvent(w)
    BY <2>1, ProxyRecvSyncInd, ProxyRecvResourcesInd, ProxyRecvOtherInd DEF ProxyChannelEvent
  <2>2. CASE ProxyChildEvent(w)
    BY <2>2, ProcessInd DEF ProxyChildEvent, BridgeVars
  <2> QED BY <1>3, <2>1, <2>2, InterfaceEventInd, InterfaceEventFailsInd, CmdDbdumpInd,
             UmonitorEventInd DEF MainNext
<1>4. ASSUME NEW w \in Workers, WorkerNext(w) PROVE IndInv'
  <2>1. CASE WorkerStart(w) \/ WorkerSignal(w) \/ WorkerTerminate(w)
    BY <2>1, ProcessInd DEF WorkerStart, WorkerSignal, WorkerTerminate, BridgeVars
  <2>2. CASE WorkerChannelEvent(w)
    <3>1. CASE WC!WorkerRecvEof(w) /\ UNCHANGED <<ifcEs, umonEs, cliVars, conn, cmd, syncs, uevent>>
      BY <3>1, ProcessInd DEF BridgeVars
    <3> QED BY <2>2, <3>1, RecvClientInd, RecvSelfInd, RecvWakeupInd DEF WorkerChannelEvent
  <2>3. CASE ConnectionEvent(w)
    BY <2>3, ConnectionRequestInd, ConnectionClosedInd DEF ConnectionEvent
  <2>4. CASE CmdHandler(w) \/ CmdTimeout(w)
    BY <2>4, CmdHandlerInd, CmdTimeoutInd
  <2>5. CASE WorkerCrash(w)
    <3>1. CASE WC!WorkerCrash(w, WC!NoMsg) /\ UNCHANGED syncs
      BY <2>5, <3>1, ProcessInd DEF WorkerCrash, BridgeVars
    <3> QED BY <2>5, <3>1, TornCrashInd DEF WorkerCrash
  <2> QED BY <1>4, <2>1, <2>2, <2>3, <2>4, <2>5 DEF WorkerNext
<1>5. ASSUME NEW w \in Workers, ClientNext(w) PROVE IndInv'
  BY <1>5, ClientNextInd
<1> QED BY <1>1, <1>2, <1>3, <1>4, <1>5 DEF Next

\* Command and channel move in step (IndInv), in every reachable state.
THEOREM Invariance == Spec => []IndInv
<1>1. Init => IndInv
  BY InitInd
<1>2. IndInv /\ [Next]_vars => IndInv'
  BY NextInd
<1> QED BY <1>1, <1>2, PTL DEF Spec

-----------------------------------------------------------------------------
(***************************************************************************)
(* What follows from it.                                                   *)
(***************************************************************************)

\* By the time the client of a scan sees its reply, the main process has
\* dealt with what the first stage exported (the comment in _cmd_handler).
THEOREM AckedBeforeReply == Spec => []AckBeforeReply
<1>1. IndInv => AckBeforeReply
  BY DEF IndInv, Sound, Replies, AckBeforeReply, Dealt
<1> QED BY <1>1, Invariance, PTL

\* CMD_STATE_FIN: both stages of a scan are dealt with, and the client of any
\* command has its reply.
THEOREM FinAllSent == Spec => []FinMeansAllSent
<1>1. IndInv => FinMeansAllSent
  <2> SUFFICES ASSUME IndInv, NEW w \in Workers, cmd[w].st = "FIN"
               PROVE  /\ kind[w] = "scan" => \A s \in 1..2 : syncs[w][s] \in Dealt
                      /\ kind[w] /= "self" => reply[w] /= "none"
    BY DEF FinMeansAllSent, Dealt
  <2>1. Sound(w)
    BY DEF IndInv
  <2>2. ~cmd[w].res /\ (kind[w] = "scan" => cmd[w].stage = 2 /\ syncs[w][2] \in Dealt)
    BY <2>1 DEF Sound, Machine
  <2>3. kind[w] /= "self" => reply[w] /= "none"
    BY <2>1, <2>2 DEF Sound, Replies
  <2>4. kind[w] = "scan" => syncs[w][1] \in Dealt
    BY <2>1, <2>3 DEF Sound, Replies
  <2> QED BY <2>2, <2>3, <2>4
<1> QED BY <1>1, Invariance, PTL

\* A wakeup finds the command waiting for it: the SID_INTERNAL_ERROR branches
\* of _change_cmd_state and _cmd_handler are dead code.
THEOREM WakeupFound == Spec => []WakeupFindsWaiter
<1>1. IndInv => WakeupFindsWaiter
  <2> SUFFICES ASSUME IndInv, NEW w \in Workers, proc[w] = "running"
               PROVE  /\ HasWakeup(w, "SYNC") => cmd[w].st = "RES_EXPBUF_WAIT_ACK"
                      /\ HasWakeup(w, "RESOURCES") => cmd[w].st = "EXE_WAIT"
                      /\ HasWakeup(w, "UMONITOR") => cmd[w].st \in {"STG_WAIT", "TIM_OUT"}
                      /\ cmd[w].armed > 0 => cmd[w].st \in {"EXE_SCHED", "TIM_OUT"}
                      /\ cmd[w].tmo <=> cmd[w].st = "STG_WAIT"
    BY DEF WakeupFindsWaiter
  <2>1. Sound(w) /\ TypedAt(w)
    BY Typing
  <2>2. ASSUME NEW p, HasWakeup(w, p)
        PROVE  toWrk[w] \in WrkLanes \ {<<>>} /\ toWrk[w][1].data = p
    <3>1. PICK i \in 1..Len(toWrk[w]) : toWrk[w][i].data = p
      BY <2>2 DEF HasWakeup
    <3>2. Len(toWrk[w]) <= 1 /\ toWrk[w] \in WrkLanes
      BY <2>1, WrkLaneFacts DEF TypedAt
    <3>3. Len(toWrk[w]) \in Nat
      BY <3>2 DEF WrkLanes, ClientLane, SelfLane, AckLane, TreeLane, UdevLane
    <3>4. i = 1 /\ toWrk[w] /= <<>>
      BY <3>1, <3>2, <3>3
    <3> QED BY <3>1, <3>2, <3>4
  <2>3. HasWakeup(w, "SYNC") => toWrk[w] = AckLane
    BY <2>2, WrkLaneFacts
  <2>4. HasWakeup(w, "RESOURCES") => toWrk[w] = TreeLane
    BY <2>2, WrkLaneFacts
  <2>5. HasWakeup(w, "UMONITOR") => toWrk[w] = UdevLane
    BY <2>2, WrkLaneFacts
  <2>6. cmd[w].armed > 0 => cmd[w].st \in {"EXE_SCHED", "TIM_OUT"}
    <3> SUFFICES ASSUME cmd[w].armed > 0 PROVE cmd[w].st \in {"EXE_SCHED", "TIM_OUT"}
      OBVIOUS
    <3>1. HandlerRuns(w)
      BY DEF HandlerRuns
    <3> QED BY <3>1, HandlerFacts
  <2>7. cmd[w].tmo <=> cmd[w].st = "STG_WAIT"
    BY <2>1 DEF Sound, Machine
  <2>8. cmd[w].st /= "ERR"
    BY <2>1 DEF Sound, Machine
  <2>9. /\ HasWakeup(w, "SYNC") => cmd[w].st = "RES_EXPBUF_WAIT_ACK"
        /\ HasWakeup(w, "RESOURCES") => cmd[w].st = "EXE_WAIT"
        /\ HasWakeup(w, "UMONITOR") => cmd[w].st \in {"STG_WAIT", "TIM_OUT"}
    BY <2>1, <2>3, <2>4, <2>5, <2>8 DEF Sound, ToWorker
  <2> QED BY <2>6, <2>7, <2>9
<1> QED BY <1>1, Invariance, PTL

\* At most two messages are under way between a worker and its proxy, so
\* neither end ever waits for room in the channel.
THEOREM NoBlocking == Spec => []FewUnderWay
<1>1. IndInv => FewUnderWay
  <2> SUFFICES ASSUME IndInv, NEW w \in Workers PROVE Len(toWrk[w]) + Len(toPrx[w]) <= 2
    BY DEF FewUnderWay
  <2>1. toWrk[w] \in WrkLanes /\ toPrx[w] \in PrxLanes
    BY Typing DEF TypedAt
  <2>2. Len(toWrk[w]) \in 0..1
    BY <2>1 DEF WrkLanes, ClientLane, SelfLane, AckLane, TreeLane, UdevLane
  <2>3. Len(toPrx[w]) \in 0..1
    BY <2>1 DEF PrxLanes, ExportLane, TornLane, AskTreeLane, YieldLane
  <2>4. \A m, n \in 0..1 : m + n <= 2
    OBVIOUS
  <2> QED BY <2>2, <2>3, <2>4, Zenon
<1> QED BY <1>1, Invariance, PTL

\* A command that timed out stays so until its handler fails it, in every
\* step of every process.
THEOREM TimeoutFinal == Spec => TimeoutIsFinal
<1> DEFINE Out(w) == \/ cmd[w].st = "TIM_OUT"
                     \/ cmd[w].st = "EXE_SCHED" /\ cmd[w].prev = "TIM_OUT"
           Stays(w) == \/ cmd'[w].st \in {"TIM_OUT", "ERR"}
                       \/ cmd'[w].st = "EXE_SCHED" /\ cmd'[w].prev = "TIM_OUT"
<1>1. ASSUME IndInv, [Next]_vars, NEW v \in Workers, Out(v)
      PROVE  Stays(v)
  <2>1. TypedAt(v) /\ Sound(v) /\ Types
    BY <1>1, Typing DEF IndInv
  <2>2. CASE cmd'[v] = cmd[v]
    BY <1>1, <2>2
  <2>3. ASSUME NEW w \in Workers, MainNext(w) PROVE UNCHANGED cmd
    BY <2>3 DEF MainNext, InterfaceEvent, InterfaceEventFails, CmdDbdump, UmonitorEvent,
                ProxyChannelEvent, ProxyRecvSync, ProxyRecvResources, ProxyChildEvent
  <2>4. ASSUME NEW w \in Workers, ClientNext(w) PROVE UNCHANGED cmd
    BY <2>4 DEF ClientNext, ClientSend, ClientRead, ClientEof, ClientLeave, UdevEvent
  <2>5. CASE MainExit \/ UmonitorEventStray \/ UNCHANGED vars
    BY <2>2, <2>5 DEF MainExit, UmonitorEventStray, vars
  <2>6. ASSUME NEW w \in Workers, WorkerNext(w) PROVE Stays(v)
    <3>1. CASE UNCHANGED cmd
      BY <2>2, <3>1
    <3>2. CASE RecvSelf(w) \/ RecvWakeup(w)
      <4>1. toWrk[w] /= <<>> /\ (RecvSelf(w) => Head(toWrk[w]) = WC!DataMsg("SELF"))
        BY <3>2 DEF RecvSelf, RecvWakeup
      <4>2. CASE w /= v
        BY <2>1, <2>2, <3>2, <4>2 DEF RecvSelf, RecvWakeup, Types
      <4>3. CASE w = v
        <5>1. ~RecvSelf(v)
          BY <1>1, <2>1, <4>1, <4>3, WrkLaneFacts DEF TypedAt, Sound, ToWorker
        <5>2. cmd[v].st = "TIM_OUT" /\ cmd[v] \in CmdRec
          BY <1>1, <2>1, <4>1, <4>3 DEF Sound, Machine, TypedAt, CmdType, CmdRec, AnyState
        <5>3. cmd' = [cmd EXCEPT ![v] = ChangeState(cmd[v], "EXE_SCHED")]
          BY <3>2, <4>3, <5>1, <5>2 DEF RecvWakeup
        <5>4. cmd'[v] = ChangeState(cmd[v], "EXE_SCHED")
          BY <2>1, <5>3 DEF Types
        <5>5. \A c \in CmdRec : /\ ChangeState(c, "EXE_SCHED").st = "EXE_SCHED"
                              /\ ChangeState(c, "EXE_SCHED").prev = c.st
          BY DEF CmdRec, AnyState, CmdStates, ChangeState
        <5> QED BY <5>2, <5>4, <5>5
      <4> QED BY <4>2, <4>3
    <3>3. CASE ConnectionRequest(w)
      <4>1. CASE w /= v
        BY <2>1, <2>2, <3>3, <4>1 DEF ConnectionRequest, Types
      <4>2. CASE w = v
        BY <1>1, <2>1, <3>3, <4>2 DEF ConnectionRequest, Sound, Beginnings
      <4> QED BY <4>1, <4>2
    <3>4. CASE CmdTimeout(w)
      <4>1. CASE w /= v
        BY <2>1, <2>2, <3>4, <4>1 DEF CmdTimeout, Types
      <4>2. CASE w = v
        BY <1>1, <2>1, <3>4, <4>2 DEF CmdTimeout, Sound, Machine
      <4> QED BY <4>1, <4>2
    <3>5. CASE CmdHandler(w)
      <4>1. CASE w /= v
        <5>1. cmd' = [cmd EXCEPT ![w] = cmd'[w]]
          BY <2>1, <3>5 DEF CmdHandler, CmdExec, CmdAcked, CmdUnexpected, CmdReply, CmdAskMain, CmdFail,
                            Types
        <5> QED BY <2>1, <2>2, <4>1, <5>1 DEF Types
      <4>2. CASE w = v
        <5>1. CmdFail(v) /\ HandlerRuns(v)
          BY <1>1, <3>5, <4>2 DEF CmdHandler, CmdExec, CmdAcked, CmdUnexpected
        <5>2. cmd'[v] = ChangeState(Fired(v), "ERR")
          BY <2>1, <5>1 DEF CmdFail, Types
        <5> QED BY <1>1, <5>1, <5>2, HandlerMoves
      <4> QED BY <4>1, <4>2
    <3>6. \/ UNCHANGED cmd
          \/ RecvSelf(w) \/ RecvWakeup(w) \/ ConnectionRequest(w) \/ CmdTimeout(w) \/ CmdHandler(w)
      BY <2>6 DEF WorkerNext, WorkerStart, WorkerChannelEvent, RecvClient, ConnectionEvent,
                  ConnectionEof, ConnectionError, WorkerSignal, WorkerTerminate, WorkerCrash
    <3> QED BY <3>1, <3>2, <3>3, <3>4, <3>5, <3>6
  <2> QED BY <1>1, <2>2, <2>3, <2>4, <2>5, <2>6 DEF Next
<1>2. IndInv /\ [Next]_vars =>
        [\A w \in Workers :
           cmd[w].st = "TIM_OUT" \/ (cmd[w].st = "EXE_SCHED" /\ cmd[w].prev = "TIM_OUT") =>
              \/ cmd'[w].st \in {"TIM_OUT", "ERR"}
              \/ cmd'[w].st = "EXE_SCHED" /\ cmd'[w].prev = "TIM_OUT"]_vars
  BY <1>1
<1> QED BY <1>2, Invariance, PTL DEF Spec, TimeoutIsFinal

-----------------------------------------------------------------------------
(***************************************************************************)
(* The bridge and the worker control.                                      *)
(***************************************************************************)

\* The messages of the bridge are messages of the worker control.
LEMMA BridgeMessages ==
  ASSUME NEW p \in Payloads
  PROVE  /\ WC!DataMsg(p) \in WC!DataMsgs /\ WC!DataExtMsg(p) \in WC!DataMsgs
         /\ WC!TornMsg(p) \in WC!TornMsgs
BY DEF WC!DataMsgs, WC!TornMsgs

\* Every callback of the bridge is a callback of the worker control that
\* sends the bridge's message, or leaves the worker control alone.
LEMMA StepSimulates ==
  ASSUME [Next]_vars
  PROVE  [WC!Next]_WC!vars
<1> DEFINE Goal == WC!Next \/ UNCHANGED WC!vars
<1>0. wcVars = WC!vars /\ wcVars' = WC!vars'
  BY DEF wcVars, WC!vars
<1>1. /\ {WC!DataMsg("SELF"), WC!DataMsg("SYNC"), WC!DataMsg("UMONITOR"), WC!DataMsg("RESOURCES"),
          WC!DataExtMsg("CLIENT"), WC!DataExtMsg("SYNC"), WC!DataExtMsg("RESOURCES")}
            \subseteq WC!DataMsgs
      /\ WC!TornMsg("SYNC") \in WC!TornMsgs
  BY BridgeMessages DEF Payloads
<1>2. CASE UNCHANGED vars
  BY <1>0, <1>2 DEF vars
<1>3. CASE MainExit \/ UmonitorEventStray
  BY <1>0, <1>3 DEF MainExit, UmonitorEventStray, WC!Next
<1>4. ASSUME NEW w \in Workers, MainNext(w) PROVE Goal
  <2>1. CASE InterfaceEvent(w) \/ CmdDbdump(w)
    BY <1>1, <2>1 DEF InterfaceEvent, CmdDbdump, WC!Next, WC!ProxyNext
  <2>2. CASE InterfaceEventFails(w)
    BY <1>0, <2>2 DEF InterfaceEventFails, WC!Next, WC!ProxyNext
  <2>3. CASE UmonitorEvent(w)
    BY <1>0, <1>1, <2>3 DEF UmonitorEvent, WC!Next, WC!ProxyNext
  <2>4. CASE ProxyChannelEvent(w)
    BY <1>1, <2>4 DEF ProxyChannelEvent, ProxyRecvSync, ProxyRecvResources, WC!Next, WC!ProxyNext,
                      WC!ProxyChannelEvent
  <2>5. CASE ProxyChildEvent(w)
    BY <2>5 DEF ProxyChildEvent, WC!Next, WC!ProxyNext
  <2> QED BY <1>4, <2>1, <2>2, <2>3, <2>4, <2>5 DEF MainNext
<1>5. ASSUME NEW w \in Workers, NEW m \in WC!DataMsgs \cup {WC!YieldMsg, WC!NoMsg}, NEW ok \in BOOLEAN,
             WC!WorkerEvent(w, m, ok)
      PROVE  Goal
  BY <1>5 DEF WC!Next, WC!WorkerNext
<1>6. ASSUME NEW w \in Workers, CmdFail(w) PROVE Goal
  BY <1>5, <1>6 DEF CmdFail
<1>7. ASSUME NEW w \in Workers, CmdReply(w) PROVE Goal
  <2>1. CASE CanReply(w)
    <3>1. PICK n : WC!WorkerEvent(w, IF n = "FIN" THEN WC!YieldMsg ELSE WC!NoMsg, TRUE)
      BY <1>7, <2>1 DEF CmdReply
    <3> QED BY <1>5, <3>1
  <2>2. CASE ~CanReply(w)
    BY <1>6, <1>7, <2>2 DEF CmdReply
  <2> QED BY <2>1, <2>2
<1>8. ASSUME NEW w \in Workers, NEW m \in WC!DataMsgs, NEW s, CmdAskMain(w, m, s) PROVE Goal
  BY <1>5, <1>6, <1>8 DEF CmdAskMain
<1>9. ASSUME NEW w \in Workers, WorkerNext(w) PROVE Goal
  <2>1. CASE WorkerStart(w)
    BY <2>1 DEF WorkerStart, WC!Next, WC!WorkerNext
  <2>2. CASE WorkerSignal(w) \/ WorkerTerminate(w)
    BY <2>2 DEF WorkerSignal, WorkerTerminate, WC!Next, WC!WorkerNext
  <2>3. CASE WorkerChannelEvent(w)
    BY <2>3 DEF WorkerChannelEvent, RecvClient, RecvSelf, RecvWakeup, WC!Next, WC!WorkerNext
  <2>4. CASE ConnectionEvent(w)
    <3>1. CASE ConnectionRequest(w)
      <4> DEFINE ok == kind[w] /= "newer"
      <4>1. ok \in BOOLEAN /\ WC!WorkerEvent(w, WC!NoMsg, ok)
        BY <3>1 DEF ConnectionRequest
      <4> HIDE DEF ok
      <4> QED BY <1>5, <4>1
    <3>2. CASE ConnectionError(w)
      BY <1>5, <3>2 DEF ConnectionError
    <3>3. CASE ConnectionEof(w)
      BY <1>0, <3>3 DEF ConnectionEof
    <3> QED BY <2>4, <3>1, <3>2, <3>3 DEF ConnectionEvent
  <2>5. CASE CmdTimeout(w)
    BY <1>0, <2>5 DEF CmdTimeout
  <2>6. CASE CmdHandler(w)
    BY <1>1, <1>6, <1>7, <1>8, <2>6 DEF CmdHandler, CmdExec, CmdAcked, CmdUnexpected
  <2>7. CASE WorkerCrash(w)
    BY <1>1, <2>7 DEF WorkerCrash, WC!Next, WC!WorkerNext
  <2> QED BY <1>9, <2>1, <2>2, <2>3, <2>4, <2>5, <2>6, <2>7 DEF WorkerNext
<1>10. ASSUME NEW w \in Workers, ClientNext(w) PROVE Goal
  BY <1>0, <1>10 DEF ClientNext, ClientSend, ClientRead, ClientEof, ClientLeave, UdevEvent
<1> QED BY <1>2, <1>3, <1>4, <1>9, <1>10 DEF Next

\* The bridge uses the worker control as WorkerControl allows: what is proved
\* of WorkerControl holds of the bridge.
THEOREM Refinement == Spec => RefinesWorkerControl
<1>1. Init => WC!Init
  BY DEF Init
<1>2. [Next]_vars => [WC!Next]_WC!vars
  BY StepSimulates
<1> QED BY <1>1, <1>2, PTL DEF Spec, RefinesWorkerControl, WC!Spec
=============================================================================
