----------------------------- MODULE ScanProofs -----------------------------
(***************************************************************************)
(* The properties of Scan for any devices, any events and any number of    *)
(* scans, when the first state of a new device can be written.             *)
(*                                                                         *)
(* The argument follows one scan: what the environment of the event put    *)
(* into the record of the device is there until A_PRE (or REMOVE_INIT) has *)
(* used it, a device that is known has a ready and a reserved state, and   *)
(* what the context knows of them is what the store holds, but for a state *)
(* whose write may fail.                                                   *)
(***************************************************************************)
EXTENDS Scan, TLAPS

ReadyStates == {"undefined", "unprocessed", "unconfigured", "uninitialized", "private", "flat",
                "unavailable", "public"}
ReservedStates == {"undefined", "unprocessed", "free"}

RecordType == [alias : BOOLEAN, ready : ReadyStates, reserved : ReservedStates,
               udevCookie : [valid : BOOLEAN, cookie : [id : Nat, flags : SUBSET Flags]],
               base : Nat, flags : SUBSET Flags, suspended : BOOLEAN,
               uuid : {"unset", "lvm", "other"}, sub : {"unset", "none", "lvm"},
               fstype : {"none", "LVM2_member", "crypto_LUKS"}, next : BOOLEAN]

StageOnePhases == {"A_INIT", "A_PRE", "A_CURRENT", "A_NEXT", "A_POST_CURRENT", "A_POST_NEXT",
                   "A_EXIT", "REMOVE_INIT", "REMOVE_CURRENT", "REMOVE_EXIT", "stage_wait"}
StageTwoPhases == {"B_INIT", "B_ACTION_CURRENT", "B_ACTION_NEXT", "B_EXIT", "fin"}
Phases == StageOnePhases \cup StageTwoPhases \cup {"ERROR", "idle", "failed"}

ScanType == [stage : 0..2, phase : Phases, erred : BOOLEAN, ready : ReadyStates,
             reserved : ReservedStates, cur : BOOLEAN, nxt : BOOLEAN, iter : BOOLEAN]

EvType == [dev : Devices, id : Nat, action : {"add", "change", "remove"}, cookie : {"no", "bad", "yes"},
           flags : SUBSET Flags, synth : BOOLEAN, suspended : BOOLEAN, uuid : {"lvm", "other"}]

Types ==
  /\ main \in [Devices -> RecordType]
  /\ db \in [Devices -> RecordType]
  /\ scan \in ScanType
  /\ scan.phase # "idle" => ev \in EvType
  /\ dm \in [cur : {"none", "lvm"}, next : {"none", "lvm"}]
  /\ scans \in 0..MaxScans
  /\ sem \in [1..MaxScans -> 0..1]

\* A record: the devices that are known are the ones with a ready and a reserved state.
Coherent(rec) ==
  /\ rec.alias <=> rec.ready # "undefined"
  /\ rec.alias => rec.reserved # "undefined"

\* What the main process holds never includes a cookie.
MainStore == \A d \in Devices : Coherent(main[d]) /\ main[d].udevCookie.cookie.id = 0

\* The phases before the cookie has been looked at.
Early == {"A_INIT", "REMOVE_INIT", "A_PRE"}

\* The phases belong to their stages.
Staged ==
  /\ scan.phase = "idle" => scan.stage = 0
  /\ scan.phase \in StageOnePhases => scan.stage = 1
  /\ scan.phase \in StageTwoPhases => scan.stage = 2
  /\ scan.phase = "ERROR" => scan.stage \in {1, 2}
  /\ scan.phase \in {"REMOVE_INIT", "REMOVE_CURRENT", "REMOVE_EXIT"} => ev.action = "remove"

\* lvm is, or has to be, the submodule of the device when its record is rec.
ClaimedBy(rec) == rec.sub = "lvm" \/ (ev.uuid = "lvm" /\ main[ev.dev].sub = "unset")

\* A scan begins with an empty context and comes to know its device.
Context ==
  /\ scan.phase \in {"A_INIT", "REMOVE_INIT"} =>
       /\ scan.ready = "undefined" /\ scan.reserved = "undefined" /\ dm.cur = "none"
       /\ Rec.sub = main[ev.dev].sub
  /\ scan.phase \notin {"A_INIT", "REMOVE_INIT", "idle", "failed"} =>
       Rec.alias /\ (ev.dev \in DmDevices <=> scan.cur)
  /\ scan.phase = "A_PRE" /\ ev.dev \in DmDevices =>
       Rec.suspended = ev.suspended /\ (ClaimedBy(Rec) => dm.cur = "lvm")
  /\ scan.phase \in Looking /\ ev.dev \in DmDevices => scan.ready # "undefined"

\* What the context knows of the device's states.
Cached ==
  Running => /\ scan.ready \in {"undefined", Rec.ready} \cup LostWrites
             /\ scan.reserved \in {"undefined", Rec.reserved} \cup LostWrites

\* Where the cookie of the event is.
Cookie ==
  scan.phase # "idle" =>
    /\ ev.id \in 1..MaxScans /\ ev.id = scans
    /\ ev.cookie # "yes" => ~HasCookie(Rec)
    /\ ev.cookie = "yes" /\ scan.phase \in Early =>
         /\ Rec.udevCookie.valid
         /\ Rec.udevCookie.cookie.id = ev.id /\ Rec.udevCookie.cookie.flags = ev.flags
    /\ ev.cookie = "yes" /\ ev.dev \in DmDevices /\ scan.phase \notin Early \cup {"failed"} =>
         /\ Rec.base = ev.id
         /\ scan.stage = 2 /\ scan.phase \notin {"B_INIT", "B_ACTION_CURRENT"} => sem[ev.id] = 0

\* A device without an active table stays so in the first stage until an event says that it
\* has one.
Unconfigured ==
  scan.stage = 1 /\ scan.phase \notin {"stage_wait", "failed"}
  /\ ~Activates /\ main[ev.dev].ready = "unconfigured" =>
    Rec.ready = "unconfigured" /\ scan.ready \in {"undefined", "unconfigured"}

IndInv ==
  /\ "unprocessed" \notin LostWrites
  /\ Types /\ MainStore /\ Staged /\ Context /\ Cookie /\ Unconfigured
  /\ scan.phase # "idle" => Coherent(Rec)
  /\ Cached /\ ScannedIsProcessed /\ ClaimedHeldBack

\* The first state of a device is always written.
LEMMA NoLoss ==
  ASSUME IndInv
  PROVE  Losses({"unprocessed"}) = {{}}
  BY DEF IndInv, Losses

-----------------------------------------------------------------------------
(***************************************************************************)
(* The functions of the ready state.                                       *)
(***************************************************************************)

\* What the store and the context hold of a state, as the functions of the ready state see it.
View == [stored : ReadyStates, cache : ReadyStates, r : {-1, 0, 1}, lost : SUBSET LostWrites]

\* What reading the state comes to.
Known(v) == IF v.cache = "undefined" THEN v.stored ELSE v.cache

\* _do_sid_ucmd_dev_get_ready: the cache is filled from the store.
LEMMA GetStateView ==
  ASSUME NEW v \in View
  PROVE  /\ GetState(v) \in View
         /\ GetState(v).stored = v.stored /\ GetState(v).r = v.r
         /\ GetState(v).cache = Known(v)
  BY DEF GetState, View, Known

\* _do_sid_ucmd_dev_set_ready: the state is set in both places, in the context alone or
\* in none.
LEMMA SetReadyView ==
  ASSUME NEW v \in View, NEW p \in CapRdy, NEW new \in ReadyStates
  PROVE  /\ SetReady(v, p, new) \in View
         /\ \/ /\ new = v.cache \/ ReadyMayBecome(v.cache, new)
               /\ SetReady(v, p, new).r >= 0
               /\ SetReady(v, p, new).cache = new
               /\ SetReady(v, p, new).stored = IF new = v.cache \/ new \in v.lost THEN v.stored ELSE new
            \/ /\ ~(new = v.cache \/ ReadyMayBecome(v.cache, new))
               /\ SetReady(v, p, new).r = -1
               /\ SetReady(v, p, new).cache = v.cache
               /\ SetReady(v, p, new).stored = v.stored
<1>1. CASE ~(new = v.cache \/ ReadyMayBecome(v.cache, new))
  BY <1>1 DEF SetReady, SetState, View
<1>2. CASE new = v.cache
  BY <1>2 DEF SetReady, SetState, View
<1>3. CASE new # v.cache /\ ReadyMayBecome(v.cache, new) /\ new \notin v.lost
  <2>1. SetReady(v, p, new) = [v EXCEPT !.stored = new, !.cache = new, !.r = 0]
    BY <1>3 DEF SetReady, SetState
  <2>2. \A n \in ReadyStates : [v EXCEPT !.stored = n, !.cache = n, !.r = 0] \in View
    BY DEF View
  <2>3. /\ SetReady(v, p, new).r = 0 /\ SetReady(v, p, new).cache = new
        /\ SetReady(v, p, new).stored = new
    BY <2>1 DEF View
  <2>4. SetReady(v, p, new) \in View
    BY <2>1, <2>2
  <2>5. SetReady(v, p, new).r >= 0
    BY <2>3
  <2> QED BY ONLY <1>3, <2>3, <2>4, <2>5
<1>4. CASE new # v.cache /\ ReadyMayBecome(v.cache, new) /\ new \in v.lost
  <2>1. SetReady(v, p, new) = [v EXCEPT !.cache = new, !.r = 1]
    BY <1>4 DEF SetReady, SetState
  <2>2. \A n \in ReadyStates : [v EXCEPT !.cache = n, !.r = 1] \in View
    BY DEF View
  <2>3. /\ SetReady(v, p, new).r = 1 /\ SetReady(v, p, new).cache = new
        /\ SetReady(v, p, new).stored = v.stored
    BY <2>1 DEF View
  <2>4. SetReady(v, p, new) \in View
    BY <2>1, <2>2
  <2>5. SetReady(v, p, new).r >= 0
    BY <2>3
  <2> QED BY ONLY <1>4, <2>3, <2>4, <2>5
<1> QED BY <1>1, <1>2, <1>3, <1>4

\* The device has a state, and the context holds it, or one that could not be written, or
\* nothing.
Settled(v) == v.stored # "undefined" /\ v.cache \in {"undefined", v.stored} \cup LostWrites

\* Reading a settled state leaves it settled, and known to the context.
LEMMA GetStateSettled ==
  ASSUME NEW v \in View, Settled(v)
  PROVE  /\ GetState(v) \in View /\ Settled(GetState(v))
         /\ GetState(v).stored = v.stored /\ GetState(v).cache = Known(v) /\ GetState(v).r = v.r
         /\ Known(v) # "undefined"
  BY GetStateView DEF Settled, Known

\* Setting a settled state leaves it settled; it fails and changes nothing, or the state
\* the context knows is the new one.
LEMMA SetReadySettled ==
  ASSUME NEW v \in View, Settled(v), NEW p \in CapRdy, NEW new \in ReadyStates \ {"undefined"}
  PROVE  /\ SetReady(v, p, new) \in View /\ Settled(SetReady(v, p, new))
         /\ \/ /\ SetReady(v, p, new).r >= 0
               /\ SetReady(v, p, new).cache = new
            \/ /\ SetReady(v, p, new).r = -1
               /\ SetReady(v, p, new).stored = v.stored /\ SetReady(v, p, new).cache = v.cache
               /\ ~(new = v.cache \/ ReadyMayBecome(v.cache, new))
  BY SetReadyView DEF Settled, View

\* What dm decides by the flags of a cookie is a state of an active device.
LEMMA ReadyByFlagsType == \A F : ReadyByFlags(F) \in {"private", "flat", "public"}
  BY DEF ReadyByFlags

\* _dm_scan_pre's switch: the state stays settled and is known afterwards, and an
\* unconfigured device that is not suspended stays unconfigured by an event without a cookie.
LEMMA DmScanPreStateSettled ==
  ASSUME NEW v \in View, Settled(v), NEW rec \in RecordType
  PROVE  /\ DmScanPreState(v, rec) \in View /\ Settled(DmScanPreState(v, rec))
         /\ DmScanPreState(v, rec).cache # "undefined"
         /\ Known(v) = "unconfigured" /\ ~HasCookie(rec) /\ ~rec.suspended
              => /\ DmScanPreState(v, rec).stored = v.stored
                 /\ DmScanPreState(v, rec).cache = "unconfigured"
<1> DEFINE w == GetState(v)
           u == SetReady(w, "A_PRE", "unconfigured")
<1>1. w \in View /\ Settled(w) /\ w.stored = v.stored /\ w.cache = Known(v) /\ w.cache # "undefined"
  BY GetStateSettled
<1>2. "A_PRE" \in CapRdy
  BY DEF CapRdy
<1>3. u \in View /\ Settled(u) /\ u.cache # "undefined"
  BY <1>1, <1>2, SetReadySettled DEF ReadyStates
<1>4. \A s \in ReadyStates \ {"undefined"} :
        /\ SetReady(w, "A_PRE", s) \in View /\ Settled(SetReady(w, "A_PRE", s))
        /\ SetReady(w, "A_PRE", s).cache # "undefined"
  BY <1>1, <1>2, SetReadySettled
<1>5. \A s \in ReadyStates \ {"undefined"} :
        /\ SetReady(u, "A_PRE", s) \in View /\ Settled(SetReady(u, "A_PRE", s))
        /\ SetReady(u, "A_PRE", s).cache # "undefined"
  BY <1>3, <1>2, SetReadySettled
<1>6. ReadyByFlags(rec.flags) \in ReadyStates \ {"undefined"}
  BY ReadyByFlagsType DEF ReadyStates
<1>8. /\ "public" \in ReadyStates \ {"undefined"} /\ "unavailable" \in ReadyStates \ {"undefined"}
  BY DEF ReadyStates
<1>9. DmScanPreState(v, rec) =
        IF rec.suspended THEN SetReady(w, "A_PRE", "unavailable")
        ELSE IF w.cache = "undefined" THEN [w EXCEPT !.r = -1]
        ELSE IF w.cache = "unprocessed"
             THEN IF HasCookie(rec)
                  THEN IF u.r < 0 THEN u ELSE SetReady(u, "A_PRE", ReadyByFlags(rec.flags))
                  ELSE IF ev.synth THEN SetReady(w, "A_PRE", "public")
                  ELSE IF ev.action = "add" THEN u
                  ELSE w
        ELSE IF w.cache \in {"unconfigured"} \cup Activated /\ HasCookie(rec)
             THEN SetReady(w, "A_PRE", ReadyByFlags(rec.flags))
        ELSE w
  BY DEF DmScanPreState
<1> HIDE DEF w, u
<1>10. DmScanPreState(v, rec) \in View /\ Settled(DmScanPreState(v, rec))
       /\ DmScanPreState(v, rec).cache # "undefined"
  BY <1>1, <1>3, <1>4, <1>5, <1>6, <1>8, <1>9, Zenon
<1>11. ASSUME Known(v) = "unconfigured", ~HasCookie(rec), ~rec.suspended
       PROVE  DmScanPreState(v, rec).stored = v.stored /\ DmScanPreState(v, rec).cache = "unconfigured"
  <2>1. w.cache = "unconfigured" /\ w.cache # "undefined" /\ w.cache # "unprocessed"
    BY <1>1, <1>11
  <2>2. DmScanPreState(v, rec) = w
    BY <2>1, <1>9, <1>11, Zenon
  <2> QED BY <2>1, <2>2, <1>1, <1>11
<1> QED BY <1>10, <1>11

\* _lvm_scan_pre: it makes only held back what is usable, or usable what it held back.
LEMMA LvmScanPreSettled ==
  ASSUME NEW v \in View, Settled(v), NEW rec \in RecordType
  PROVE  /\ LvmScanPre(v, rec) \in View /\ Settled(LvmScanPre(v, rec))
         /\ LvmScanPre(v, rec).cache # "undefined"
         /\ Known(v) \notin {"public", "private", "uninitialized"}
              => LvmScanPre(v, rec).stored = v.stored /\ LvmScanPre(v, rec).cache = Known(v)
         /\ "noscan" \in rec.flags => LvmScanPre(v, rec).cache \notin {"public", "private"}
<1> DEFINE w == GetState(v)
           held == SetReady(w, "A_PRE", "uninitialized")
           free == SetReady(w, "A_PRE", "public")
<1>1. w \in View /\ Settled(w) /\ w.stored = v.stored /\ w.cache = Known(v) /\ w.cache # "undefined"
  BY GetStateSettled
<1>2. "A_PRE" \in CapRdy
  BY DEF CapRdy
<1>3. /\ held \in View /\ Settled(held) /\ held.cache # "undefined"
      /\ free \in View /\ Settled(free) /\ free.cache # "undefined"
  BY <1>1, <1>2, SetReadySettled DEF ReadyStates
<1>4. w.cache \in {"public", "private"} => held.cache = "uninitialized"
  <2>1. w.cache \in {"public", "private"} => ReadyMayBecome(w.cache, "uninitialized")
    BY DEF ReadyMayBecome
  <2> QED BY <2>1, <1>1, <1>2, SetReadySettled DEF ReadyStates
<1>5. LvmScanPre(v, rec) =
        IF w.cache \in {"public", "private"} /\ "noscan" \in rec.flags THEN held
        ELSE IF w.cache = "uninitialized" /\ "noscan" \notin rec.flags THEN free
        ELSE w
  BY DEF LvmScanPre
<1> HIDE DEF w, held, free
<1> QED BY <1>1, <1>3, <1>4, <1>5

\* _dm_scan_pre, with its submodule: the state stays settled, and is known unless the phase
\* fails; an unconfigured device that is not suspended stays so but for a genuine change
\* event with a cookie; a logical volume marked NOSCAN does not come out usable unless the
\* phase fails.
LEMMA DmScanPreSettled ==
  ASSUME NEW v \in View, Settled(v), NEW rec \in RecordType,
         NEW m
  PROVE  /\ DmScanPre(v, rec, m) \in View /\ Settled(DmScanPre(v, rec, m))
         /\ DmScanPre(v, rec, m).r >= 0 => DmScanPre(v, rec, m).cache # "undefined"
         /\ Known(v) = "unconfigured" /\ ~rec.suspended
            /\ (ev.synth \/ ev.action # "change" \/ ~HasCookie(rec))
              => /\ DmScanPre(v, rec, m).stored = v.stored
                 /\ DmScanPre(v, rec, m).cache \in {"undefined", "unconfigured"}
         /\ m.cur = "lvm" /\ "noscan" \in rec.flags /\ DmScanPre(v, rec, m).r >= 0
              => DmScanPre(v, rec, m).cache \notin {"public", "private"}
<1> DEFINE w == DmScanPreState(v, rec)
           x == [v EXCEPT !.r = -1]
           y == [GetState(v) EXCEPT !.r = -1]
           z == LvmScanPre(w, rec)
<1>1. /\ x \in View /\ Settled(x) /\ x.r = -1 /\ x.stored = v.stored
      /\ Known(v) = "unconfigured" => x.cache \in {"undefined", "unconfigured"}
  BY DEF View, Settled, Known
<1>2. y \in View /\ Settled(y) /\ y.r = -1 /\ y.stored = v.stored /\ y.cache = Known(v)
  <2>1. GetState(v) \in View /\ Settled(GetState(v)) /\ GetState(v).stored = v.stored /\ GetState(v).cache = Known(v)
    BY GetStateSettled
  <2>2. \A u \in View : Settled(u) => /\ [u EXCEPT !.r = -1] \in View /\ Settled([u EXCEPT !.r = -1])
                                      /\ [u EXCEPT !.r = -1].r = -1 /\ [u EXCEPT !.r = -1].stored = u.stored
                                      /\ [u EXCEPT !.r = -1].cache = u.cache
    BY DEF View, Settled
  <2> QED BY <2>1, <2>2, Zenon
<1>3. /\ w \in View /\ Settled(w) /\ w.cache # "undefined"
      /\ Known(v) = "unconfigured" /\ ~HasCookie(rec) /\ ~rec.suspended
           => w.stored = v.stored /\ w.cache = "unconfigured"
  BY DmScanPreStateSettled
<1>4. Known(w) = w.cache
  BY <1>3 DEF Known
<1>5. /\ z \in View /\ Settled(z) /\ z.cache # "undefined"
      /\ w.cache \notin {"public", "private", "uninitialized"} => z.stored = w.stored /\ z.cache = w.cache
      /\ "noscan" \in rec.flags => z.cache \notin {"public", "private"}
  BY <1>3, <1>4, LvmScanPreSettled
<1>6. DmScanPre(v, rec, m) = IF ~rec.udevCookie.valid THEN x
                             ELSE IF CookieMismatch(rec) THEN y
                             ELSE IF w.r < 0 \/ m.cur # "lvm" THEN w ELSE z
  BY DEF DmScanPre
<1>7. w.r \in {-1, 0, 1}
  BY <1>3 DEF View
<1>8. (ev.synth \/ ev.action # "change" \/ ~HasCookie(rec)) => CookieMismatch(rec) \/ ~HasCookie(rec)
  BY DEF CookieMismatch
<1> HIDE DEF w, x, y, z
<1> QED BY <1>1, <1>2, <1>3, <1>5, <1>6, <1>7, <1>8

-----------------------------------------------------------------------------
(***************************************************************************)
(* The end of a phase.                                                     *)
(***************************************************************************)

\* _cmd_exec_scan: where each phase leads to.
LEMMA AfterPhaseTable ==
  ASSUME NEW r \in {-1, 0, 1}
  PROVE  /\ AfterPhase("A_INIT", r) = IF r >= 0 THEN "A_PRE" ELSE "failed"
         /\ AfterPhase("A_PRE", r) = IF r >= 0 THEN "A_CURRENT" ELSE "ERROR"
         /\ AfterPhase("A_CURRENT", r) = IF r >= 0 THEN "A_NEXT" ELSE "ERROR"
         /\ AfterPhase("A_NEXT", r) = IF r >= 0 THEN "A_POST_CURRENT" ELSE "ERROR"
         /\ AfterPhase("A_POST_CURRENT", r) = IF r >= 0 THEN "A_POST_NEXT" ELSE "ERROR"
         /\ AfterPhase("A_POST_NEXT", r) = IF r >= 0 THEN "A_EXIT" ELSE "ERROR"
         /\ AfterPhase("A_EXIT", r) = IF r >= 0 \/ scan.erred THEN "stage_wait" ELSE "failed"
         /\ AfterPhase("REMOVE_INIT", r) = IF r >= 0 THEN "REMOVE_CURRENT" ELSE "failed"
         /\ AfterPhase("REMOVE_CURRENT", r) = IF r >= 0 THEN "REMOVE_EXIT" ELSE "ERROR"
         /\ AfterPhase("REMOVE_EXIT", r) = IF r >= 0 \/ scan.erred THEN "stage_wait" ELSE "failed"
         /\ AfterPhase("B_INIT", r) = IF r >= 0 THEN "B_ACTION_CURRENT" ELSE "failed"
         /\ AfterPhase("B_ACTION_CURRENT", r) = IF r >= 0 THEN "B_ACTION_NEXT" ELSE "ERROR"
         /\ AfterPhase("B_ACTION_NEXT", r) = IF r >= 0 THEN "B_EXIT" ELSE "ERROR"
         /\ AfterPhase("B_EXIT", r) = IF r >= 0 \/ scan.erred THEN "fin" ELSE "failed"
  BY DEF AfterPhase, Following, InitPhases, ExitPhases

\* What goes into the main store is a record without a cookie.
LEMMA SyncedRecord ==
  ASSUME NEW rec \in RecordType
  PROVE  /\ Synced(rec) \in RecordType
         /\ Synced(rec).udevCookie.cookie.id = 0
         /\ Synced(rec).ready = rec.ready /\ Synced(rec).reserved = rec.reserved
         /\ Synced(rec).suspended = rec.suspended /\ Synced(rec).sub = rec.sub
         /\ Synced(rec).alias = rec.alias
<1> DEFINE c == [valid |-> TRUE, cookie |-> NoCookie]
           n == 0
<1>1. NoRecord.udevCookie = c /\ NoRecord.base = n
  BY DEF NoRecord
<1>2. c \in [valid : BOOLEAN, cookie : [id : Nat, flags : SUBSET Flags]] /\ c.cookie.id = 0 /\ n \in Nat
  BY DEF NoCookie
<1>3. Synced(rec) = [rec EXCEPT !.udevCookie = c, !.base = n]
  BY <1>1 DEF Synced
<1> HIDE DEF c, n
<1>4. /\ Synced(rec).udevCookie = c /\ Synced(rec).base = n
      /\ Synced(rec).ready = rec.ready /\ Synced(rec).reserved = rec.reserved
      /\ Synced(rec).suspended = rec.suspended /\ Synced(rec).sub = rec.sub
      /\ Synced(rec).alias = rec.alias
  BY <1>3 DEF RecordType
<1>5. Synced(rec) \in RecordType
  BY <1>2, <1>3 DEF RecordType
<1> QED BY <1>2, <1>4, <1>5

\* What the end of a phase does when q comes next: the record of the device is the one the
\* phase left, with the ready state it left, and so is the context; the end of stage 1 may
\* put the record into the main store.
Effect(q, rec, v, ctx) ==
  /\ ev' = ev /\ scans' = scans
  /\ db' \in [Devices -> RecordType] /\ main' \in [Devices -> RecordType]
  /\ Rec' \in RecordType
  /\ Rec'.ready = v.stored /\ Rec'.alias = rec.alias /\ Rec'.reserved = rec.reserved
  /\ Rec'.udevCookie = rec.udevCookie /\ Rec'.base = rec.base
  /\ Rec'.suspended = rec.suspended /\ Rec'.sub = rec.sub
  /\ scan' \in ScanType
  /\ scan'.phase = q /\ scan'.ready = v.cache
  /\ scan'.stage = ctx.stage /\ scan'.reserved = ctx.reserved /\ scan'.cur = ctx.cur
  /\ \A d \in Devices : \/ main'[d] = main[d]
                        \/ d = ev.dev /\ main'[d] = Synced(Rec') /\ q = "stage_wait"

\* EndPhase has that effect.
LEMMA EndPhaseEffect ==
  ASSUME Types, ev \in EvType,
         NEW p, NEW r, NEW q \in Phases, q = AfterPhase(p, r),
         NEW rec \in RecordType, NEW v \in View, NEW ctx \in ScanType,
         EndPhase(p, r, rec, v, ctx)
  PROVE  Effect(q, rec, v, ctx)
<1> DEFINE new == [rec EXCEPT !.ready = v.stored]
<1>1. /\ new \in RecordType
      /\ new.ready = v.stored /\ new.alias = rec.alias /\ new.reserved = rec.reserved
      /\ new.udevCookie = rec.udevCookie /\ new.base = rec.base
      /\ new.suspended = rec.suspended /\ new.sub = rec.sub
  BY DEF RecordType, View
<1>2. ev.dev \in Devices /\ main \in [Devices -> RecordType] /\ db \in [Devices -> RecordType]
  BY DEF Types, EvType
<1>3. ev' = ev /\ scans' = scans
  BY DEF EndPhase
<1>4. db' = [db EXCEPT ![ev.dev] = new]
  BY DEF EndPhase
<1> HIDE DEF new
<1>5. db' \in [Devices -> RecordType] /\ Rec' = new
  BY <1>1, <1>2, <1>3, <1>4 DEF Rec
<1>6. /\ scan' \in ScanType /\ scan'.phase = AfterPhase(p, r) /\ scan'.ready = v.cache
      /\ scan'.stage = ctx.stage /\ scan'.reserved = ctx.reserved /\ scan'.cur = ctx.cur
  <2>1. scan' = [ctx EXCEPT !.phase = AfterPhase(p, r), !.ready = v.cache]
    BY DEF EndPhase
  <2>2. \A ph \in Phases : [ctx EXCEPT !.phase = ph, !.ready = v.cache] \in ScanType
    BY DEF ScanType, View
  <2> QED BY <2>1, <2>2 DEF ScanType
<1>7. /\ main' \in [Devices -> RecordType]
      /\ \A d \in Devices :
           \/ main'[d] = main[d]
           \/ d = ev.dev /\ main'[d] = Synced(Rec') /\ AfterPhase(p, r) = "stage_wait"
  <2>1. Synced(new) \in RecordType
    BY <1>1, SyncedRecord
  <2>2. \/ main' = main
        \/ AfterPhase(p, r) = "stage_wait" /\ main' = [main EXCEPT ![ev.dev] = Synced(new)]
    BY <1>3, <1>5 DEF EndPhase, Rec
  <2> QED BY <2>1, <2>2, <1>2, <1>5
<1> QED BY <1>1, <1>3, <1>5, <1>6, <1>7 DEF Effect

\* A step of the main store, as ConfiguredByCookie means it.
ConfiguredStep ==
  \A d \in Devices : main[d].ready = "unconfigured" /\ main'[d].ready # "unconfigured"
                       => d = ev.dev /\ Activates

\* What a phase must leave behind when phase q comes next: a coherent record and a settled
\* state, and what the next phase takes for granted.
Leaves(q, rec, v, ctx) ==
  /\ q \in Phases \ {"idle", "A_INIT", "REMOVE_INIT", "B_INIT"}
  /\ \/ ctx.stage = 1 /\ q \in StageOnePhases
     \/ ctx.stage = 2 /\ q \in StageTwoPhases
     \/ ctx.stage \in {1, 2} /\ q = "ERROR"
     \/ q = "failed"
  /\ ctx.stage = scan.stage
  /\ q \in {"REMOVE_CURRENT", "REMOVE_EXIT"} => ev.action = "remove"
  /\ rec.alias /\ rec.udevCookie = Rec.udevCookie /\ rec.reserved # "undefined"
  /\ Settled(v) /\ ctx.reserved \in {"undefined", rec.reserved} \cup LostWrites
  /\ q # "failed" => (ev.dev \in DmDevices <=> ctx.cur)
  /\ q = "A_PRE" => scan.phase \in Early
  /\ q = "A_PRE" /\ ev.dev \in DmDevices =>
       rec.suspended = ev.suspended /\ (ClaimedBy(rec) => dm'.cur = "lvm")
  /\ ev.cookie = "yes" /\ ev.dev \in DmDevices /\ q \notin Early \cup {"failed"} =>
       /\ rec.base = ev.id
       /\ scan.stage = 2 /\ q # "B_ACTION_CURRENT" => sem'[ev.id] = 0
  /\ scan.stage = 1 /\ main[ev.dev].ready = "unconfigured" /\ ~Activates =>
       v.stored = "unconfigured" /\ v.cache \in {"undefined", "unconfigured"}
  /\ (q = "stage_wait" \/ scan.stage = 2) /\ ev.action # "remove" =>
       /\ v.cache \notin {"undefined", "unprocessed"}
       /\ ctx.reserved \notin {"undefined", "unprocessed"}
  /\ q \in Looking /\ ev.dev \in DmDevices => v.cache # "undefined"
  /\ q \in Looking /\ ev.dev \in DmDevices /\ ClaimedBy(rec)
     /\ ev.cookie = "yes" /\ "noscan" \in ev.flags =>
       v.cache \notin {"public", "private"}
  /\ dm' \in [cur : {"none", "lvm"}, next : {"none", "lvm"}]
  /\ sem' \in [1..MaxScans -> 0..1]

\* A phase that does so keeps the invariant.
LEMMA PhaseKeeps ==
  ASSUME IndInv, scan.phase # "idle",
         NEW p, NEW r, NEW q, q = AfterPhase(p, r),
         NEW rec \in RecordType, NEW v \in View, NEW ctx \in ScanType,
         EndPhase(p, r, rec, v, ctx),
         Leaves(q, rec, v, ctx)
  PROVE  IndInv' /\ ConfiguredStep
<1>0. Types /\ ev \in EvType
  BY DEF IndInv, Types
<1>a. q \in Phases
  BY DEF Leaves
<1>b. Effect(q, rec, v, ctx)
  BY <1>0, <1>a, EndPhaseEffect
<1>1. /\ ev' = ev /\ scans' = scans
      /\ db' \in [Devices -> RecordType] /\ main' \in [Devices -> RecordType]
      /\ Rec' \in RecordType
      /\ Rec'.ready = v.stored /\ Rec'.alias = rec.alias /\ Rec'.reserved = rec.reserved
      /\ Rec'.udevCookie = rec.udevCookie /\ Rec'.base = rec.base
      /\ Rec'.suspended = rec.suspended /\ Rec'.sub = rec.sub
      /\ scan' \in ScanType
      /\ scan'.phase = q /\ scan'.ready = v.cache
      /\ scan'.stage = ctx.stage /\ scan'.reserved = ctx.reserved /\ scan'.cur = ctx.cur
      /\ \A d \in Devices :
           \/ main'[d] = main[d]
           \/ d = ev.dev /\ main'[d] = Synced(Rec') /\ q = "stage_wait"
  BY <1>b DEF Effect
<1>2. ev.dev \in Devices /\ Rec' = db'[ev.dev] /\ Rec = db[ev.dev]
  BY <1>0, <1>1 DEF EvType, Rec
<1>3. Types'
  BY <1>0, <1>1 DEF Types, Leaves
<1>4. Coherent(Rec')
  BY <1>1 DEF Coherent, Settled, Leaves
<1>5. MainStore'
  <2>1. /\ Synced(Rec').udevCookie.cookie.id = 0
        /\ Synced(Rec').ready = Rec'.ready /\ Synced(Rec').reserved = Rec'.reserved
        /\ Synced(Rec').alias = Rec'.alias /\ Synced(Rec').sub = Rec'.sub
    BY <1>1, SyncedRecord
  <2>2. Coherent(Synced(Rec'))
    BY <2>1, <1>4 DEF Coherent
  <2>3. \A d \in Devices : Coherent(main[d]) /\ main[d].udevCookie.cookie.id = 0
    BY DEF IndInv, MainStore
  <2>4. ASSUME NEW d \in Devices
        PROVE  Coherent(main'[d]) /\ main'[d].udevCookie.cookie.id = 0
    BY <2>1, <2>2, <2>3, <1>1
  <2> QED BY <2>4 DEF MainStore, Coherent
<1>6. Staged'
  BY <1>1, <1>0 DEF Staged, StageOnePhases, StageTwoPhases, Leaves
<1>c. /\ q # "stage_wait" => (ClaimedBy(Rec)' <=> ClaimedBy(rec)) /\ (Claimed' <=> ClaimedBy(rec))
      /\ Activates' = Activates
  BY <1>1, <1>2 DEF ClaimedBy, Claimed, Activates
<1>7. Context'
  <2>1. q \notin {"A_INIT", "REMOVE_INIT", "idle"} /\ (q = "A_PRE" => q # "stage_wait")
    BY DEF Leaves
  <2> QED BY <2>1, <1>1, <1>2, <1>c DEF Context, Leaves
<1>8. Cookie'
  <2>1. /\ ev.id \in 1..MaxScans /\ ev.id = scans
        /\ ev.cookie # "yes" => ~HasCookie(Rec)
        /\ ev.cookie = "yes" /\ scan.phase \in Early =>
             /\ Rec.udevCookie.valid
             /\ Rec.udevCookie.cookie.id = ev.id /\ Rec.udevCookie.cookie.flags = ev.flags
    BY DEF IndInv, Cookie
  <2>2. ev.cookie # "yes" => ~HasCookie(Rec')
    BY <2>1, <1>1 DEF HasCookie, Leaves
  <2>3. ev.cookie = "yes" /\ q \in Early =>
          /\ Rec'.udevCookie.valid
          /\ Rec'.udevCookie.cookie.id = ev.id /\ Rec'.udevCookie.cookie.flags = ev.flags
    BY <2>1, <1>1 DEF Early, Leaves
  <2> QED BY <2>1, <2>2, <2>3, <1>1 DEF Cookie, Early, HasCookie, Rec, Leaves
<1>9. Unconfigured' /\ ConfiguredStep
  <2>1. Synced(Rec').ready = Rec'.ready /\ Synced(Rec').suspended = Rec'.suspended
    BY <1>1, SyncedRecord
  <2>2. ConfiguredStep
    <3>1. q = "stage_wait" => scan.stage = 1
      BY DEF Leaves, StageTwoPhases
    <3> QED BY <2>1, <3>1, <1>1 DEF ConfiguredStep, Leaves
  <2>3. ASSUME scan'.stage = 1, scan'.phase \notin {"stage_wait", "failed"}, ~Activates',
               main'[ev'.dev].ready = "unconfigured"
        PROVE  Rec'.ready = "unconfigured" /\ scan'.ready \in {"undefined", "unconfigured"}
    <3>1. q \notin {"stage_wait", "failed"} /\ ~Activates /\ scan.stage = 1
      BY <2>3, <1>1, <1>c DEF Leaves
    <3>2. main[ev.dev].ready = "unconfigured"
      BY <2>3, <3>1, <1>1, <1>2
    <3> QED BY <3>1, <3>2, <1>1 DEF Leaves
  <2>4. Unconfigured'
    BY <2>3 DEF Unconfigured
  <2> QED BY <2>2, <2>4
<1>10. Cached'
  BY <1>1, <1>2 DEF Cached, Settled, Running, Leaves
<1>11. ScannedIsProcessed'
  BY <1>1, <1>2 DEF ScannedIsProcessed, Settled, Leaves
<1>12. ClaimedHeldBack'
  <2>1. q \in Looking => q # "stage_wait"
    BY DEF Looking
  <2> QED BY <2>1, <1>1, <1>2, <1>c DEF ClaimedHeldBack, Leaves
<1> QED BY <1>1, <1>3, <1>4, <1>5, <1>6, <1>7, <1>8, <1>9, <1>10, <1>11, <1>12
        DEF IndInv, Coherent, Rec

\* The phases that neither come to know the device nor settle its state.
QuietPhases == {"A_CURRENT", "A_NEXT", "A_POST_CURRENT", "A_POST_NEXT", "REMOVE_CURRENT",
                "REMOVE_EXIT", "B_INIT", "B_ACTION_CURRENT", "B_ACTION_NEXT", "B_EXIT"}

\* Where a quiet phase leads to.
LEMMA QuietFollows ==
  ASSUME IndInv, scan.phase \in QuietPhases, NEW r \in {-1, 0, 1},
         NEW q, q = AfterPhase(scan.phase, r)
  PROVE  /\ q \in Phases \ {"idle", "A_INIT", "REMOVE_INIT", "B_INIT", "A_PRE"}
         /\ \/ scan.stage = 1 /\ q \in StageOnePhases
            \/ scan.stage = 2 /\ q \in StageTwoPhases
            \/ q = "ERROR" /\ scan.stage \in {1, 2}
            \/ q = "failed"
         /\ q \in {"REMOVE_CURRENT", "REMOVE_EXIT"} => ev.action = "remove"
         /\ q = "stage_wait" => ev.action = "remove"
         /\ q \in Looking => scan.phase \in Looking
         /\ q = "B_ACTION_CURRENT" => scan.phase = "B_INIT"
         /\ scan.phase = "B_INIT" /\ q # "B_ACTION_CURRENT" => q = "failed"
<1>1. Staged
  BY DEF IndInv
<1> USE <1>1 DEF Staged, StageOnePhases, StageTwoPhases, Phases, Looking
<1>2. CASE scan.phase = "A_CURRENT"          BY <1>2, AfterPhaseTable
<1>3. CASE scan.phase = "A_NEXT"             BY <1>3, AfterPhaseTable
<1>4. CASE scan.phase = "A_POST_CURRENT"     BY <1>4, AfterPhaseTable
<1>5. CASE scan.phase = "A_POST_NEXT"        BY <1>5, AfterPhaseTable
<1>6. CASE scan.phase = "REMOVE_CURRENT"     BY <1>6, AfterPhaseTable
<1>7. CASE scan.phase = "REMOVE_EXIT"        BY <1>7, AfterPhaseTable
<1>8. CASE scan.phase = "B_INIT"             BY <1>8, AfterPhaseTable
<1>9. CASE scan.phase = "B_ACTION_CURRENT"   BY <1>9, AfterPhaseTable
<1>10. CASE scan.phase = "B_ACTION_NEXT"     BY <1>10, AfterPhaseTable
<1>11. CASE scan.phase = "B_EXIT"            BY <1>11, AfterPhaseTable
<1> QED BY <1>2, <1>3, <1>4, <1>5, <1>6, <1>7, <1>8, <1>9, <1>10, <1>11 DEF QuietPhases

\* A running scan knows its device: its record is coherent, its state settled.
LEMMA KnownDevice ==
  ASSUME IndInv, scan.phase \notin {"idle", "failed", "A_INIT", "REMOVE_INIT", "fin"}
  PROVE  /\ ev \in EvType /\ ev.dev \in Devices /\ Rec \in RecordType /\ scan \in ScanType
         /\ Rec.alias /\ Rec.reserved # "undefined"
         /\ \A lost \in SUBSET LostWrites :
              /\ ReadyView(lost) \in View /\ Settled(ReadyView(lost))
              /\ ReadyView(lost).stored = Rec.ready /\ ReadyView(lost).cache = scan.ready
              /\ ReadyView(lost).r = 0
         /\ scan.reserved \in {"undefined", Rec.reserved} \cup LostWrites
         /\ ev.dev \in DmDevices <=> scan.cur
<1>1. ev \in EvType /\ scan \in ScanType /\ db \in [Devices -> RecordType]
  BY DEF IndInv, Types
<1>2. ev.dev \in Devices /\ Rec \in RecordType
  BY <1>1 DEF EvType, Rec
<1>3. /\ Rec.alias /\ Rec.ready # "undefined" /\ Rec.reserved # "undefined"
      /\ ev.dev \in DmDevices <=> scan.cur
  BY DEF IndInv, Context, Coherent
<1>4. /\ scan.ready \in {"undefined", Rec.ready} \cup LostWrites
      /\ scan.reserved \in {"undefined", Rec.reserved} \cup LostWrites
  BY DEF IndInv, Cached, Running, Over
<1>5. Rec.ready \in ReadyStates /\ scan.ready \in ReadyStates
  BY <1>1, <1>2 DEF RecordType, ScanType
<1>6. \A lost : ReadyView(lost) = [stored |-> Rec.ready, cache |-> scan.ready, r |-> 0, lost |-> lost]
  BY DEF ReadyView, Rec
<1> QED BY <1>1, <1>2, <1>3, <1>4, <1>5, <1>6 DEF View, Settled

\* A quiet phase keeps the invariant.
LEMMA QuietKeeps ==
  ASSUME IndInv, scan.phase \in QuietPhases,
         NEW r \in {-1, 0, 1}, NEW rec \in RecordType, NEW v \in View, NEW ctx \in ScanType,
         EndPhase(scan.phase, r, rec, v, ctx),
         rec.alias = Rec.alias, rec.udevCookie = Rec.udevCookie, rec.reserved = Rec.reserved,
         rec.sub = Rec.sub, rec.base = Rec.base, rec.suspended = Rec.suspended,
         v.stored = Rec.ready, Settled(v),
         v.cache = scan.ready \/ (scan.ready = "undefined" /\ v.cache = Rec.ready),
         ctx.stage = scan.stage, ctx.reserved = scan.reserved, ctx.cur = scan.cur,
         dm' \in [cur : {"none", "lvm"}, next : {"none", "lvm"}],
         sem' \in [1..MaxScans -> 0..1],
         ev.cookie = "yes" /\ ev.dev \in DmDevices /\ scan.stage = 2 /\ scan.phase # "B_INIT" =>
           sem'[ev.id] = 0
  PROVE  IndInv' /\ ConfiguredStep
<1> DEFINE q == AfterPhase(scan.phase, r)
<1>1. /\ q \in Phases \ {"idle", "A_INIT", "REMOVE_INIT", "B_INIT", "A_PRE"}
      /\ \/ scan.stage = 1 /\ q \in StageOnePhases
         \/ scan.stage = 2 /\ q \in StageTwoPhases
         \/ q = "ERROR" /\ scan.stage \in {1, 2}
         \/ q = "failed"
      /\ q \in {"REMOVE_CURRENT", "REMOVE_EXIT"} => ev.action = "remove"
      /\ q = "stage_wait" => ev.action = "remove"
      /\ q \in Looking => scan.phase \in Looking
      /\ q = "B_ACTION_CURRENT" => scan.phase = "B_INIT"
      /\ scan.phase = "B_INIT" /\ q # "B_ACTION_CURRENT" => q = "failed"
  BY QuietFollows
<1>2. q = AfterPhase(scan.phase, r)
  OBVIOUS
<1> HIDE DEF q
<1>3. scan.phase \notin {"idle", "failed", "A_INIT", "REMOVE_INIT", "fin", "A_PRE", "A_EXIT"}
  BY DEF QuietPhases
<1>4. /\ Rec.alias /\ Rec.reserved # "undefined"
      /\ scan.reserved \in {"undefined", Rec.reserved} \cup LostWrites
      /\ ev.dev \in DmDevices <=> scan.cur
  BY <1>3, KnownDevice
<1>5. ev.cookie = "yes" /\ ev.dev \in DmDevices => Rec.base = ev.id
  BY <1>3 DEF IndInv, Cookie, Early
<1>6. scan.stage = 1 /\ main[ev.dev].ready = "unconfigured" /\ ~Activates =>
        Rec.ready = "unconfigured" /\ v.cache \in {"undefined", "unconfigured"}
  <2>1. scan.phase # "stage_wait"
    BY DEF QuietPhases
  <2> QED BY <1>3, <2>1 DEF IndInv, Unconfigured
<1>7. scan.stage = 2 /\ ev.action # "remove" =>
        /\ v.cache \notin {"undefined", "unprocessed"}
        /\ scan.reserved \notin {"undefined", "unprocessed"}
  BY DEF IndInv, ScannedIsProcessed
<1>b. scan.phase \in Looking /\ ev.dev \in DmDevices => v.cache # "undefined" /\ v.cache = scan.ready
  BY DEF IndInv, Context
<1>8. scan.phase \in Looking /\ ev.dev \in DmDevices /\ ClaimedBy(rec)
      /\ ev.cookie = "yes" /\ "noscan" \in ev.flags
        => v.cache \notin {"public", "private"}
  BY <1>b DEF IndInv, ClaimedHeldBack, Claimed, ClaimedBy, Rec
<1>9. Leaves(q, rec, v, ctx)
  BY <1>1, <1>3, <1>4, <1>5, <1>6, <1>7, <1>b, <1>8 DEF Leaves
<1> QED BY <1>2, <1>3, <1>9, PhaseKeeps

-----------------------------------------------------------------------------
(***************************************************************************)
(* The phases.                                                             *)
(***************************************************************************)

\* Phases whose handlers only look: A_POST_CURRENT, A_POST_NEXT, REMOVE_CURRENT, REMOVE_EXIT,
\* B_INIT, B_ACTION_NEXT, B_EXIT.
LEMMA LookingOnly ==
  ASSUME IndInv
  PROVE  /\ APostCurrent \/ APostNext => IndInv' /\ ConfiguredStep
         /\ RemoveCurrent \/ RemoveExit => IndInv' /\ ConfiguredStep
         /\ BInit \/ BActionNext \/ BExit => IndInv' /\ ConfiguredStep
<1>1. /\ dm \in [cur : {"none", "lvm"}, next : {"none", "lvm"}]
      /\ sem \in [1..MaxScans -> 0..1]
  BY DEF IndInv, Types
<1>2. ASSUME scan.phase \in QuietPhases \ {"B_ACTION_CURRENT"}, NEW r \in {-1, 0, 1},
             NEW v \in {ReadyView({}), GetState(ReadyView({}))}, NEW ctx \in ScanType,
             EndPhase(scan.phase, r, Rec, v, ctx),
             ctx.stage = scan.stage, ctx.reserved = scan.reserved, ctx.cur = scan.cur,
             dm' = dm, sem' = sem
      PROVE  IndInv' /\ ConfiguredStep
  <2>1. scan.phase \notin {"idle", "failed", "A_INIT", "REMOVE_INIT", "fin", "A_PRE"}
    BY <1>2 DEF QuietPhases
  <2>2. /\ Rec \in RecordType /\ ReadyView({}) \in View /\ Settled(ReadyView({}))
        /\ ReadyView({}).stored = Rec.ready /\ ReadyView({}).cache = scan.ready
    BY <2>1, KnownDevice
  <2>3. /\ v \in View /\ Settled(v) /\ v.stored = Rec.ready
        /\ v.cache = scan.ready \/ (scan.ready = "undefined" /\ v.cache = Rec.ready)
    BY <1>2, <2>2, GetStateSettled DEF Known
  <2>4. ev.cookie = "yes" /\ ev.dev \in DmDevices /\ scan.stage = 2 /\ scan.phase # "B_INIT"
          => sem'[ev.id] = 0
    BY <1>2, <2>1 DEF IndInv, Cookie, Early
  <2> QED BY <1>1, <1>2, <2>2, <2>3, <2>4, QuietKeeps
<1>3. scan \in ScanType
  BY DEF IndInv, Types
<1>4. APostCurrent => IndInv' /\ ConfiguredStep
  BY <1>2, <1>3 DEF APostCurrent, APost, QuietPhases
<1>5. APostNext => IndInv' /\ ConfiguredStep
  BY <1>2, <1>3 DEF APostNext, APost, QuietPhases
<1>6. RemoveCurrent => IndInv' /\ ConfiguredStep
  BY <1>2, <1>3 DEF RemoveCurrent, QuietPhases
<1>7. RemoveExit => IndInv' /\ ConfiguredStep
  BY <1>2, <1>3 DEF RemoveExit, PlainPhase, QuietPhases
<1>8. BInit => IndInv' /\ ConfiguredStep
  BY <1>2, <1>3 DEF BInit, PlainPhase, QuietPhases
<1>9. BActionNext => IndInv' /\ ConfiguredStep
  BY <1>2, <1>3 DEF BActionNext, QuietPhases
<1>10. BExit => IndInv' /\ ConfiguredStep
  <2> SUFFICES ASSUME BExit PROVE IndInv' /\ ConfiguredStep
    OBVIOUS
  <2> DEFINE ctx == [scan EXCEPT !.iter = FALSE]
  <2>1. \A b \in BOOLEAN : LET c == [scan EXCEPT !.iter = b]
                           IN c \in ScanType /\ c.stage = scan.stage /\ c.reserved = scan.reserved
                              /\ c.cur = scan.cur
    BY <1>3 DEF ScanType
  <2>2. ctx \in ScanType /\ ctx.stage = scan.stage /\ ctx.reserved = scan.reserved /\ ctx.cur = scan.cur
    BY <2>1, Zenon
  <2>3. scan.phase = "B_EXIT" /\ EndPhase("B_EXIT", 0, Rec, ReadyView({}), ctx) /\ dm' = dm /\ sem' = sem
    BY DEF BExit
  <2> HIDE DEF ctx
  <2> QED BY <1>2, <2>2, <2>3 DEF QuietPhases
<1> QED BY <1>4, <1>5, <1>6, <1>7, <1>8, <1>9, <1>10

\* _cmd_exec_scan_a_next: what blkid and lvm find changes nothing the invariant is about.
LEMMA ANextKeeps ==
  ASSUME IndInv, ANext
  PROVE  IndInv' /\ ConfiguredStep
<1>1. scan.phase = "A_NEXT" /\ sem' = sem
  BY DEF ANext
<1>2. /\ Rec \in RecordType /\ ReadyView({}) \in View /\ Settled(ReadyView({}))
      /\ ReadyView({}).stored = Rec.ready /\ ReadyView({}).cache = scan.ready
      /\ scan \in ScanType
  BY <1>1, KnownDevice
<1> DEFINE v == GetState(ReadyView({}))
<1>3. /\ v \in View /\ Settled(v) /\ v.stored = Rec.ready
      /\ v.cache = scan.ready \/ (scan.ready = "undefined" /\ v.cache = Rec.ready)
  BY <1>2, GetStateSettled DEF Known
<1>4. /\ dm \in [cur : {"none", "lvm"}, next : {"none", "lvm"}]
      /\ sem' \in [1..MaxScans -> 0..1]
      /\ scan.stage # 2
  BY <1>1 DEF IndInv, Types, Staged, StageOnePhases
<1>5. ASSUME NEW r \in {-1, 0, 1}, NEW rec \in RecordType, NEW ctx \in ScanType,
             EndPhase("A_NEXT", r, rec, v, ctx),
             rec.alias = Rec.alias, rec.udevCookie = Rec.udevCookie, rec.reserved = Rec.reserved,
             rec.sub = Rec.sub, rec.base = Rec.base, rec.suspended = Rec.suspended,
             ctx.stage = scan.stage, ctx.reserved = scan.reserved, ctx.cur = scan.cur,
             dm' \in [cur : {"none", "lvm"}, next : {"none", "lvm"}]
      PROVE  IndInv' /\ ConfiguredStep
  <2> HIDE DEF v
  <2>1. scan.phase \in QuietPhases
    BY <1>1 DEF QuietPhases
  <2> QED BY <1>1, <1>3, <1>4, <1>5, <2>1, QuietKeeps
<1>6. CASE EndPhase("A_NEXT", 1, Rec, v, scan) /\ UNCHANGED dm
  BY <1>2, <1>4, <1>5, <1>6
<1>7. ASSUME NEW fs \in {"none", "LVM2_member", "crypto_LUKS"},
             NEW m, m = IF BlkidScanNext(Rec, fs).next THEN DmScanNext(BlkidScanNext(Rec, fs), dm) ELSE dm,
             NEW r \in {-1, 0},
             EndPhase("A_NEXT", r, BlkidScanNext(Rec, fs), v, [scan EXCEPT !.nxt = BlkidScanNext(Rec, fs).next]),
             dm' = m
      PROVE  IndInv' /\ ConfiguredStep
  <2> DEFINE rec == BlkidScanNext(Rec, fs)
             ctx == [scan EXCEPT !.nxt = rec.next]
  <2>1. \A b \in BOOLEAN :
          LET c == [Rec EXCEPT !.fstype = fs, !.next = b]
          IN /\ c \in RecordType /\ c.next \in BOOLEAN
             /\ c.alias = Rec.alias /\ c.udevCookie = Rec.udevCookie /\ c.reserved = Rec.reserved
             /\ c.sub = Rec.sub /\ c.base = Rec.base /\ c.suspended = Rec.suspended
    BY <1>2 DEF RecordType
  <2>2. Rec.next \in BOOLEAN
    BY <1>2 DEF RecordType
  <2>3. /\ rec \in RecordType /\ rec.next \in BOOLEAN
        /\ rec.alias = Rec.alias /\ rec.udevCookie = Rec.udevCookie /\ rec.reserved = Rec.reserved
        /\ rec.sub = Rec.sub /\ rec.base = Rec.base /\ rec.suspended = Rec.suspended
    BY <1>2, <2>1, <2>2, Zenon DEF BlkidScanNext
  <2>4. \A b \in BOOLEAN :
          LET c == [scan EXCEPT !.nxt = b]
          IN c \in ScanType /\ c.stage = scan.stage /\ c.reserved = scan.reserved /\ c.cur = scan.cur
    BY <1>2 DEF ScanType
  <2>5. ctx \in ScanType /\ ctx.stage = scan.stage /\ ctx.reserved = scan.reserved /\ ctx.cur = scan.cur
    BY <2>3, <2>4, Zenon
  <2>6. dm' \in [cur : {"none", "lvm"}, next : {"none", "lvm"}]
    BY <1>4, <1>7 DEF DmScanNext
  <2>7. EndPhase("A_NEXT", r, rec, v, ctx)
    BY <1>7
  <2> HIDE DEF rec, ctx, v
  <2> QED BY <2>3, <2>5, <2>6, <2>7, <1>5
<1>8. CASE \E fs \in {"none", "LVM2_member", "crypto_LUKS"} :
             LET rec == BlkidScanNext(Rec, fs)
                 m == IF rec.next THEN DmScanNext(rec, dm) ELSE dm
             IN \E r \in IF rec.next /\ m.next = "lvm" THEN LvmScanNext ELSE {0} :
                  /\ EndPhase("A_NEXT", r, rec, v, [scan EXCEPT !.nxt = rec.next])
                  /\ dm' = m
  <2>1. PICK fs \in {"none", "LVM2_member", "crypto_LUKS"} :
             LET rec == BlkidScanNext(Rec, fs)
                 m == IF rec.next THEN DmScanNext(rec, dm) ELSE dm
             IN \E r \in IF rec.next /\ m.next = "lvm" THEN LvmScanNext ELSE {0} :
                  /\ EndPhase("A_NEXT", r, rec, v, [scan EXCEPT !.nxt = rec.next])
                  /\ dm' = m
    BY <1>8
  <2> DEFINE rec == BlkidScanNext(Rec, fs)
             m == IF rec.next THEN DmScanNext(rec, dm) ELSE dm
  <2>2. PICK r \in IF rec.next /\ m.next = "lvm" THEN LvmScanNext ELSE {0} :
                  /\ EndPhase("A_NEXT", r, rec, v, [scan EXCEPT !.nxt = rec.next])
                  /\ dm' = m
    BY <2>1
  <2>3. r \in {-1, 0}
    BY <2>2 DEF LvmScanNext
  <2>4. m = IF BlkidScanNext(Rec, fs).next THEN DmScanNext(BlkidScanNext(Rec, fs), dm) ELSE dm
    OBVIOUS
  <2> QED BY <2>2, <2>3, <2>4, <1>7, Zenon
<1>9. \/ EndPhase("A_NEXT", 1, Rec, v, scan) /\ UNCHANGED dm
      \/ \E fs \in {"none", "LVM2_member", "crypto_LUKS"} :
             LET rec == BlkidScanNext(Rec, fs)
                 m == IF rec.next THEN DmScanNext(rec, dm) ELSE dm
             IN \E r \in IF rec.next /\ m.next = "lvm" THEN LvmScanNext ELSE {0} :
                  /\ EndPhase("A_NEXT", r, rec, v, [scan EXCEPT !.nxt = rec.next])
                  /\ dm' = m
  BY Zenon DEF ANext
<1> QED BY <1>6, <1>8, <1>9

\* _dm_scan_action_current: the semaphore of the event's cookie is released, or was gone.
LEMMA BActionCurrentKeeps ==
  ASSUME IndInv, BActionCurrent
  PROVE  IndInv' /\ ConfiguredStep
<1>1. scan.phase = "B_ACTION_CURRENT" /\ scan.phase \in QuietPhases /\ dm' = dm
  BY DEF BActionCurrent, QuietPhases
<1>2. /\ Rec \in RecordType /\ ReadyView({}) \in View /\ Settled(ReadyView({}))
      /\ ReadyView({}).stored = Rec.ready /\ ReadyView({}).cache = scan.ready
      /\ scan \in ScanType
      /\ ev.dev \in DmDevices <=> scan.cur
  BY <1>1, KnownDevice
<1>3. /\ dm \in [cur : {"none", "lvm"}, next : {"none", "lvm"}]
      /\ sem \in [1..MaxScans -> 0..1]
  BY DEF IndInv, Types
<1>4. /\ ev.id \in 1..MaxScans
      /\ ev.cookie = "yes" /\ ev.dev \in DmDevices => Rec.base = ev.id
  BY <1>1 DEF IndInv, Cookie, Early
<1> DEFINE told == scan.cur /\ Rec.base # 0
<1>5. PICK r \in {-1, 0, 1} : EndPhase(scan.phase, r, Rec, ReadyView({}), scan)
  BY <1>1 DEF BActionCurrent
<1>6. sem' = IF told /\ sem[Rec.base] > 0 THEN [sem EXCEPT ![Rec.base] = @ - 1] ELSE sem
  BY DEF BActionCurrent
<1>7. sem' \in [1..MaxScans -> 0..1]
  <2>1. CASE Rec.base \in 1..MaxScans
    <3>1. sem[Rec.base] \in 0..1
      BY <1>3, <2>1
    <3>2. sem[Rec.base] > 0 => sem[Rec.base] - 1 \in 0..1
      BY <3>1
    <3> QED BY <1>3, <1>6, <3>2
  <2>2. CASE Rec.base \notin 1..MaxScans
    <3>1. [sem EXCEPT ![Rec.base] = @ - 1] = sem
      BY <1>3, <2>2
    <3> QED BY <1>3, <1>6, <3>1
  <2> QED BY <2>1, <2>2
<1>8. ev.cookie = "yes" /\ ev.dev \in DmDevices => sem'[ev.id] = 0
  <2> SUFFICES ASSUME ev.cookie = "yes", ev.dev \in DmDevices
               PROVE  sem'[ev.id] = 0
    OBVIOUS
  <2>1. scan.cur /\ Rec.base = ev.id /\ ev.id # 0
    BY <1>2, <1>4
  <2> QED BY <2>1, <1>3, <1>4, <1>6
<1> QED BY <1>1, <1>2, <1>3, <1>5, <1>7, <1>8, QuietKeeps

\* _cmd_exec_scan_a_current: only a device no type module speaks for gets a state here, and
\* only one that has none yet.
LEMMA ACurrentKeeps ==
  ASSUME IndInv, ACurrent
  PROVE  IndInv' /\ ConfiguredStep
<1>1. scan.phase = "A_CURRENT" /\ dm' = dm /\ sem' = sem
  BY DEF ACurrent
<1>2. /\ Rec \in RecordType /\ scan \in ScanType
      /\ \A l \in SUBSET LostWrites :
           /\ ReadyView(l) \in View /\ Settled(ReadyView(l))
           /\ ReadyView(l).stored = Rec.ready /\ ReadyView(l).cache = scan.ready
      /\ Rec.alias /\ Rec.reserved # "undefined"
      /\ scan.reserved \in {"undefined", Rec.reserved} \cup LostWrites
      /\ ev.dev \in DmDevices <=> scan.cur
  BY <1>1, KnownDevice
<1>0. PICK lost \in SUBSET LostWrites :
        LET v == GetState(ReadyView(lost))
            w == IF v.cache = "unprocessed" /\ ~scan.cur THEN SetReady(v, "A_CURRENT", "public") ELSE v
        IN EndPhase("A_CURRENT", w.r, Rec, w, scan)
  BY DEF ACurrent, Losses
<1> DEFINE v == GetState(ReadyView(lost))
           w == IF v.cache = "unprocessed" /\ ~scan.cur THEN SetReady(v, "A_CURRENT", "public") ELSE v
           q == AfterPhase("A_CURRENT", w.r)
<1>3. /\ v \in View /\ Settled(v) /\ v.stored = Rec.ready
      /\ v.cache = IF scan.ready = "undefined" THEN Rec.ready ELSE scan.ready
  BY <1>2, GetStateSettled DEF Known
<1>4. LET s == SetReady(v, "A_CURRENT", "public") IN s \in View /\ Settled(s)
  BY <1>3, SetReadySettled DEF CapRdy, ReadyStates
<1>5. w \in View /\ Settled(w) /\ (scan.cur \/ v.cache # "unprocessed" => w = v)
  BY <1>3, <1>4
<1>6. EndPhase("A_CURRENT", w.r, Rec, w, scan)
  BY <1>0
<1>7. q \in {"A_NEXT", "ERROR"} /\ q = AfterPhase("A_CURRENT", w.r)
  BY <1>5, AfterPhaseTable DEF View
<1> HIDE DEF v, w, q
<1>8. scan.stage = 1 /\ dm' \in [cur : {"none", "lvm"}, next : {"none", "lvm"}] /\ sem' \in [1..MaxScans -> 0..1]
  BY <1>1 DEF IndInv, Types, Staged, StageOnePhases
<1>9. ev.cookie = "yes" /\ ev.dev \in DmDevices => Rec.base = ev.id
  BY <1>1 DEF IndInv, Cookie, Early
<1>10. main[ev.dev].ready = "unconfigured" /\ ~Activates =>
         w.stored = "unconfigured" /\ w.cache \in {"undefined", "unconfigured"}
  BY <1>1, <1>3, <1>5, <1>8 DEF IndInv, Unconfigured
<1>11. ev.dev \in DmDevices => w = v /\ v.cache = scan.ready /\ v.cache # "undefined"
  BY <1>1, <1>2, <1>3, <1>5 DEF IndInv, Context, Looking
<1>12. ev.dev \in DmDevices /\ ClaimedBy(Rec) /\ ev.cookie = "yes" /\ "noscan" \in ev.flags
         => w.cache \notin {"public", "private"}
  BY <1>1, <1>11 DEF IndInv, ClaimedHeldBack, Claimed, ClaimedBy, Looking, Rec
<1>13. Leaves(q, Rec, w, scan)
  BY <1>2, <1>5, <1>7, <1>8, <1>9, <1>10, <1>11, <1>12 DEF Leaves, Phases, StageOnePhases
<1> QED BY <1>1, <1>2, <1>5, <1>6, <1>7, <1>13, PhaseKeeps

\* What _get_cookie_props records.
LEMMA CookieProps ==
  ASSUME NEW rec \in RecordType
  PROVE  /\ GetCookieProps(rec) \in RecordType
         /\ GetCookieProps(rec).alias = rec.alias /\ GetCookieProps(rec).udevCookie = rec.udevCookie
         /\ GetCookieProps(rec).reserved = rec.reserved /\ GetCookieProps(rec).sub = rec.sub
         /\ GetCookieProps(rec).suspended = rec.suspended /\ GetCookieProps(rec).ready = rec.ready
         /\ HasCookie(rec) => /\ GetCookieProps(rec).base = rec.udevCookie.cookie.id
                              /\ GetCookieProps(rec).flags = rec.udevCookie.cookie.flags
<1> DEFINE n == rec.udevCookie.cookie.id
           F == rec.udevCookie.cookie.flags
           a == [rec EXCEPT !.base = n, !.flags = F]
           b == [rec EXCEPT !.flags = {}]
<1>1. n \in Nat /\ F \in SUBSET Flags
  BY DEF RecordType
<1> HIDE DEF n, F
<1>2. /\ a \in RecordType /\ a.alias = rec.alias /\ a.udevCookie = rec.udevCookie
      /\ a.reserved = rec.reserved /\ a.sub = rec.sub /\ a.suspended = rec.suspended
      /\ a.ready = rec.ready /\ a.base = n /\ a.flags = F
  BY <1>1 DEF RecordType
<1>3. /\ b \in RecordType /\ b.alias = rec.alias /\ b.udevCookie = rec.udevCookie
      /\ b.reserved = rec.reserved /\ b.sub = rec.sub /\ b.suspended = rec.suspended
      /\ b.ready = rec.ready
  BY DEF RecordType
<1>4. GetCookieProps(rec) = IF ~rec.udevCookie.valid THEN rec ELSE IF HasCookie(rec) THEN a ELSE b
  BY DEF GetCookieProps, n, F
<1>5. HasCookie(rec) => rec.udevCookie.valid
  BY DEF HasCookie
<1> HIDE DEF a, b
<1> QED BY <1>2, <1>3, <1>4, <1>5 DEF n, F

\* _dm_scan_pre uses up the cookie of the event.
LEMMA APreKeeps ==
  ASSUME IndInv, APre
  PROVE  IndInv' /\ ConfiguredStep
<1>1. scan.phase = "A_PRE" /\ dm' = dm /\ sem' = sem
  BY DEF APre
<1>2. /\ Rec \in RecordType /\ scan \in ScanType
      /\ \A l \in SUBSET LostWrites :
           /\ ReadyView(l) \in View /\ Settled(ReadyView(l))
           /\ ReadyView(l).stored = Rec.ready /\ ReadyView(l).cache = scan.ready
      /\ Rec.alias /\ Rec.reserved # "undefined"
      /\ scan.reserved \in {"undefined", Rec.reserved} \cup LostWrites
      /\ ev.dev \in DmDevices <=> scan.cur
  BY <1>1, KnownDevice
<1>0. PICK lost \in SUBSET LostWrites :
        LET rec == IF scan.cur THEN GetCookieProps(Rec) ELSE Rec
            v == IF scan.cur THEN DmScanPre(ReadyView(lost), rec, dm) ELSE ReadyView(lost)
        IN EndPhase("A_PRE", v.r, rec, v, scan)
  BY DEF APre, Losses
<1> DEFINE rec == IF scan.cur THEN GetCookieProps(Rec) ELSE Rec
           u == ReadyView(lost)
           v == IF scan.cur THEN DmScanPre(u, rec, dm) ELSE u
           q == AfterPhase("A_PRE", v.r)
<1>3. EndPhase("A_PRE", v.r, rec, v, scan)
  BY <1>0
<1>4. /\ rec \in RecordType /\ rec.alias = Rec.alias /\ rec.udevCookie = Rec.udevCookie
      /\ rec.reserved = Rec.reserved /\ rec.sub = Rec.sub /\ rec.suspended = Rec.suspended
      /\ scan.cur /\ HasCookie(Rec) => /\ rec.base = Rec.udevCookie.cookie.id
                                       /\ rec.flags = Rec.udevCookie.cookie.flags
  BY <1>2, CookieProps
<1>b. u \in View /\ Settled(u) /\ u.stored = Rec.ready /\ u.cache = scan.ready
  BY <1>2
<1> HIDE DEF rec, u
<1>5. LET w == DmScanPre(u, rec, dm)
      IN /\ w \in View /\ Settled(w)
         /\ w.r >= 0 => w.cache # "undefined"
         /\ Known(u) = "unconfigured" /\ ~rec.suspended
            /\ (ev.synth \/ ev.action # "change" \/ ~HasCookie(rec))
              => w.stored = u.stored /\ w.cache \in {"undefined", "unconfigured"}
         /\ dm.cur = "lvm" /\ "noscan" \in rec.flags /\ w.r >= 0 => w.cache \notin {"public", "private"}
  BY <1>b, <1>4, DmScanPreSettled
<1>6. /\ v \in View /\ Settled(v)
      /\ scan.cur /\ v.r >= 0 => v.cache # "undefined"
      /\ Rec.ready = "unconfigured" /\ scan.ready \in {"undefined", "unconfigured"} /\ ~rec.suspended
         /\ (ev.synth \/ ev.action # "change" \/ ~HasCookie(rec))
           => v.stored = "unconfigured" /\ v.cache \in {"undefined", "unconfigured"}
      /\ ~scan.cur => v.stored = Rec.ready /\ v.cache = scan.ready
      /\ scan.cur /\ dm.cur = "lvm" /\ "noscan" \in rec.flags /\ v.r >= 0
           => v.cache \notin {"public", "private"}
  BY <1>b, <1>5 DEF Known
<1>7. q = AfterPhase("A_PRE", v.r) /\ q = IF v.r >= 0 THEN "A_CURRENT" ELSE "ERROR"
  BY <1>6, AfterPhaseTable DEF View
<1> HIDE DEF v, q
<1>8. scan.stage = 1 /\ dm' \in [cur : {"none", "lvm"}, next : {"none", "lvm"}] /\ sem' \in [1..MaxScans -> 0..1]
  BY <1>1 DEF IndInv, Types, Staged, StageOnePhases
<1>9. /\ ev.id \in 1..MaxScans
      /\ ev.cookie = "yes" => /\ Rec.udevCookie.valid
                              /\ Rec.udevCookie.cookie.id = ev.id /\ Rec.udevCookie.cookie.flags = ev.flags
      /\ ev.cookie # "yes" => ~HasCookie(Rec)
  BY <1>1 DEF IndInv, Cookie, Early
<1>10. ev.cookie = "yes" => HasCookie(Rec)
  BY <1>9 DEF HasCookie
<1>11. HasCookie(rec) = HasCookie(Rec)
  BY <1>4 DEF HasCookie
<1>12. ev.cookie = "yes" /\ ev.dev \in DmDevices => rec.base = ev.id /\ rec.flags = ev.flags
  BY <1>2, <1>4, <1>9, <1>10
<1>14. ev.dev \in DmDevices => Rec.suspended = ev.suspended /\ (ClaimedBy(rec) => dm.cur = "lvm")
  BY <1>1, <1>4 DEF IndInv, Context, ClaimedBy
<1>a. scan.cur => ev.dev \in DmDevices
  BY <1>1 DEF IndInv, Context
<1>13. main[ev.dev].ready = "unconfigured" /\ ~Activates =>
         v.stored = "unconfigured" /\ v.cache \in {"undefined", "unconfigured"}
  <2>1. main[ev.dev].ready = "unconfigured" /\ ~Activates =>
          Rec.ready = "unconfigured" /\ scan.ready \in {"undefined", "unconfigured"}
    BY <1>1, <1>8 DEF IndInv, Unconfigured
  <2>2. ~Activates /\ scan.cur
          => ~rec.suspended /\ (ev.synth \/ ev.action # "change" \/ ~HasCookie(rec))
    BY <1>4, <1>9, <1>11, <1>14, <1>a DEF Activates
  <2> QED BY <2>1, <2>2, <1>6
<1>15. q \in Looking /\ ev.dev \in DmDevices /\ ClaimedBy(rec)
       /\ ev.cookie = "yes" /\ "noscan" \in ev.flags
         => v.cache \notin {"public", "private"}
  BY <1>2, <1>6, <1>7, <1>12, <1>14 DEF Looking
<1>c. q \in Looking /\ ev.dev \in DmDevices => v.cache # "undefined"
  BY <1>2, <1>6, <1>7 DEF Looking
<1>16. Leaves(q, rec, v, scan)
  BY <1>2, <1>4, <1>6, <1>7, <1>8, <1>12, <1>13, <1>15, <1>c DEF Leaves, Phases, StageOnePhases
<1> QED BY <1>1, <1>2, <1>3, <1>4, <1>6, <1>7, <1>16, PhaseKeeps

\* The reserved state as the store and the context hold it.
ReservedViews == [stored : ReservedStates, cache : ReservedStates, r : {-1, 0, 1}, lost : SUBSET LostWrites]

\* _cmd_exec_scan_a_exit leaves no state undecided, whatever happened before it.
LEMMA AExitKeeps ==
  ASSUME IndInv, AExit
  PROVE  IndInv' /\ ConfiguredStep
<1>1. scan.phase = "A_EXIT" /\ dm' = dm /\ sem' = sem
  BY DEF AExit
<1>2. /\ Rec \in RecordType /\ scan \in ScanType
      /\ \A l \in SUBSET LostWrites :
           /\ ReadyView(l) \in View /\ Settled(ReadyView(l))
           /\ ReadyView(l).stored = Rec.ready /\ ReadyView(l).cache = scan.ready
      /\ Rec.alias /\ Rec.reserved # "undefined"
      /\ scan.reserved \in {"undefined", Rec.reserved} \cup LostWrites
      /\ ev.dev \in DmDevices <=> scan.cur
  BY <1>1, KnownDevice
<1>0. PICK lost \in SUBSET LostWrites, lostReserved \in SUBSET LostWrites :
        LET v == AExitReady(lost)
            w == AExitReserved(lostReserved)
        IN EndPhase("A_EXIT", IF v.r < 0 \/ w.r < 0 THEN -1 ELSE 0,
                    [Rec EXCEPT !.reserved = w.stored], v, [scan EXCEPT !.reserved = w.cache])
  BY DEF AExit, Losses
<1> DEFINE v == AExitReady(lost)
           w == AExitReserved(lostReserved)
           r == IF v.r < 0 \/ w.r < 0 THEN -1 ELSE 0
           rec == [Rec EXCEPT !.reserved = w.stored]
           ctx == [scan EXCEPT !.reserved = w.cache]
           q == AfterPhase("A_EXIT", r)
<1>3. EndPhase("A_EXIT", r, rec, v, ctx)
  BY <1>0
<1>4. /\ v \in View /\ Settled(v) /\ v.cache \notin {"undefined", "unprocessed"}
      /\ Rec.ready = "unconfigured" /\ scan.ready \in {"undefined", "unconfigured"}
           => v.stored = "unconfigured" /\ v.cache = "unconfigured"
  <2> DEFINE g == GetState(ReadyView(lost))
             s == SetReady(g, "A_EXIT", "public")
  <2>1. /\ g \in View /\ Settled(g) /\ g.stored = Rec.ready /\ g.cache # "undefined"
        /\ g.cache = IF scan.ready = "undefined" THEN Rec.ready ELSE scan.ready
    BY <1>2, GetStateSettled DEF Known
  <2>2. g.cache = "unprocessed" => ReadyMayBecome(g.cache, "public")
    BY DEF ReadyMayBecome
  <2>3. s \in View /\ Settled(s) /\ (g.cache = "unprocessed" => s.cache = "public")
    BY <2>1, <2>2, SetReadySettled DEF CapRdy, ReadyStates
  <2>4. v = IF g.cache = "unprocessed" THEN s ELSE g
    BY DEF AExitReady
  <2> HIDE DEF v, g, s
  <2> QED BY <2>1, <2>3, <2>4
<1>5. /\ w \in ReservedViews /\ w.stored # "undefined" /\ w.cache \in {w.stored} \cup LostWrites
      /\ w.cache \notin {"undefined", "unprocessed"}
  <2> DEFINE g == GetState(ReservedView(lostReserved))
             s == SetReserved(g, "A_EXIT", "free")
  <2>1. ReservedView(lostReserved) = [stored |-> Rec.reserved, cache |-> scan.reserved, r |-> 0, lost |-> lostReserved]
    BY DEF ReservedView, Rec
  <2>2. Rec.reserved \in ReservedStates /\ scan.reserved \in ReservedStates
    BY <1>2 DEF RecordType, ScanType
  <2>3. /\ g \in ReservedViews /\ g.stored = Rec.reserved /\ g.cache # "undefined"
        /\ g.cache \in {g.stored} \cup LostWrites /\ g.lost = lostReserved
    BY <1>2, <2>1, <2>2 DEF GetState, ReservedViews
  <2>4. g.cache = "unprocessed" => /\ s \in ReservedViews /\ s.cache = "free" /\ s.stored # "undefined"
                                   /\ s.cache \in {s.stored} \cup LostWrites
    <3>1. g.cache = "unprocessed" => s = IF "free" \in g.lost THEN [g EXCEPT !.cache = "free", !.r = 1]
                                         ELSE [g EXCEPT !.stored = "free", !.cache = "free", !.r = 0]
      BY DEF SetReserved, SetState, ReservedMayBecome, CapRes
    <3> HIDE DEF g, s
    <3>2. CASE "free" \in g.lost
      BY <1>2, <2>3, <3>1, <3>2 DEF ReservedViews, ReservedStates
    <3>3. CASE "free" \notin g.lost
      BY <1>2, <2>3, <3>1, <3>3 DEF ReservedViews, ReservedStates
    <3> QED BY <3>2, <3>3
  <2>5. w = IF g.cache = "unprocessed" THEN s ELSE g
    BY DEF AExitReserved
  <2> HIDE DEF g, s, w
  <2> QED BY <1>2, <2>3, <2>4, <2>5
<1>6. q = AfterPhase("A_EXIT", r) /\ q \in {"stage_wait", "failed"}
  BY AfterPhaseTable
<1> HIDE DEF v, w, r, q
<1>7. /\ rec \in RecordType /\ rec.alias = Rec.alias /\ rec.udevCookie = Rec.udevCookie
      /\ rec.reserved = w.stored /\ rec.sub = Rec.sub /\ rec.suspended = Rec.suspended
      /\ rec.base = Rec.base
  BY <1>2, <1>5 DEF RecordType, ReservedViews
<1>8. ctx \in ScanType /\ ctx.stage = scan.stage /\ ctx.reserved = w.cache /\ ctx.cur = scan.cur
  BY <1>2, <1>5 DEF ScanType, ReservedViews
<1> HIDE DEF rec, ctx
<1>9. scan.stage = 1 /\ dm' \in [cur : {"none", "lvm"}, next : {"none", "lvm"}] /\ sem' \in [1..MaxScans -> 0..1]
  BY <1>1 DEF IndInv, Types, Staged, StageOnePhases
<1>10. ev.cookie = "yes" /\ ev.dev \in DmDevices => Rec.base = ev.id
  BY <1>1 DEF IndInv, Cookie, Early
<1>11. main[ev.dev].ready = "unconfigured" /\ ~Activates =>
         v.stored = "unconfigured" /\ v.cache \in {"undefined", "unconfigured"}
  BY <1>1, <1>4, <1>7, <1>9 DEF IndInv, Unconfigured
<1>12. Leaves(q, rec, v, ctx)
  BY <1>2, <1>4, <1>5, <1>6, <1>7, <1>8, <1>9, <1>10, <1>11 DEF Leaves, Phases, StageOnePhases, Looking
<1> QED BY <1>1, <1>3, <1>4, <1>6, <1>7, <1>8, <1>12, PhaseKeeps

\* The states a new device is given, and the ones a known device has.
LEMMA NewDevStates ==
  ASSUME IndInv, NEW p \in {"A_INIT", "REMOVE_INIT"}, scan.phase = p
  PROVE  LET w == NewDevReserved(p, {})
             rec == NewDevRecord(w)
             v == NewDevReady(p, {})
         IN /\ rec \in RecordType /\ rec.alias
            /\ rec.reserved \in {"unprocessed", "free"}
            /\ rec.udevCookie = Rec.udevCookie /\ rec.sub = Rec.sub
            /\ v \in View /\ Settled(v)
            /\ Rec.ready # "undefined" => v.stored = Rec.ready /\ v.cache = "undefined"
            /\ w.cache \in ReservedStates
            /\ w.cache \in {"undefined", rec.reserved}
<1> DEFINE w == NewDevReserved(p, {})
           rec == NewDevRecord(w)
           v == NewDevReady(p, {})
<1>1. ev \in EvType /\ scan \in ScanType /\ db \in [Devices -> RecordType]
  BY DEF IndInv, Types
<1>2. Rec \in RecordType
  BY <1>1 DEF EvType, Rec
<1>3. /\ scan.ready = "undefined" /\ scan.reserved = "undefined"
      /\ Rec.alias <=> Rec.ready # "undefined"
      /\ Rec.alias => Rec.reserved # "undefined"
  BY DEF IndInv, Context, Coherent
<1>4. ReadyView({}) = [stored |-> Rec.ready, cache |-> "undefined", r |-> 0, lost |-> {}]
  BY <1>3 DEF ReadyView, Rec
<1>5. ReservedView({}) = [stored |-> Rec.reserved, cache |-> "undefined", r |-> 0, lost |-> {}]
  BY <1>3 DEF ReservedView, Rec
<1>6. Rec.ready \in ReadyStates /\ Rec.reserved \in ReservedStates
  BY <1>2 DEF RecordType
<1>7. /\ w.stored \in {"unprocessed", "free"} /\ w.cache \in {"undefined", w.stored}
  <2>1. CASE Rec.alias
    <3>1. w = ReservedView({})
      BY <2>1 DEF NewDevReserved
    <3> QED BY <3>1, <2>1, <1>3, <1>5, <1>6 DEF ReservedStates
  <2>2. CASE ~Rec.alias
    <3>1. w = SetReserved(ReservedView({}), p, "unprocessed")
      BY <2>2 DEF NewDevReserved
    <3>2. SetReserved(ReservedView({}), p, "unprocessed").stored = "unprocessed"
          /\ SetReserved(ReservedView({}), p, "unprocessed").cache = "unprocessed"
      BY <1>5 DEF SetReserved, SetState, ReservedMayBecome, CapRes
    <3> QED BY <3>1, <3>2
  <2> QED BY <2>1, <2>2
<1>8. v \in View /\ Settled(v) /\ (Rec.ready # "undefined" => v.stored = Rec.ready /\ v.cache = "undefined")
  <2>1. CASE Rec.alias
    <3>1. v = ReadyView({})
      BY <2>1 DEF NewDevReady
    <3> QED BY <3>1, <2>1, <1>3, <1>4, <1>6 DEF View, Settled, ReadyStates
  <2>2. CASE ~Rec.alias
    <3>1. v = SetReady(ReadyView({}), p, "unprocessed")
      BY <2>2 DEF NewDevReady
    <3>2. ReadyView({}) \in View /\ ReadyView({}).cache = "undefined" /\ ReadyView({}).lost = {}
      BY <1>4, <1>6 DEF View, ReadyStates
    <3>3. ReadyMayBecome("undefined", "unprocessed") /\ p \in CapRdy /\ "unprocessed" \in ReadyStates
      BY DEF ReadyMayBecome, CapRdy, ReadyStates
    <3>4. v \in View /\ v.stored = "unprocessed" /\ v.cache = "unprocessed"
      BY <3>1, <3>2, <3>3, SetReadyView
    <3> HIDE DEF v
    <3> QED BY <3>4, <2>2, <1>3 DEF Settled
  <2> QED BY <2>1, <2>2
<1>9. /\ rec \in RecordType /\ rec.alias /\ rec.reserved = w.stored
      /\ rec.udevCookie = Rec.udevCookie /\ rec.sub = Rec.sub
  <2> HIDE DEF w
  <2>1. rec = [Rec EXCEPT !.alias = TRUE, !.reserved = w.stored]
    BY DEF NewDevRecord
  <2>2. \A t \in ReservedStates :
          LET c == [Rec EXCEPT !.alias = TRUE, !.reserved = t]
          IN c \in RecordType /\ c.alias /\ c.reserved = t
             /\ c.udevCookie = Rec.udevCookie /\ c.sub = Rec.sub
    BY <1>2 DEF RecordType
  <2>3. w.stored \in ReservedStates
    BY <1>7 DEF ReservedStates
  <2> HIDE DEF rec
  <2> QED BY <2>1, <2>2, <2>3
<1>10. w.cache \in ReservedStates
  <2> HIDE DEF w
  <2> QED BY <1>7 DEF ReservedStates
<1> HIDE DEF w, v, rec
<1>11. /\ rec \in RecordType /\ rec.alias
       /\ rec.reserved \in {"unprocessed", "free"}
       /\ rec.udevCookie = Rec.udevCookie /\ rec.sub = Rec.sub
       /\ v \in View /\ Settled(v)
       /\ Rec.ready # "undefined" => v.stored = Rec.ready /\ v.cache = "undefined"
       /\ w.cache \in ReservedStates
       /\ w.cache \in {"undefined", rec.reserved}
  BY <1>7, <1>8, <1>9, <1>10
<1> QED BY <1>11 DEF w, v, rec

\* _dm_submod_common_scan_init: the submodule that is recorded, or that claims the device.
LEMMA SubmodFits ==
  ASSUME NEW rec \in RecordType,
         NEW m \in [cur : {"none", "lvm"}, next : {"none", "lvm"}]
  PROVE  /\ SubmodMatch(rec, m) \in [cur : {"none", "lvm"}, next : {"none", "lvm"}]
         /\ SubmodRecord(rec, m) \in RecordType
         /\ SubmodRecord(rec, m).alias = rec.alias /\ SubmodRecord(rec, m).reserved = rec.reserved
         /\ SubmodRecord(rec, m).udevCookie = rec.udevCookie /\ SubmodRecord(rec, m).base = rec.base
         /\ SubmodRecord(rec, m).suspended = rec.suspended
         /\ (\/ SubmodRecord(rec, m).sub = "lvm"
             \/ rec.sub = "unset" /\ rec.uuid = "lvm")
              => SubmodMatch(rec, m).cur = "lvm"
<1>1. SubmodMatch(rec, m) \in [cur : {"none", "lvm"}, next : {"none", "lvm"}]
  BY DEF SubmodMatch, RecordType
<1> DEFINE s == SubmodMatch(rec, m).cur
<1>2. SubmodRecord(rec, m) = IF rec.sub = "unset" THEN [rec EXCEPT !.sub = s] ELSE rec
  BY DEF SubmodRecord
<1>3. s \in {"none", "lvm"}
  BY <1>1
<1>4. (rec.sub = "lvm" \/ (rec.sub = "unset" /\ rec.uuid = "lvm")) => s = "lvm"
  BY DEF SubmodMatch, LvmMatchesCurrent
<1> HIDE DEF s
<1>5. LET c == [rec EXCEPT !.sub = s]
      IN /\ c \in RecordType /\ c.sub = s /\ c.alias = rec.alias /\ c.reserved = rec.reserved
         /\ c.udevCookie = rec.udevCookie /\ c.base = rec.base /\ c.suspended = rec.suspended
  BY <1>3 DEF RecordType
<1> QED BY <1>1, <1>2, <1>3, <1>4, <1>5 DEF s

\* What the type module leaves behind in its first phase: recOut and mOut from rec.
InitFits(rec, recOut, mOut) ==
  /\ recOut \in RecordType /\ recOut.alias = rec.alias /\ recOut.reserved = rec.reserved
  /\ recOut.udevCookie = rec.udevCookie
  /\ mOut \in [cur : {"none", "lvm"}, next : {"none", "lvm"}]
  /\ scan.phase = "REMOVE_INIT" /\ HasCookie(rec) => recOut.base = rec.udevCookie.cookie.id

\* _dm_scan_a_init, _dm_scan_remove_init: what they may change of the record; the former
\* finds lvm for the volumes it has to be found for.
LEMMA DmInitFits ==
  ASSUME IndInv, scan.phase \in {"A_INIT", "REMOVE_INIT"},
         NEW rec \in RecordType, NEW props \in BOOLEAN
  PROVE  LET a == DmInitRecord(scan.phase, rec, props)
             m == DmInitModules(scan.phase, rec, props)
         IN /\ InitFits(rec, a, m)
            /\ scan.phase = "A_INIT" /\ props =>
                 /\ a.suspended = ev.suspended
                 /\ a.sub = "lvm" \/ (rec.sub = "unset" /\ ev.uuid = "lvm") => m.cur = "lvm"
<1> DEFINE a == DmInitRecord(scan.phase, rec, props)
           m == DmInitModules(scan.phase, rec, props)
           b == DmInitProps(scan.phase, rec)
<1>1. dm \in [cur : {"none", "lvm"}, next : {"none", "lvm"}] /\ ev \in EvType
  BY DEF IndInv, Types, Context
<1>2. a = (IF DmInitMatches(scan.phase, rec, props) THEN SubmodRecord(b, dm) ELSE rec)
      /\ m = (IF DmInitMatches(scan.phase, rec, props) THEN SubmodMatch(b, dm) ELSE dm)
  BY DEF DmInitRecord, DmInitModules
<1>3. CASE scan.phase = "A_INIT"
  <2>1. DmInitMatches(scan.phase, rec, props) <=> props
    BY <1>3 DEF DmInitMatches
  <2>2. ev.suspended \in BOOLEAN /\ ev.uuid \in {"unset", "lvm", "other"}
    BY <1>1 DEF EvType
  <2>4. b = [rec EXCEPT !.uuid = ev.uuid, !.suspended = ev.suspended]
    BY <1>3 DEF DmInitProps
  <2>5. /\ b \in RecordType /\ b.sub = rec.sub /\ b.alias = rec.alias
        /\ b.reserved = rec.reserved /\ b.udevCookie = rec.udevCookie
        /\ b.suspended = ev.suspended /\ b.uuid = ev.uuid
    <3>1. PICK x \in BOOLEAN : x = ev.suspended
      BY <2>2
    <3>2. PICK u \in {"unset", "lvm", "other"} : u = ev.uuid
      BY <2>2
    <3> HIDE DEF b
    <3>3. b = [rec EXCEPT !.uuid = u, !.suspended = x]
      BY <2>4, <3>1, <3>2
    <3>4. /\ b \in RecordType /\ b.sub = rec.sub /\ b.alias = rec.alias
          /\ b.reserved = rec.reserved /\ b.udevCookie = rec.udevCookie
          /\ b.suspended = x /\ b.uuid = u
      BY <3>3 DEF RecordType
    <3> QED BY <3>1, <3>2, <3>4
  <2> HIDE DEF b, a, m
  <2>6. CASE props
    <3>1. a = SubmodRecord(b, dm) /\ m = SubmodMatch(b, dm)
      BY <1>2, <2>1, <2>6
    <3>2. InitFits(rec, a, m)
      BY <1>1, <1>3, <2>5, <3>1, SubmodFits DEF InitFits
    <3>3. /\ a.suspended = ev.suspended
          /\ a.sub = "lvm" \/ (rec.sub = "unset" /\ ev.uuid = "lvm") => m.cur = "lvm"
      BY <1>1, <2>5, <3>1, SubmodFits
    <3> QED BY <3>2, <3>3 DEF a, m
  <2>7. CASE ~props
    <3>1. a = rec /\ m = dm
      BY <1>2, <2>1, <2>7
    <3>2. InitFits(rec, a, m)
      BY <1>1, <1>3, <3>1 DEF InitFits
    <3> QED BY <2>7, <3>2 DEF a, m
  <2> QED BY <2>6, <2>7
<1>4. CASE scan.phase = "REMOVE_INIT"
  <2>1. b = GetCookieProps(rec)
    BY <1>4 DEF DmInitProps
  <2>2. /\ b \in RecordType /\ b.alias = rec.alias
        /\ b.reserved = rec.reserved /\ b.udevCookie = rec.udevCookie
        /\ HasCookie(rec) => b.base = rec.udevCookie.cookie.id
    BY <2>1, CookieProps
  <2>3. DmInitMatches(scan.phase, rec, props) <=> rec.udevCookie.valid
    BY <1>4 DEF DmInitMatches
  <2>4. HasCookie(rec) => rec.udevCookie.valid
    BY DEF HasCookie
  <2> HIDE DEF a, b, m
  <2>5. InitFits(rec, a, m)
    BY <1>1, <1>2, <2>2, <2>3, <2>4, SubmodFits DEF InitFits
  <2> QED BY <1>4, <2>5 DEF a, m
<1> QED BY <1>3, <1>4

\* _common_scan_init: the command comes to know its device.
LEMMA CommonScanInitKeeps ==
  ASSUME IndInv, NEW p \in {"A_INIT", "REMOVE_INIT"}, CommonScanInit(p)
  PROVE  IndInv' /\ ConfiguredStep
<1> DEFINE w0 == NewDevReserved(p, {})
           rec0 == NewDevRecord(w0)
           v == NewDevReady(p, {})
<1>0. PICK found \in BOOLEAN, props \in BOOLEAN, names \in BOOLEAN :
        LET cur == found /\ ev.dev \in DmDevices
            r == IF ~found \/ (cur /\ DmInitFails(p, rec0, props, names)) THEN -1 ELSE 0
        IN /\ EndPhase(p, r, IF cur THEN DmInitRecord(p, rec0, props) ELSE rec0, v,
                       [scan EXCEPT !.reserved = w0.cache, !.cur = cur, !.iter = found])
           /\ dm' = IF cur THEN DmInitModules(p, rec0, props) ELSE dm
           /\ UNCHANGED sem
  <2> HIDE DEF rec0, v, w0
  <2>1. PICK found \in BOOLEAN, props \in BOOLEAN, names \in BOOLEAN :
         \E lost \in Losses({"unprocessed"}) : \E lostReserved \in Losses({"unprocessed"}) :
           LET reserved == NewDevReserved(p, lostReserved)
               rec == NewDevRecord(reserved)
               cur == found /\ ev.dev \in DmDevices
               r == IF ~found \/ (cur /\ DmInitFails(p, rec, props, names)) THEN -1 ELSE 0
           IN /\ EndPhase(p, r, IF cur THEN DmInitRecord(p, rec, props) ELSE rec, NewDevReady(p, lost),
                          [scan EXCEPT !.reserved = reserved.cache, !.cur = cur, !.iter = found])
              /\ dm' = IF cur THEN DmInitModules(p, rec, props) ELSE dm
              /\ UNCHANGED sem
    BY DEF CommonScanInit
  <2>2. PICK lost \in Losses({"unprocessed"}) : \E lostReserved \in Losses({"unprocessed"}) :
           LET reserved == NewDevReserved(p, lostReserved)
               rec == NewDevRecord(reserved)
               cur == found /\ ev.dev \in DmDevices
               r == IF ~found \/ (cur /\ DmInitFails(p, rec, props, names)) THEN -1 ELSE 0
           IN /\ EndPhase(p, r, IF cur THEN DmInitRecord(p, rec, props) ELSE rec, NewDevReady(p, lost),
                          [scan EXCEPT !.reserved = reserved.cache, !.cur = cur, !.iter = found])
              /\ dm' = IF cur THEN DmInitModules(p, rec, props) ELSE dm
              /\ UNCHANGED sem
    BY <2>1
  <2>3. PICK lostReserved \in Losses({"unprocessed"}) :
           LET reserved == NewDevReserved(p, lostReserved)
               rec == NewDevRecord(reserved)
               cur == found /\ ev.dev \in DmDevices
               r == IF ~found \/ (cur /\ DmInitFails(p, rec, props, names)) THEN -1 ELSE 0
           IN /\ EndPhase(p, r, IF cur THEN DmInitRecord(p, rec, props) ELSE rec, NewDevReady(p, lost),
                          [scan EXCEPT !.reserved = reserved.cache, !.cur = cur, !.iter = found])
              /\ dm' = IF cur THEN DmInitModules(p, rec, props) ELSE dm
              /\ UNCHANGED sem
    BY <2>2
  <2>4. lost = {} /\ lostReserved = {}
    BY NoLoss
  <2> QED BY <2>3, <2>4 DEF rec0, v, w0
<1>2. scan.phase = p
  BY DEF CommonScanInit
<1> DEFINE cur == found /\ ev.dev \in DmDevices
           r == IF ~found \/ (cur /\ DmInitFails(p, rec0, props, names)) THEN -1 ELSE 0
           rec == IF cur THEN DmInitRecord(p, rec0, props) ELSE rec0
           ctx == [scan EXCEPT !.reserved = w0.cache, !.cur = cur, !.iter = found]
           q == AfterPhase(p, r)
<1>3. /\ EndPhase(p, r, rec, v, ctx)
      /\ dm' = IF cur THEN DmInitModules(p, rec0, props) ELSE dm
      /\ sem' = sem
  BY <1>0
<1>4. /\ ev \in EvType /\ scan \in ScanType /\ sem \in [1..MaxScans -> 0..1]
      /\ dm \in [cur : {"none", "lvm"}, next : {"none", "lvm"}]
      /\ scan.stage = 1 /\ (p = "REMOVE_INIT" => ev.action = "remove")
      /\ Rec.sub = main[ev.dev].sub
  BY <1>2 DEF IndInv, Types, Context, Coherent, Staged, StageOnePhases
<1>5. /\ rec0 \in RecordType /\ rec0.alias
      /\ rec0.reserved \in {"unprocessed", "free"}
      /\ rec0.udevCookie = Rec.udevCookie /\ rec0.sub = Rec.sub
      /\ v \in View /\ Settled(v)
      /\ Rec.ready # "undefined" => v.stored = Rec.ready /\ v.cache = "undefined"
      /\ w0.cache \in ReservedStates
      /\ w0.cache \in {"undefined", rec0.reserved}
  BY <1>2, NewDevStates, Zenon
<1> HIDE DEF v, rec0, w0
<1>a. LET a == DmInitRecord(p, rec0, props)
          m == DmInitModules(p, rec0, props)
      IN /\ InitFits(rec0, a, m)
         /\ p = "A_INIT" /\ props =>
              /\ a.suspended = ev.suspended
              /\ a.sub = "lvm" \/ (rec0.sub = "unset" /\ ev.uuid = "lvm") => m.cur = "lvm"
  <2>1. rec0 \in RecordType /\ scan.phase \in {"A_INIT", "REMOVE_INIT"} /\ scan.phase = p
    BY <1>2, <1>5
  <2> QED BY <2>1, DmInitFits
<1>6. /\ rec \in RecordType /\ rec.alias /\ rec.reserved = rec0.reserved
      /\ rec.udevCookie = Rec.udevCookie
      /\ cur /\ p = "REMOVE_INIT" /\ HasCookie(rec0) => rec.base = rec0.udevCookie.cookie.id
  <2> DEFINE a == DmInitRecord(p, rec0, props)
  <2>1. /\ a \in RecordType /\ a.alias = rec0.alias /\ a.reserved = rec0.reserved
        /\ a.udevCookie = rec0.udevCookie
        /\ p = "REMOVE_INIT" /\ HasCookie(rec0) => a.base = rec0.udevCookie.cookie.id
    BY <1>2, <1>a DEF InitFits
  <2> HIDE DEF a, cur
  <2>2. rec = IF cur THEN a ELSE rec0
    BY DEF a
  <2> HIDE DEF rec
  <2> QED BY <2>1, <2>2, <1>4, <1>5
<1>7. /\ ctx \in ScanType /\ ctx.stage = 1 /\ ctx.reserved = w0.cache
      /\ ctx.cur = cur
  <2>1. cur \in BOOLEAN
    OBVIOUS
  <2> HIDE DEF cur
  <2> DEFINE t == w0.cache
  <2>a. t \in ReservedStates
    BY <1>5
  <2> HIDE DEF t
  <2>2. \A b, c \in BOOLEAN :
          /\ [scan EXCEPT !.reserved = t, !.cur = b, !.iter = c] \in ScanType
          /\ [scan EXCEPT !.reserved = t, !.cur = b, !.iter = c].stage = scan.stage
          /\ [scan EXCEPT !.reserved = t, !.cur = b, !.iter = c].reserved = t
          /\ [scan EXCEPT !.reserved = t, !.cur = b, !.iter = c].cur = b
    BY <1>4, <2>a DEF ScanType
  <2>b. found \in BOOLEAN
    OBVIOUS
  <2>3. /\ ctx \in ScanType
        /\ ctx.stage = scan.stage
        /\ ctx.reserved = w0.cache
        /\ ctx.cur = cur
    BY <2>1, <2>2, <2>b, Zenon DEF t
  <2> HIDE DEF ctx
  <2> QED BY <1>4, <2>3
<1>8. r \in {-1, 0} /\ (r = 0 => found /\ (cur => ~DmInitFails(p, rec0, props, names)))
  OBVIOUS
<1>9. q = AfterPhase(p, r) /\ q = IF r >= 0 THEN (IF p = "A_INIT" THEN "A_PRE" ELSE "REMOVE_CURRENT")
                                  ELSE "failed"
  <2> HIDE DEF r
  <2> QED BY <1>8, AfterPhaseTable
<1>10. /\ dm' \in [cur : {"none", "lvm"}, next : {"none", "lvm"}]
       /\ r = 0 /\ p = "A_INIT" /\ cur =>
            rec.suspended = ev.suspended /\ (ClaimedBy(rec) => dm'.cur = "lvm")
  <2> DEFINE a == DmInitRecord(p, rec0, props)
             m == DmInitModules(p, rec0, props)
  <2>1. m \in [cur : {"none", "lvm"}, next : {"none", "lvm"}]
    BY <1>a DEF InitFits
  <2>2. p = "A_INIT" /\ ~DmInitFails(p, rec0, props, names) => props
    BY DEF DmInitFails, DmInitMatches
  <2>3. p = "A_INIT" /\ props =>
          /\ a.suspended = ev.suspended
          /\ a.sub = "lvm" \/ (rec0.sub = "unset" /\ ev.uuid = "lvm") => m.cur = "lvm"
    BY <1>a
  <2>4. cur => rec = a /\ dm' = m
    BY <1>3
  <2>5. ~cur => dm' = dm
    BY <1>3
  <2>6. rec0.sub = main[ev.dev].sub
    BY <1>4, <1>5
  <2> HIDE DEF a, m, r, rec
  <2>7. ASSUME r = 0, p = "A_INIT", cur
        PROVE  rec.suspended = ev.suspended /\ (ClaimedBy(rec) => dm'.cur = "lvm")
    BY <1>8, <2>2, <2>3, <2>4, <2>6, <2>7 DEF ClaimedBy
  <2> QED BY <1>4, <2>1, <2>4, <2>5, <2>7
<1>11. /\ ev.id \in 1..MaxScans
       /\ ev.cookie = "yes" => Rec.udevCookie.valid /\ Rec.udevCookie.cookie.id = ev.id
  BY <1>2 DEF IndInv, Cookie, Early
<1>12. main[ev.dev].ready = "unconfigured" /\ ~Activates =>
         v.stored = "unconfigured" /\ v.cache \in {"undefined", "unconfigured"}
  BY <1>2, <1>4, <1>5 DEF IndInv, Unconfigured
<1>13. ev.cookie = "yes" /\ cur /\ p = "REMOVE_INIT" => rec.base = ev.id
  <2>1. ev.cookie = "yes" => HasCookie(rec0) /\ rec0.udevCookie.cookie.id = ev.id
    BY <1>5, <1>11 DEF HasCookie
  <2> QED BY <2>1, <1>6
<1>14. q # "failed" => r = 0 /\ found
  BY <1>8, <1>9
<1> HIDE DEF ctx, rec, r, q
<1>15. q # "failed" => (ev.dev \in DmDevices <=> cur) /\ (ev.dev \in DmDevices <=> ctx.cur)
  BY <1>7, <1>14
<1>16. ev.cookie = "yes" /\ ev.dev \in DmDevices /\ q \notin Early \cup {"failed"} => rec.base = ev.id
  BY <1>2, <1>9, <1>13, <1>15 DEF Early
<1> HIDE DEF cur
<1>17. Leaves(q, rec, v, ctx)
  <2>1. q \in {"A_PRE", "REMOVE_CURRENT", "failed"} /\ (q = "REMOVE_CURRENT" => p = "REMOVE_INIT")
        /\ (q = "A_PRE" => p = "A_INIT" /\ r = 0)
    BY <1>9, <1>8, <1>14
  <2>2. scan.phase \in Early
    BY <1>2 DEF Early
  <2>3. q \notin Looking /\ q \in Phases \ {"idle", "A_INIT", "REMOVE_INIT", "B_INIT"}
        /\ (q # "failed" => q \in StageOnePhases)
    BY <2>1 DEF Looking, Phases, StageOnePhases
  <2>4. rec.reserved # "undefined" /\ ctx.reserved \in {"undefined", rec.reserved}
    BY <1>5, <1>6, <1>7
  <2> QED BY <2>1, <2>2, <2>3, <2>4, <1>3, <1>4, <1>5, <1>6, <1>7, <1>10, <1>12, <1>15, <1>16
          DEF Leaves
<1> QED BY <1>2, <1>3, <1>5, <1>6, <1>7, <1>9, <1>17, PhaseKeeps

\* The steps between the stages change the context only.
LEMMA BetweenKeeps ==
  ASSUME IndInv, ErrorPhase \/ StageTwoBegins \/ StageTimeout
  PROVE  IndInv' /\ ConfiguredStep
<1>1. UNCHANGED <<main, db, ev, dm, sem, scans>>
  BY DEF ErrorPhase, StageTwoBegins, StageTimeout
<1>2. Types /\ ev \in EvType /\ scan \in ScanType
  BY DEF IndInv, Types, ErrorPhase, StageTwoBegins, StageTimeout
<1>3. Rec' = Rec /\ (HasCookie(Rec) <=> HasCookie(Rec')) /\ Rec = db[ev.dev]
  BY <1>1 DEF Rec
<1>4. ConfiguredStep /\ MainStore' /\ (Coherent(Rec))'
  <2>1. MainStore' /\ ConfiguredStep
    BY <1>1 DEF IndInv, MainStore, ConfiguredStep, Coherent
  <2>2. (Coherent(Rec))'
    BY <1>1, <1>3 DEF IndInv, Coherent, ErrorPhase, StageTwoBegins, StageTimeout
  <2> QED BY <2>1, <2>2
<1>5. ASSUME NEW ph \in Phases \ ({"idle", "A_INIT", "REMOVE_INIT", "A_PRE"} \cup Looking), NEW st \in {1, 2},
             scan' \in ScanType, scan'.phase = ph, scan'.stage = st,
             scan'.ready = scan.ready, scan'.reserved = scan.reserved, scan'.cur = scan.cur,
             scan.phase \in {"ERROR", "stage_wait"},
             ph \in StageOnePhases => st = 1,
             ph \in StageTwoPhases => st = 2,
             ph = "REMOVE_EXIT" => ev.action = "remove",
             ph \notin {"REMOVE_CURRENT", "stage_wait"},
             st = 2 => scan.stage = 2 \/ scan.phase = "stage_wait",
             st = 1 /\ ph # "failed" => scan.stage = 1 /\ scan.phase = "ERROR",
             st = 2 /\ ph \notin {"B_INIT", "B_ACTION_CURRENT"} => scan.stage = 2 \/ ph = "failed"
      PROVE  IndInv'
  <2>0. ph \notin {"idle", "A_INIT", "REMOVE_INIT", "REMOVE_CURRENT", "A_PRE", "stage_wait"} /\ ph \notin Looking
    BY <1>5
  <2>1. Types'
    BY <1>1, <1>2, <1>5 DEF Types
  <2>2. Staged'
    BY <1>1, <1>5, <2>0 DEF Staged, StageOnePhases, StageTwoPhases
  <2>3. Context'
    BY <1>1, <1>3, <1>5, <2>0 DEF IndInv, Context
  <2>4. Cookie'
    <3>1. scan.phase \notin Early \cup {"failed", "idle"} /\ scan.phase \notin {"B_INIT", "B_ACTION_CURRENT"}
      BY <1>5 DEF Early
    <3>2. Cookie
      BY DEF IndInv
    <3>3. scan'.phase = ph /\ ph \notin Early /\ ph # "idle"
      BY <1>5, <2>0 DEF Early
    <3>4. /\ ev.id \in 1..MaxScans /\ ev.id = scans
          /\ ev.cookie # "yes" => ~HasCookie(Rec)
          /\ ev.cookie = "yes" /\ ev.dev \in DmDevices =>
               /\ Rec.base = ev.id
               /\ scan.stage = 2 => sem[ev.id] = 0
      BY <3>1, <3>2 DEF Cookie
    <3>5. scan'.stage = 2 /\ scan'.phase \notin {"B_INIT", "B_ACTION_CURRENT", "failed"} => scan.stage = 2
      BY <1>5
    <3> QED BY <1>1, <1>3, <3>3, <3>4, <3>5 DEF Cookie
  <2>5. Unconfigured'
    <3>1. scan.phase \notin {"idle", "A_INIT", "REMOVE_INIT"}
      BY <1>5
    <3> QED BY <1>1, <1>3, <1>5, <2>0, <3>1 DEF IndInv, Unconfigured, Activates
  <2>6. Cached'
    BY <1>1, <1>3, <1>5 DEF IndInv, Cached, Running, Over
  <2>7. ScannedIsProcessed'
    BY <1>1, <1>5, <2>0 DEF IndInv, ScannedIsProcessed
  <2>8. ClaimedHeldBack'
    BY <1>1, <1>5, <2>0 DEF ClaimedHeldBack, Looking
  <2> QED BY <1>4, <2>1, <2>2, <2>3, <2>4, <2>5, <2>6, <2>7, <2>8 DEF IndInv
<1>6. ASSUME ErrorPhase
      PROVE  IndInv'
  <2> DEFINE ph == ExitOf(scan.stage)
  <2>1. scan.phase = "ERROR" /\ scan.stage \in {1, 2} /\ scan' = [scan EXCEPT !.phase = ph, !.erred = TRUE]
    BY <1>6 DEF ErrorPhase, IndInv, Staged
  <2>2. /\ ph \in {"A_EXIT", "REMOVE_EXIT", "B_EXIT"} /\ (ph = "B_EXIT" <=> scan.stage = 2)
        /\ ph = "REMOVE_EXIT" => ev.action = "remove"
    BY DEF ExitOf
  <2> HIDE DEF ph
  <2>3. ph \in Phases
    BY <2>2 DEF Phases, StageOnePhases, StageTwoPhases
  <2>4. \A b \in BOOLEAN :
          /\ [scan EXCEPT !.phase = ph, !.erred = b] \in ScanType
          /\ [scan EXCEPT !.phase = ph, !.erred = b].phase = ph
          /\ [scan EXCEPT !.phase = ph, !.erred = b].stage = scan.stage
          /\ [scan EXCEPT !.phase = ph, !.erred = b].ready = scan.ready
          /\ [scan EXCEPT !.phase = ph, !.erred = b].reserved = scan.reserved
          /\ [scan EXCEPT !.phase = ph, !.erred = b].cur = scan.cur
    BY <1>2, <2>3 DEF ScanType
  <2>5. /\ scan' \in ScanType /\ scan'.phase = ph /\ scan'.stage = scan.stage
        /\ scan'.ready = scan.ready /\ scan'.reserved = scan.reserved /\ scan'.cur = scan.cur
    BY <2>1, <2>4, Zenon
  <2>6. ph \in Phases \ ({"idle", "A_INIT", "REMOVE_INIT", "A_PRE"} \cup Looking)
    BY <2>2, <2>3 DEF Looking
  <2>7. /\ ph \in StageOnePhases => scan.stage = 1
        /\ ph \in StageTwoPhases => scan.stage = 2
    BY <2>1, <2>2 DEF StageOnePhases, StageTwoPhases
  <2> QED BY <1>5, <2>1, <2>2, <2>5, <2>6, <2>7
<1>7. ASSUME StageTwoBegins
      PROVE  IndInv'
  <2>1. scan.phase = "stage_wait" /\ scan' = [scan EXCEPT !.stage = 2, !.phase = "B_INIT", !.erred = FALSE]
    BY <1>7 DEF StageTwoBegins
  <2>2. "B_INIT" \in Phases /\ 2 \in 0..2
    BY DEF Phases, StageTwoPhases
  <2>3. \A b \in BOOLEAN :
          /\ [scan EXCEPT !.stage = 2, !.phase = "B_INIT", !.erred = b] \in ScanType
          /\ [scan EXCEPT !.stage = 2, !.phase = "B_INIT", !.erred = b].phase = "B_INIT"
          /\ [scan EXCEPT !.stage = 2, !.phase = "B_INIT", !.erred = b].stage = 2
          /\ [scan EXCEPT !.stage = 2, !.phase = "B_INIT", !.erred = b].ready = scan.ready
          /\ [scan EXCEPT !.stage = 2, !.phase = "B_INIT", !.erred = b].reserved = scan.reserved
          /\ [scan EXCEPT !.stage = 2, !.phase = "B_INIT", !.erred = b].cur = scan.cur
    BY <1>2, <2>2 DEF ScanType
  <2>4. /\ scan' \in ScanType /\ scan'.phase = "B_INIT" /\ scan'.stage = 2
        /\ scan'.ready = scan.ready /\ scan'.reserved = scan.reserved /\ scan'.cur = scan.cur
    BY <2>1, <2>3, Zenon
  <2>5. "B_INIT" \in Phases \ ({"idle", "A_INIT", "REMOVE_INIT", "A_PRE"} \cup Looking) /\ "B_INIT" \notin StageOnePhases
    BY <2>2 DEF Looking, StageOnePhases
  <2> QED BY <1>5, <2>1, <2>4, <2>5
<1>8. ASSUME StageTimeout
      PROVE  IndInv'
  <2>1. scan.phase = "stage_wait" /\ scan.stage = 1 /\ scan' = [scan EXCEPT !.phase = "failed"]
    BY <1>8 DEF StageTimeout, IndInv, Staged, StageOnePhases
  <2>2. "failed" \in Phases
    BY DEF Phases
  <2>3. /\ scan' \in ScanType /\ scan'.phase = "failed" /\ scan'.stage = 1
        /\ scan'.ready = scan.ready /\ scan'.reserved = scan.reserved /\ scan'.cur = scan.cur
    BY <1>2, <2>1, <2>2 DEF ScanType
  <2>4. /\ "failed" \in Phases \ ({"idle", "A_INIT", "REMOVE_INIT", "A_PRE"} \cup Looking)
        /\ "failed" \notin StageTwoPhases
    BY <2>2 DEF Looking, StageTwoPhases
  <2> QED BY <1>5, <2>1, <2>3, <2>4
<1> QED BY <1>4, <1>6, <1>7, <1>8

\* A process that gives up waiting only takes its semaphore away.
LEMMA WaiterLeavesKeeps ==
  ASSUME IndInv, WaiterLeaves
  PROVE  IndInv' /\ ConfiguredStep
<1>1. UNCHANGED <<main, db, ev, scan, dm, scans>>
  BY DEF WaiterLeaves
<1>2. PICK n \in DOMAIN sem : sem' = [sem EXCEPT ![n] = 0]
  BY DEF WaiterLeaves
<1>3. sem \in [1..MaxScans -> 0..1]
  BY DEF IndInv, Types
<1>4. sem' \in [1..MaxScans -> 0..1] /\ \A k \in 1..MaxScans : sem[k] = 0 => sem'[k] = 0
  BY <1>2, <1>3
<1>5. Rec' = Rec
  BY <1>1 DEF Rec
<1>6. Types'
  BY <1>1, <1>4 DEF IndInv, Types
<1>7. Cookie'
  <2>1. HasCookie(Rec') <=> HasCookie(Rec)
    BY <1>5
  <2> QED BY <1>1, <1>4, <1>5, <2>1 DEF IndInv, Cookie
<1>8. MainStore' /\ Staged' /\ Context' /\ Unconfigured' /\ Cached' /\ ScannedIsProcessed' /\ ClaimedHeldBack'
      /\ ConfiguredStep
  BY <1>1, <1>5 DEF IndInv, MainStore, Coherent, Staged, Context, ClaimedBy, Unconfigured,
                    Activates, Cached, Running, ScannedIsProcessed, ClaimedHeldBack, Claimed,
                    ConfiguredStep, Rec
<1>9. scan'.phase # "idle" => (Coherent(Rec))'
  BY <1>1, <1>5 DEF IndInv, Coherent
<1> QED BY <1>6, <1>7, <1>8, <1>9 DEF IndInv

\* _init_command: the environment of the event is in the worker's store, the context is new.
LEMMA ReceiveKeeps ==
  ASSUME IndInv, NEW d \in Devices, NEW e \in Events, Receive(d, e)
  PROVE  IndInv' /\ ConfiguredStep
<1>1. /\ e.action \in {"add", "change", "remove"} /\ e.cookie \in {"no", "bad", "yes"}
      /\ e.flags \in SUBSET Flags /\ e.synth \in BOOLEAN /\ e.suspended \in BOOLEAN
      /\ e.uuid \in {"lvm", "other"}
  BY EventsAssumption DEF EventType
<1>2. /\ Types /\ MainStore /\ scans \in 0..MaxScans /\ scans < MaxScans /\ MaxScans \in Nat
      /\ main \in [Devices -> RecordType] /\ main[d] \in RecordType /\ sem \in [1..MaxScans -> 0..1]
  BY ScanAssumption DEF IndInv, Types, Receive
<1> DEFINE n == scans + 1
<1>3. n \in Nat /\ n \in 1..MaxScans /\ n # 0
  BY <1>2
<1>4. scans' = n /\ main' = main /\ dm' = [cur |-> "none", next |-> "none"] /\ scan' = NewContext(e)
  BY DEF Receive
<1>6. sem' = (IF e.cookie = "yes" THEN [sem EXCEPT ![n] = 1] ELSE sem)
  BY DEF Receive
<1>7. ev' = [dev |-> d, id |-> n, action |-> e.action, cookie |-> e.cookie,
             flags |-> e.flags, synth |-> e.synth, suspended |-> e.suspended, uuid |-> e.uuid]
  BY DEF Receive
<1> DEFINE ck == CASE e.cookie = "no"  -> main[d].udevCookie
                   [] e.cookie = "bad" -> [valid |-> FALSE, cookie |-> NoCookie]
                   [] OTHER -> [valid |-> TRUE, cookie |-> [id |-> n, flags |-> e.flags]]
           new == [main[d] EXCEPT !.udevCookie = ck]
<1>8. db' = [main EXCEPT ![d] = new]
  BY <1>2 DEF Receive
<1> HIDE DEF n
<1>9. /\ ev' \in EvType /\ ev'.dev = d /\ ev'.id = n /\ ev'.action = e.action
      /\ ev'.cookie = e.cookie /\ ev'.flags = e.flags
  BY <1>1, <1>3, <1>7 DEF EvType
<1>10. /\ ck \in [valid : BOOLEAN, cookie : [id : Nat, flags : SUBSET Flags]]
       /\ e.cookie # "yes" => ~(ck.valid /\ ck.cookie.id # 0)
       /\ e.cookie = "yes" => ck.valid /\ ck.cookie.id = n /\ ck.cookie.flags = e.flags
  <2>1. CASE e.cookie = "no"
    <3>1. ck = main[d].udevCookie
      BY <2>1
    <3>2. main[d].udevCookie.cookie.id = 0
      BY <1>2 DEF MainStore
    <3>3. main[d].udevCookie \in [valid : BOOLEAN, cookie : [id : Nat, flags : SUBSET Flags]]
      BY <1>2 DEF RecordType
    <3> HIDE DEF ck
    <3> QED BY <2>1, <3>1, <3>2, <3>3
  <2>2. CASE e.cookie = "bad"
    <3>1. ck = [valid |-> FALSE, cookie |-> NoCookie]
      BY <2>2
    <3> HIDE DEF ck
    <3> QED BY <2>2, <3>1 DEF NoCookie
  <2>3. CASE e.cookie = "yes"
    <3>1. ck = [valid |-> TRUE, cookie |-> [id |-> n, flags |-> e.flags]]
      BY <2>3
    <3> HIDE DEF ck
    <3> QED BY <1>1, <1>3, <2>3, <3>1
  <2> QED BY <1>1, <2>1, <2>2, <2>3
<1> HIDE DEF ck
<1>11. /\ new \in RecordType /\ new.udevCookie = ck /\ new.alias = main[d].alias
       /\ new.ready = main[d].ready /\ new.reserved = main[d].reserved
       /\ new.sub = main[d].sub /\ new.suspended = main[d].suspended
  BY <1>2, <1>10 DEF RecordType
<1> HIDE DEF new
<1>12. db' \in [Devices -> RecordType] /\ Rec' = new /\ db'[d] = new
  BY <1>2, <1>8, <1>9, <1>11 DEF Rec
<1>13. /\ scan' \in ScanType /\ scan'.stage = 1 /\ scan'.ready = "undefined" /\ scan'.reserved = "undefined"
       /\ scan'.phase = IF e.action = "remove" THEN "REMOVE_INIT" ELSE "A_INIT"
  <2> DEFINE ph == IF e.action = "remove" THEN "REMOVE_INIT" ELSE "A_INIT"
  <2>1. ph \in Phases /\ 1 \in 0..2
    BY DEF Phases, StageOnePhases
  <2>2. NoScan \in ScanType /\ NoScan.ready = "undefined" /\ NoScan.reserved = "undefined"
    BY DEF NoScan, ScanType, Phases, ReadyStates, ReservedStates
  <2>3. NewContext(e) = [NoScan EXCEPT !.stage = 1, !.phase = ph]
    BY DEF NewContext
  <2> HIDE DEF ph
  <2>4. ASSUME NEW s \in ScanType
        PROVE  /\ [s EXCEPT !.stage = 1, !.phase = ph] \in ScanType
               /\ [s EXCEPT !.stage = 1, !.phase = ph].stage = 1
               /\ [s EXCEPT !.stage = 1, !.phase = ph].phase = ph
               /\ [s EXCEPT !.stage = 1, !.phase = ph].ready = s.ready
               /\ [s EXCEPT !.stage = 1, !.phase = ph].reserved = s.reserved
    BY <2>1 DEF ScanType
  <2>5. /\ scan' \in ScanType /\ scan'.stage = 1 /\ scan'.ready = "undefined" /\ scan'.reserved = "undefined"
        /\ scan'.phase = ph
    BY <1>4, <2>2, <2>3, <2>4
  <2> QED BY <2>5 DEF ph
<1>14. /\ scan'.phase \in {"A_INIT", "REMOVE_INIT"} /\ scan'.stage = 1 /\ scan'.ready = "undefined"
       /\ scan'.reserved = "undefined" /\ (scan'.phase = "REMOVE_INIT" => ev'.action = "remove")
  BY <1>9, <1>13
<1>15. Types'
  <2>1. sem' \in [1..MaxScans -> 0..1]
    BY <1>2, <1>3, <1>6
  <2>2. scans' \in 0..MaxScans
    BY <1>2, <1>3, <1>4
  <2>3. dm' \in [cur : {"none", "lvm"}, next : {"none", "lvm"}]
    BY <1>4
  <2> QED BY <1>2, <1>4, <1>9, <1>12, <1>13, <2>1, <2>2, <2>3 DEF Types
<1>16. Staged' /\ Context'
  <2>1. Staged'
    BY <1>14 DEF Staged, StageOnePhases, StageTwoPhases
  <2>2. dm'.cur = "none" /\ Rec'.sub = main'[ev'.dev].sub
    BY <1>4, <1>9, <1>11, <1>12
  <2>3. Context'
    BY <1>14, <2>2 DEF Context, Looking
  <2> QED BY <2>1, <2>3
<1>17. Cookie'
  <2>2. Rec'.udevCookie = ck
    BY <1>11, <1>12
  <2>3. scan'.phase \in Early
    BY <1>14 DEF Early
  <2> QED BY <1>3, <1>4, <1>9, <1>10, <2>2, <2>3 DEF Cookie, HasCookie
<1>18. Unconfigured'
  BY <1>4, <1>9, <1>11, <1>12, <1>14 DEF Unconfigured
<1>19. (Coherent(Rec))'
  BY <1>2, <1>9, <1>11, <1>12 DEF MainStore, Coherent
<1>20. Cached' /\ ScannedIsProcessed' /\ ClaimedHeldBack'
  BY <1>14 DEF Cached, ScannedIsProcessed, ClaimedHeldBack, Looking
<1>21. MainStore' /\ ConfiguredStep
  BY <1>2, <1>4 DEF MainStore, Coherent, ConfiguredStep
<1> QED BY <1>15, <1>16, <1>17, <1>18, <1>19, <1>20, <1>21 DEF IndInv

-----------------------------------------------------------------------------
(***************************************************************************)
(* The theorems.                                                           *)
(***************************************************************************)

\* The initial state satisfies the invariant: nothing is known, no scan has begun.
LEMMA InitInd == "unprocessed" \notin LostWrites /\ Init => IndInv
<1> SUFFICES ASSUME "unprocessed" \notin LostWrites, Init PROVE IndInv
  OBVIOUS
<1>1. /\ NoRecord \in RecordType /\ NoRecord.udevCookie.cookie.id = 0
      /\ \A d : Coherent(NoRecord)
  <2> DEFINE c == [valid |-> TRUE, cookie |-> NoCookie]
  <2>1. c \in [valid : BOOLEAN, cookie : [id : Nat, flags : SUBSET Flags]] /\ c.cookie.id = 0
    BY DEF NoCookie
  <2>2. NoRecord = [alias |-> FALSE, ready |-> "undefined", reserved |-> "undefined", udevCookie |-> c,
                    base |-> 0, flags |-> {}, suspended |-> FALSE,
                    uuid |-> "unset", sub |-> "unset", fstype |-> "none", next |-> FALSE]
    BY DEF NoRecord
  <2> HIDE DEF c
  <2>3. NoRecord \in RecordType
    BY <2>1, <2>2 DEF RecordType, ReadyStates, ReservedStates
  <2>4. NoRecord.udevCookie.cookie.id = 0 /\ ~NoRecord.alias /\ NoRecord.ready = "undefined"
        /\ NoRecord.sub = "unset"
    BY <2>1, <2>2
  <2> QED BY <2>3, <2>4 DEF Coherent
<1>2. main = [d \in Devices |-> NoRecord] /\ db = main
  BY DEF Init
<1>3. MainStore
  BY <1>1, <1>2 DEF MainStore
<1>4. scan \in ScanType /\ scan.phase = "idle" /\ scan.stage = 0 
  BY DEF Init, NoScan, ScanType, Phases, ReadyStates, ReservedStates
<1>5. Types
  <2>1. main \in [Devices -> RecordType] /\ db \in [Devices -> RecordType]
    BY <1>1, <1>2
  <2>2. scans \in 0..MaxScans /\ sem \in [1..MaxScans -> 0..1]
    BY ScanAssumption DEF Init
  <2>3. dm \in [cur : {"none", "lvm"}, next : {"none", "lvm"}]
    BY DEF Init
  <2> QED BY <1>4, <2>1, <2>2, <2>3 DEF Types
<1>6. Staged /\ Context /\ Cookie /\ Unconfigured /\ Cached /\ ScannedIsProcessed /\ ClaimedHeldBack
  BY <1>4 DEF Staged, Context, Cookie, Unconfigured, Cached, Running, Over, ScannedIsProcessed,
              ClaimedHeldBack, Looking, StageOnePhases, StageTwoPhases
<1> QED BY <1>3, <1>4, <1>5, <1>6 DEF IndInv

\* Every step keeps it, and moves the main store only as ConfiguredByCookie allows.
LEMMA NextInd == IndInv /\ [Next]_vars => IndInv' /\ (ConfiguredStep \/ UNCHANGED vars)
<1> SUFFICES ASSUME IndInv, [Next]_vars
             PROVE  IndInv' /\ (ConfiguredStep \/ UNCHANGED vars)
  OBVIOUS
<1>1. CASE UNCHANGED vars
  BY <1>1 DEF vars, IndInv, Types, MainStore, Staged, Context, ClaimedBy, Claimed, Activates, Cookie,
              Unconfigured, Coherent, Rec,
              Cached, Running, ScannedIsProcessed, ClaimedHeldBack, HasCookie
<1>2. CASE \E d \in Devices, e \in Events : Receive(d, e)
  BY <1>2, ReceiveKeeps
<1>3. CASE AInit
  BY <1>3, CommonScanInitKeeps DEF AInit
<1>4. CASE APre
  BY <1>4, APreKeeps
<1>5. CASE ACurrent
  BY <1>5, ACurrentKeeps
<1>6. CASE ANext
  BY <1>6, ANextKeeps
<1>7. CASE APostCurrent \/ APostNext
  BY <1>7, LookingOnly
<1>8. CASE AExit
  BY <1>8, AExitKeeps
<1>9. CASE RemoveInit
  BY <1>9, CommonScanInitKeeps DEF RemoveInit
<1>10. CASE RemoveCurrent \/ RemoveExit
  BY <1>10, LookingOnly
<1>11. CASE BInit \/ BActionNext \/ BExit
  BY <1>11, LookingOnly
<1>12. CASE BActionCurrent
  BY <1>12, BActionCurrentKeeps
<1>13. CASE ErrorPhase \/ StageTwoBegins \/ StageTimeout
  BY <1>13, BetweenKeeps
<1>14. CASE WaiterLeaves
  BY <1>14, WaiterLeavesKeeps
<1> QED BY <1>1, <1>2, <1>3, <1>4, <1>5, <1>6, <1>7, <1>8, <1>9, <1>10, <1>11, <1>12, <1>13, <1>14
        DEF Next

\* The inductive invariant holds in every behaviour of the scan command in which the
\* first state of a new device is always written.
THEOREM Invariance == "unprocessed" \notin LostWrites /\ Spec => []IndInv
<1>1. "unprocessed" \notin LostWrites /\ Init => IndInv
  BY InitInd
<1>2. IndInv /\ [Next]_vars => IndInv'
  BY NextInd
<1> QED BY <1>1, <1>2, PTL DEF Spec

\* For any devices, events and number of scans: a device whose stage 1 returned to the
\* command handler has a ready and a reserved state, also when phases failed on the way
\* (_cmd_exec_scan, _cmd_exec_scan_a_exit), and they are in the store unless it could not
\* be written (_do_sid_ucmd_kv_set).
THEOREM ScannedProcessed == "unprocessed" \notin LostWrites /\ Spec => []ScannedIsProcessed
<1>1. IndInv => ScannedIsProcessed
  BY DEF IndInv
<1> QED BY <1>1, Invariance, PTL

\* A command that finishes has released the process that waits on the cookie of its event
\* (_get_cookie_props records it, _dm_scan_action_current completes it).
THEOREM CookieIsReleased == "unprocessed" \notin LostWrites /\ Spec => []CookieReleased
<1>1. IndInv => CookieReleased
  <2> SUFFICES ASSUME IndInv, scan.phase = "fin", ev.cookie = "yes", ev.dev \in DmDevices
               PROVE  sem[ev.id] = 0
    BY DEF CookieReleased
  <2>1. scan.stage = 2
    BY DEF IndInv, Staged, StageTwoPhases
  <2> QED BY <2>1 DEF IndInv, Cookie, Early
<1> QED BY <1>1, Invariance, PTL

\* A device lvm has claimed, or that has to be claimed by it, is kept from the phases that
\* look at its content when its event says NOSCAN (_dm_submod_common_scan_init finds lvm,
\* _dm_scan_pre decides, then _lvm_scan_pre).
THEOREM ClaimedIsHeldBack == "unprocessed" \notin LostWrites /\ Spec => []ClaimedHeldBack
<1>1. IndInv => ClaimedHeldBack
  BY DEF IndInv
<1> QED BY <1>1, Invariance, PTL

\* In the main store a device leaves "unconfigured" only by the scan of an event that says
\* that it has an active table (the switch of _dm_scan_pre and its sanity check).
THEOREM ConfiguredOnlyByCookie == "unprocessed" \notin LostWrites /\ Spec => ConfiguredByCookie
<1>1. IndInv /\ [Next]_vars =>
        [\A d \in Devices : main[d].ready = "unconfigured" /\ main'[d].ready # "unconfigured"
                              => d = ev.dev /\ Activates]_vars
  BY NextInd DEF ConfiguredStep
<1> QED BY <1>1, Invariance, PTL DEF Spec, ConfiguredByCookie
=============================================================================
