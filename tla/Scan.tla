---------------------------------- MODULE Scan ----------------------------------
(***************************************************************************)
(* The scan command of ubr.c, one worker process per scan, together with   *)
(* the device modules it calls: the type module dm                         *)
(* (modules/ucmd/type/dm/dm.c), dm's submodule lvm and the block modules.  *)
(*                                                                         *)
(* A uevent is imported into the worker's store, stage 1 runs the phases   *)
(* A_INIT .. A_EXIT (REMOVE_INIT .. REMOVE_EXIT for a remove event) and    *)
(* stage 2, entered when udev is done with the device, B_INIT .. B_EXIT.   *)
(* Each phase is one action.  Every worker begins with the main process's  *)
(* store and modules as they are when it is forked; what a stage that      *)
(* succeeded recorded for synchronization is merged into the main store,   *)
(* or lost when the merge fails (ubr.c drops its result).                  *)
(*                                                                         *)
(* One scan runs at a time: udev keeps the events of a device in order,    *)
(* stage 1 is merged before udev is answered, and stage 2 changes no       *)
(* record a later scan reads.                                              *)
(*                                                                         *)
(* Block modules hold no state the phases depend on, and every caller      *)
(* drops their result: they appear where blkid leaves a record (ANext).    *)
(* Of the writes to the worker's store those of the ready and the reserved *)
(* state may fail (LostWrites); the others succeed.                        *)
(***************************************************************************)
EXTENDS Integers

CONSTANTS
  Devices,      \* device numbers, major:minor
  DmDevices,    \* the ones whose driver is device-mapper: type module dm
  Events,       \* the uevents to choose from: see EventType
  LostWrites,   \* states of a device whose write to the store may fail
  MaxScans      \* bound on the scans of a run

ASSUME ScanAssumption == DmDevices \subseteq Devices /\ MaxScans \in Nat

Flags == {"other", "disk", "noscan"}   \* DISABLE_OTHER_RULES, DISABLE_DISK_RULES, SUBSYSTEM_UDEV_FLAG0
NoCookie == [id |-> 0, flags |-> {}]

\* A uevent and what sysfs says of its device.  cookie: "no", "bad" (not a number) or
\* "yes"; uuid: whether the dm UUID has the LVM prefix, numbers are used again.
EventType == [action : {"add", "change", "remove"}, cookie : {"no", "bad", "yes"},
              flags : SUBSET Flags, synth : BOOLEAN, suspended : BOOLEAN,
              uuid : {"lvm", "other"}]

ASSUME EventsAssumption == Events \subseteq EventType


InitPhases == {"A_INIT", "REMOVE_INIT", "B_INIT"}
ExitPhases == {"A_EXIT", "REMOVE_EXIT", "B_EXIT"}

\* The phases whose entry in _cmd_scan_phase_regs lets a module set the state.
CapRdy == {"A_INIT", "A_PRE", "A_CURRENT", "A_EXIT", "REMOVE_INIT", "B_INIT"}
CapRes == {"A_INIT", "A_NEXT", "A_EXIT", "REMOVE_INIT", "B_INIT"}

VARIABLES
  main,     \* the main process's store: what it records of each device
  db,       \* the same of the worker's store
  ev,       \* the uevent of the running scan, with its device and its cookie
  scan,     \* ucmd_ctx: stage, phase, cached states, modules, block iterator
  dm,       \* dm_mod_ctx: submod_res_current, submod_res_next
  sem,      \* the semaphore of each cookie: events still to be completed
  scans     \* scans begun

vars == <<main, db, ev, scan, dm, sem, scans>>

\* A device the store knows nothing of.
NoRecord == [alias |-> FALSE, ready |-> "undefined", reserved |-> "undefined",
             udevCookie |-> [valid |-> TRUE, cookie |-> NoCookie],
             base |-> 0, flags |-> {}, suspended |-> FALSE,
             uuid |-> "unset", sub |-> "unset", fstype |-> "none", next |-> FALSE]

NoEvent == [dev |-> CHOOSE d \in Devices : TRUE, id |-> 0, action |-> "change", cookie |-> "no",
            flags |-> {}, synth |-> FALSE, suspended |-> FALSE, uuid |-> "other"]

NoScan == [stage |-> 0, phase |-> "idle", erred |-> FALSE, ready |-> "undefined",
           reserved |-> "undefined", cur |-> FALSE, nxt |-> FALSE, iter |-> FALSE]

Init ==
  /\ main = [d \in Devices |-> NoRecord]
  /\ db = main
  /\ ev = NoEvent
  /\ scan = NoScan
  /\ dm = [cur |-> "none", next |-> "none"]
  /\ sem = [n \in 1..MaxScans |-> 0]
  /\ scans = 0

-----------------------------------------------------------------------------
(***************************************************************************)
(* Ready and reserved state.  v is a state as the store holds it, as the   *)
(* command caches it, the result of the last call, and the states whose    *)
(* write fails in this phase.                                              *)
(***************************************************************************)
ReadyView(lost) == [stored |-> db[ev.dev].ready, cache |-> scan.ready, r |-> 0, lost |-> lost]
ReservedView(lost) == [stored |-> db[ev.dev].reserved, cache |-> scan.reserved, r |-> 0, lost |-> lost]

\* _do_sid_ucmd_dev_get_ready, _do_sid_ucmd_dev_get_reserved: the store is read once.
GetState(v) == [v EXCEPT !.cache = IF @ = "undefined" THEN v.stored ELSE @]

ReadyMayBecome(old, new) ==
  CASE new = "undefined"    -> FALSE
    [] new = "unprocessed"  -> old = "undefined"
    [] new = "unconfigured" -> old = "unprocessed"
    [] OTHER                -> old # "undefined"

ReservedMayBecome(old, new) == new # "undefined" /\ (new = "unprocessed" => old = "undefined")

\* Which of the writes of these states fail.
Losses(states) == SUBSET (LostWrites \cap states)

\* _do_sid_ucmd_dev_set_ready, _do_sid_ucmd_dev_set_reserved: a write that fails comes back
\* as 1, which is taken for success (_do_sid_ucmd_kv_set).
SetState(v, new, allowed) ==
  IF ~allowed THEN [v EXCEPT !.r = -1]
  ELSE IF new = v.cache THEN [v EXCEPT !.r = 0]
  ELSE IF new \in v.lost THEN [v EXCEPT !.cache = new, !.r = 1]
  ELSE [v EXCEPT !.stored = new, !.cache = new, !.r = 0]

SetReady(v, phase, new) ==
  SetState(v, new, phase \in CapRdy /\ (new = v.cache \/ ReadyMayBecome(v.cache, new)))

SetReserved(v, phase, new) ==
  SetState(v, new, phase \in CapRes /\ (new = v.cache \/ ReservedMayBecome(v.cache, new)))

-----------------------------------------------------------------------------
(***************************************************************************)
(* The dm module.  rec is the record of the device, m dm's own state.      *)
(***************************************************************************)
HasCookie(rec) == rec.udevCookie.valid /\ rec.udevCookie.cookie.id # 0

\* Fault: the base of the cookie is not recorded.
GetCookiePropsNoBase(rec) ==
  IF ~rec.udevCookie.valid THEN rec ELSE [rec EXCEPT !.flags = rec.udevCookie.cookie.flags]

\* _get_cookie_props: what DM_COOKIE of the udev environment says is recorded; without
\* a cookie only the flags are unset.
GetCookieProps(rec) ==
  IF ~rec.udevCookie.valid THEN rec
  ELSE IF HasCookie(rec)
  THEN [rec EXCEPT !.base = rec.udevCookie.cookie.id, !.flags = rec.udevCookie.cookie.flags]
  ELSE [rec EXCEPT !.flags = {}]

ReadyByFlags(flags) ==
  IF "other" \in flags THEN "private" ELSE IF "disk" \in flags THEN "flat" ELSE "public"

\* The ready states of a device whose table is active: dm follows its cookies.
Activated == {"private", "flat", "unavailable", "public"}

\* Fault: an unconfigured device needs no cookie to be configured.
DmScanPreStateAnyEvent(v, rec) ==
  LET w == GetState(v)
  IN IF rec.suspended THEN SetReady(w, "A_PRE", "unavailable")
     ELSE IF w.cache = "unprocessed" THEN SetReady(w, "A_PRE", "unconfigured")
     ELSE SetReady(w, "A_PRE", ReadyByFlags(rec.flags))

\* The switch of _dm_scan_pre.
DmScanPreState(v, rec) ==
  LET w == GetState(v)
      cookie == HasCookie(rec)
      unconfigured == SetReady(w, "A_PRE", "unconfigured")
  IN IF rec.suspended THEN SetReady(w, "A_PRE", "unavailable")
     ELSE IF w.cache = "undefined" THEN [w EXCEPT !.r = -1]
     ELSE IF w.cache = "unprocessed"
          THEN IF cookie
               THEN IF unconfigured.r < 0 THEN unconfigured
                    ELSE SetReady(unconfigured, "A_PRE", ReadyByFlags(rec.flags))
               ELSE IF ev.synth THEN SetReady(w, "A_PRE", "public")
               ELSE IF ev.action = "add" THEN unconfigured
               ELSE w
     ELSE IF w.cache \in {"unconfigured"} \cup Activated /\ cookie
          THEN SetReady(w, "A_PRE", ReadyByFlags(rec.flags))
     ELSE w

\* The sanity check of _dm_scan_pre: only a genuine change event has a cookie.
CookieMismatch(rec) == HasCookie(rec) /\ (ev.synth \/ ev.action # "change")

\* _lvm_scan_pre: NOSCAN holds a logical volume back until its data is in place.
LvmScanPre(v, rec) ==
  LET w == GetState(v)
  IN IF w.cache \in {"public", "private"} /\ "noscan" \in rec.flags
     THEN SetReady(w, "A_PRE", "uninitialized")
     ELSE IF w.cache = "uninitialized" /\ "noscan" \notin rec.flags
     THEN SetReady(w, "A_PRE", "public")
     ELSE w

\* Fault: the submodule is asked before dm has decided.
DmScanPreSubmodFirst(v, rec, m) ==
  IF ~rec.udevCookie.valid \/ CookieMismatch(rec) THEN [v EXCEPT !.r = -1]
  ELSE DmScanPreState(IF m.cur = "lvm" THEN LvmScanPre(v, rec) ELSE v, rec)

\* _dm_scan_pre
DmScanPre(v, rec, m) ==
  IF ~rec.udevCookie.valid THEN [v EXCEPT !.r = -1]
  ELSE IF CookieMismatch(rec) THEN [GetState(v) EXCEPT !.r = -1]
  ELSE LET w == DmScanPreState(v, rec)
       IN IF w.r < 0 \/ m.cur # "lvm" THEN w ELSE LvmScanPre(w, rec)

\* _lvm_subsys_match_current reads the UUID that dm has recorded, if it has.
LvmMatchesCurrent(rec) == rec.uuid = "lvm"

\* _dm_submod_common_scan_init without its A_INIT call: the submodule is the one
\* recorded for the device, or the one that claims it.
SubmodMatch(rec, m) ==
  IF rec.sub = "unset"
  THEN IF LvmMatchesCurrent(rec) THEN [m EXCEPT !.cur = "lvm"] ELSE m
  ELSE IF rec.sub = "none" THEN m ELSE [m EXCEPT !.cur = rec.sub]

SubmodRecord(rec, m) ==
  IF rec.sub = "unset" THEN [rec EXCEPT !.sub = SubmodMatch(rec, m).cur] ELSE rec

-----------------------------------------------------------------------------
(***************************************************************************)
(* A request: a worker is forked, and the environment of the uevent goes   *)
(* into its store, in records that are never synchronized.                 *)
(***************************************************************************)
Over == {"idle", "fin", "failed"}

\* The context of a new command, scheduled for its first stage.
NewContext(e) ==
  [NoScan EXCEPT !.stage = 1, !.phase = IF e.action = "remove" THEN "REMOVE_INIT" ELSE "A_INIT"]

\* _init_command: _parse_cmd_udev_env, _device_add_field.
Receive(d, e) ==
  /\ scan.phase \in Over
  /\ scans < MaxScans
  /\ e.uuid = "lvm" => d \in DmDevices
  /\ scans' = scans + 1
  /\ ev' = [dev |-> d, id |-> scans + 1, action |-> e.action, cookie |-> e.cookie,
            flags |-> e.flags, synth |-> e.synth, suspended |-> e.suspended, uuid |-> e.uuid]
  /\ db' = [main EXCEPT ![d].udevCookie =
              CASE e.cookie = "no"  -> @
                [] e.cookie = "bad" -> [valid |-> FALSE, cookie |-> NoCookie]
                [] OTHER -> [valid |-> TRUE, cookie |-> [id |-> scans + 1, flags |-> e.flags]]]
  /\ sem' = IF e.cookie = "yes" THEN [sem EXCEPT ![scans + 1] = 1] ELSE sem
  /\ scan' = NewContext(e)
  /\ dm' = [cur |-> "none", next |-> "none"]
  /\ UNCHANGED main

-----------------------------------------------------------------------------
(***************************************************************************)
(* _cmd_exec_scan: the loop over the phases.                               *)
(***************************************************************************)
\* The next entry of _cmd_scan_phase_regs, or the end of the stage.
Following(p) ==
  CASE p = "A_INIT"           -> "A_PRE"
    [] p = "A_PRE"            -> "A_CURRENT"
    [] p = "A_CURRENT"        -> "A_NEXT"
    [] p = "A_NEXT"           -> "A_POST_CURRENT"
    [] p = "A_POST_CURRENT"   -> "A_POST_NEXT"
    [] p = "A_POST_NEXT"      -> "A_EXIT"
    [] p = "REMOVE_INIT"      -> "REMOVE_CURRENT"
    [] p = "REMOVE_CURRENT"   -> "REMOVE_EXIT"
    [] p = "B_INIT"           -> "B_ACTION_CURRENT"
    [] p = "B_ACTION_CURRENT" -> "B_ACTION_NEXT"
    [] p = "B_ACTION_NEXT"    -> "B_EXIT"
    [] p \in {"A_EXIT", "REMOVE_EXIT"} -> "stage_wait"
    [] p = "B_EXIT"           -> "fin"

ExitOf(stage) ==
  IF stage = 2 THEN "B_EXIT" ELSE IF ev.action = "remove" THEN "REMOVE_EXIT" ELSE "A_EXIT"

\* The phase that comes after phase p returned r.  After the error phase the result of
\* the exit phase is only logged.
AfterPhase(p, r) ==
  IF r >= 0 \/ (p \in ExitPhases /\ scan.erred) THEN Following(p)
  ELSE IF p \in InitPhases \cup ExitPhases THEN "failed"
  ELSE "ERROR"

\* What the main store gets of a record: not the udev environment and not the base
\* of the cookie, which lack the flag SC.
Synced(rec) == [rec EXCEPT !.udevCookie = NoRecord.udevCookie, !.base = NoRecord.base]

\* Phase p returned r; it left the device record rec, the ready state v and the context
\* ctx.  The end of stage 1 sends the export; stage 2 has nothing to add to it.
EndPhase(p, r, rec, v, ctx) ==
  /\ db' = [db EXCEPT ![ev.dev] = [rec EXCEPT !.ready = v.stored]]
  /\ \/ main' = main
     \/ /\ AfterPhase(p, r) = "stage_wait"
        /\ main' = [main EXCEPT ![ev.dev] = Synced(db'[ev.dev])]
  /\ scan' = [ctx EXCEPT !.phase = AfterPhase(p, r), !.ready = v.cache]
  /\ UNCHANGED <<ev, scans>>

Rec == db[ev.dev]

\* _set_dev_kvs, _set_new_dev_kvs: a device whose number has no alias is new.
NewDevReady(p, lost) ==
  IF Rec.alias THEN ReadyView(lost) ELSE SetReady(ReadyView(lost), p, "unprocessed")
NewDevReserved(p, lost) ==
  IF Rec.alias THEN ReservedView(lost) ELSE SetReserved(ReservedView(lost), p, "unprocessed")
NewDevRecord(reserved) == [Rec EXCEPT !.alias = TRUE, !.reserved = reserved.stored]

\* The type module's part of A_INIT and REMOVE_INIT: _dm_scan_a_init, _dm_scan_remove_init.
\* props: sysfs could be read; names: lvm could split the name.  What a failing phase has
\* recorded goes with the worker.
DmInitMatches(p, rec, props) == IF p = "A_INIT" THEN props ELSE rec.udevCookie.valid

\* Fault: the submodules are asked before the UUID is recorded.
DmInitPropsNoUuid(p, rec) ==
  IF p = "A_INIT" THEN [rec EXCEPT !.suspended = ev.suspended] ELSE GetCookieProps(rec)

\* _get_sysfs_props; a remove event has no sysfs to read and records no UUID.
DmInitProps(p, rec) ==
  IF p = "A_INIT" THEN [rec EXCEPT !.uuid = ev.uuid, !.suspended = ev.suspended]
  ELSE GetCookieProps(rec)

DmInitRecord(p, rec, props) ==
  IF DmInitMatches(p, rec, props) THEN SubmodRecord(DmInitProps(p, rec), dm) ELSE rec

DmInitModules(p, rec, props) ==
  IF DmInitMatches(p, rec, props) THEN SubmodMatch(DmInitProps(p, rec), dm) ELSE dm

DmInitFails(p, rec, props, names) ==
  \/ ~DmInitMatches(p, rec, props)
  \/ DmInitModules(p, rec, props).cur = "lvm" /\ ~names

\* _common_scan_init.  found: the module's name and the dependencies could be looked up.
CommonScanInit(p) ==
  /\ scan.phase = p
  /\ \E found, props, names \in BOOLEAN : \E lost \in Losses({"unprocessed"}) :
     \E lostReserved \in Losses({"unprocessed"}) :
       LET reserved == NewDevReserved(p, lostReserved)
           rec == NewDevRecord(reserved)
           cur == found /\ ev.dev \in DmDevices
           r == IF ~found \/ (cur /\ DmInitFails(p, rec, props, names)) THEN -1 ELSE 0
       IN /\ EndPhase(p, r, IF cur THEN DmInitRecord(p, rec, props) ELSE rec, NewDevReady(p, lost),
                      [scan EXCEPT !.reserved = reserved.cache, !.cur = cur, !.iter = found])
          /\ dm' = IF cur THEN DmInitModules(p, rec, props) ELSE dm
          /\ UNCHANGED sem

AInit == CommonScanInit("A_INIT")

APre ==
  /\ scan.phase = "A_PRE"
  /\ \E lost \in Losses({"unconfigured", "uninitialized"} \cup Activated) :
       LET rec == IF scan.cur THEN GetCookieProps(Rec) ELSE Rec
           v == IF scan.cur THEN DmScanPre(ReadyView(lost), rec, dm) ELSE ReadyView(lost)
       IN EndPhase("A_PRE", v.r, rec, v, scan)
  /\ UNCHANGED <<dm, sem>>

\* _cmd_exec_scan_a_current: a device no type module speaks for is public.  The handlers
\* that run for a suitable state leave the states alone.
ACurrent ==
  /\ scan.phase = "A_CURRENT"
  /\ \E lost \in Losses({"public"}) :
       LET v == GetState(ReadyView(lost))
           w == IF v.cache = "unprocessed" /\ ~scan.cur THEN SetReady(v, "A_CURRENT", "public") ELSE v
       IN EndPhase("A_CURRENT", w.r, Rec, w, scan)
  /\ UNCHANGED <<dm, sem>>

\* _blkid_scan_next, _add_property: a signature blkid knows names the next module.  It
\* finds none when it fails, or when a block module before it did.
BlkidScanNext(rec, fs) == IF fs = "none" THEN rec ELSE [rec EXCEPT !.fstype = fs, !.next = TRUE]

\* _lvm_subsys_match_next
LvmMatchesNext(rec) == rec.fstype = "LVM2_member"

\* _dm_scan_next: the submodules are asked who is next; nobody's claim leaves the old one.
DmScanNext(rec, m) == IF LvmMatchesNext(rec) THEN [m EXCEPT !.next = "lvm"] ELSE m

\* _lvm_scan_next: pvscan is started, or cannot be.
LvmScanNext == {-1, 0}

\* _cmd_exec_scan_a_next
ANext ==
  /\ scan.phase = "A_NEXT"
  /\ LET v == GetState(ReadyView({}))
     IN \/ /\ v.cache # "public"
           /\ EndPhase("A_NEXT", 1, Rec, v, scan)
           /\ UNCHANGED dm
        \/ /\ v.cache = "public"
           /\ \E fs \in {"none", "LVM2_member", "crypto_LUKS"} :
                LET rec == BlkidScanNext(Rec, fs)
                    m == IF rec.next THEN DmScanNext(rec, dm) ELSE dm
                IN \E r \in IF rec.next /\ m.next = "lvm" THEN LvmScanNext ELSE {0} :
                     /\ EndPhase("A_NEXT", r, rec, v, [scan EXCEPT !.nxt = rec.next])
                     /\ dm' = m
  /\ UNCHANGED sem

\* _cmd_exec_scan_a_post_current, _cmd_exec_scan_a_post_next: no handler changes a state.
APost(p, states) ==
  /\ scan.phase = p
  /\ LET v == GetState(ReadyView({})) IN EndPhase(p, IF v.cache \in states THEN 0 ELSE 1, Rec, v, scan)
  /\ UNCHANGED <<dm, sem>>
APostCurrent == APost("A_POST_CURRENT", {"private", "flat", "public"})
APostNext == APost("A_POST_NEXT", {"public"})

\* Fault: the exit phase settles the ready state only when no phase failed.
AExitReadyUnlessErred(lost) ==
  LET v == GetState(ReadyView(lost))
  IN IF v.cache = "unprocessed" /\ ~scan.erred THEN SetReady(v, "A_EXIT", "public") ELSE v

AExitReady(lost) ==
  LET v == GetState(ReadyView(lost))
  IN IF v.cache = "unprocessed" THEN SetReady(v, "A_EXIT", "public") ELSE v

AExitReserved(lost) ==
  LET v == GetState(ReservedView(lost))
  IN IF v.cache = "unprocessed" THEN SetReserved(v, "A_EXIT", "free") ELSE v

AExit ==
  /\ scan.phase = "A_EXIT"
  /\ \E lost \in Losses({"public"}) : \E lostReserved \in Losses({"free"}) :
       LET v == AExitReady(lost)
           w == AExitReserved(lostReserved)
       IN EndPhase("A_EXIT", IF v.r < 0 \/ w.r < 0 THEN -1 ELSE 0,
                   [Rec EXCEPT !.reserved = w.stored], v, [scan EXCEPT !.reserved = w.cache])
  /\ UNCHANGED <<dm, sem>>

RemoveInit == CommonScanInit("REMOVE_INIT")

\* _cmd_exec_scan_remove_current: the dependencies are read again, which may fail.
RemoveCurrent ==
  /\ scan.phase = "REMOVE_CURRENT"
  /\ \E r \in {-1, 0} : EndPhase("REMOVE_CURRENT", r, Rec, ReadyView({}), scan)
  /\ UNCHANGED <<dm, sem>>

\* Phases whose handlers change nothing here: _cmd_exec_scan_remove_exit, _cmd_exec_scan_b_init.
PlainPhase(p) ==
  /\ scan.phase = p
  /\ EndPhase(p, 0, Rec, ReadyView({}), scan)
  /\ UNCHANGED <<dm, sem>>

RemoveExit == PlainPhase("REMOVE_EXIT")

BInit == PlainPhase("B_INIT")

\* _dm_scan_action_current, _udevcomplete: the process that waits on the cookie's
\* semaphore is told; its semaphore is gone once it has been.
BActionCurrent ==
  /\ scan.phase = "B_ACTION_CURRENT"
  /\ LET base == Rec.base
         told == scan.cur /\ base # 0
     IN /\ EndPhase("B_ACTION_CURRENT", IF told /\ sem[base] = 0 THEN -1 ELSE 0, Rec, ReadyView({}), scan)
        /\ sem' = IF told /\ sem[base] > 0 THEN [sem EXCEPT ![base] = @ - 1] ELSE sem
  /\ UNCHANGED dm

\* _dm_scan_action_next, _lvm_scan_action_next: vgchange runs, or cannot be run.
BActionNext ==
  /\ scan.phase = "B_ACTION_NEXT"
  /\ \E r \in IF scan.nxt /\ dm.next = "lvm" THEN {-1, 0} ELSE {0} :
       EndPhase("B_ACTION_NEXT", r, Rec, ReadyView({}), scan)
  /\ UNCHANGED <<dm, sem>>

BExit ==
  /\ scan.phase = "B_EXIT"
  /\ EndPhase("B_EXIT", 0, Rec, ReadyView({}), [scan EXCEPT !.iter = FALSE])
  /\ UNCHANGED <<dm, sem>>

\* _cmd_exec_scan_error, then on to the exit phase of the stage.
ErrorPhase ==
  /\ scan.phase = "ERROR"
  /\ scan' = [scan EXCEPT !.phase = ExitOf(scan.stage), !.erred = TRUE]
  /\ UNCHANGED <<main, db, ev, dm, sem, scans>>

\* udev has processed the event: stage 2 is scheduled.
StageTwoBegins ==
  /\ scan.phase = "stage_wait"
  /\ scan' = [scan EXCEPT !.stage = 2, !.phase = "B_INIT", !.erred = FALSE]
  /\ UNCHANGED <<main, db, ev, dm, sem, scans>>

\* _on_cmd_tim_out_event: udev never said so, the command fails.
StageTimeout ==
  /\ scan.phase = "stage_wait"
  /\ scan' = [scan EXCEPT !.phase = "failed"]
  /\ UNCHANGED <<main, db, ev, dm, sem, scans>>

\* The process that waits on a cookie gives up, its semaphore goes.
WaiterLeaves ==
  /\ \E n \in DOMAIN sem : sem[n] > 0 /\ sem' = [sem EXCEPT ![n] = 0]
  /\ UNCHANGED <<main, db, ev, scan, dm, scans>>

Next ==
  \/ \E d \in Devices, e \in Events : Receive(d, e)
  \/ AInit \/ APre \/ ACurrent \/ ANext \/ APostCurrent \/ APostNext \/ AExit
  \/ RemoveInit \/ RemoveCurrent \/ RemoveExit
  \/ BInit \/ BActionCurrent \/ BActionNext \/ BExit
  \/ ErrorPhase \/ StageTwoBegins \/ StageTimeout
  \/ WaiterLeaves

Spec == Init /\ [][Next]_vars

-----------------------------------------------------------------------------
Running == scan.phase \notin Over

\* Whatever went wrong in its phases, a device whose stage 1 returned to the command
\* handler is settled: stage 2 never sees it unprocessed (_cmd_exec_scan runs A_EXIT after
\* the error phase too, and _cmd_exec_scan_a_exit decides).  The store, which is what other
\* commands will see, has the states the command knows, but for one that could not be
\* written, which the command cannot tell.
ScannedIsProcessed ==
  (scan.phase = "stage_wait" \/ scan.stage = 2) /\ ev.action # "remove"
    => /\ scan.ready \notin {"undefined", "unprocessed"}
       /\ scan.reserved \notin {"undefined", "unprocessed"}
       /\ db[ev.dev].ready = scan.ready \/ scan.ready \in LostWrites
       /\ db[ev.dev].reserved = scan.reserved \/ scan.reserved \in LostWrites

\* The process that waits on the cookie of an event (dmsetup, lvm) is released by a
\* command that finishes, also when phases of it failed on the way.
CookieReleased ==
  scan.phase = "fin" /\ ev.cookie = "yes" /\ ev.dev \in DmDevices => sem[ev.id] = 0

\* The events that say a dm device has an active table: resume, with its cookie, or a
\* device found suspended.
Activates ==
  ev.suspended \/ (ev.cookie = "yes" /\ ev.action = "change" /\ ~ev.synth)

\* A device without an active table is not taken for a usable one: in the main store it
\* leaves "unconfigured" only by the scan of such an event, in none of the phases,
\* defaults and modules that set the state.
ConfiguredByCookie ==
  [][\A d \in Devices : main[d].ready = "unconfigured" /\ main'[d].ready # "unconfigured"
                          => d = ev.dev /\ Activates]_vars

\* The phases that look at the content of a device, or tell others that it can be used.
Looking == {"A_CURRENT", "A_NEXT", "A_POST_CURRENT", "A_POST_NEXT"}

\* lvm is, or has to be, the submodule of the device: it is recorded so, or nothing was
\* recorded when an event of a logical volume came.
Claimed == db[ev.dev].sub = "lvm" \/ (ev.uuid = "lvm" /\ main[ev.dev].sub = "unset")

\* A device lvm has claimed, or that is a logical volume and whose number nobody has
\* claimed or passed over before, is kept from those phases when its event says NOSCAN:
\* dm decides by the cookie first, lvm takes it back in the same phase.
ClaimedHeldBack ==
  scan.phase \in Looking /\ ev.dev \in DmDevices /\ Claimed
  /\ ev.cookie = "yes" /\ "noscan" \in ev.flags
    => scan.ready \notin {"public", "private"}
=============================================================================
