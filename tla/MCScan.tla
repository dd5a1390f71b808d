-------------------------------- MODULE MCScan --------------------------------
(***************************************************************************)
(* Scan for TLC: a device-mapper number, which is a logical volume's or    *)
(* another device's, and a disk.                                           *)
(***************************************************************************)
EXTENDS Scan

Ev(action, cookie, flags, synth, suspended, uuid) ==
  [action |-> action, cookie |-> cookie, flags |-> flags, synth |-> synth,
   suspended |-> suspended, uuid |-> uuid]

\* Events as dm and udev send them: add and change without a cookie, genuine or
\* synthetic, change and remove with one, a suspended device; and wrong ones: a
\* synthetic change with a cookie, a cookie that is no number.  Of a device that is
\* removed nobody reads the UUID.
MCEvents ==
  {Ev("add", "no", {}, FALSE, FALSE, u) : u \in {"lvm", "other"}} \cup
  {Ev("change", "yes", f, FALSE, FALSE, u) : f \in {{}, {"noscan"}}, u \in {"lvm", "other"}} \cup
  {Ev("remove", "yes", {}, FALSE, FALSE, "other"),
   Ev("change", "no", {}, TRUE, FALSE, "lvm"), Ev("change", "yes", {}, TRUE, FALSE, "lvm"),
   Ev("change", "no", {}, FALSE, FALSE, "lvm"), Ev("change", "no", {}, FALSE, TRUE, "lvm"),
   Ev("change", "bad", {}, FALSE, FALSE, "other"),
   Ev("change", "yes", {"other", "noscan"}, FALSE, FALSE, "lvm"),
   Ev("change", "yes", {"disk"}, FALSE, FALSE, "other")}
=============================================================================
