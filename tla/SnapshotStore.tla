---------------------------- MODULE SnapshotStore ----------------------------
(***************************************************************************)
(* The internal snapshots of one machine, kept twice: libvirt has the      *)
(* metadata, the qcow2 files of the disks have the data.  The page creates *)
(* and deletes snapshots and edits their descriptions; data that has lost  *)
(* its metadata is an orphan, which orphan-check reports and               *)
(* orphan-cleanup removes with qemu-img.                                   *)
(*                                                                         *)
(* Handlers run one at a time (src/src/server.c:220); each of their calls  *)
(* to libvirt or to qemu-img is a step, and req is the request in work.    *)
(* Other tools forget metadata and start the machine between requests, or, *)
(* if External, during one, when they take snapshots too.  External        *)
(* snapshots, whose data is in files of their own, are not here.           *)
(***************************************************************************)
EXTENDS Naturals, FiniteSets

CONSTANTS
    Names,          \* names of snapshots
    Disks,          \* the qcow2 files of the machine
    None,           \* no name, no disk
    Worlds          \* the worlds a behaviour may be in

ASSUME FiniteAssumption == IsFiniteSet(Names)
ASSUME NoneAssumption == None \notin Names /\ None \notin Disks
ASSUME WorldAssumption ==
    Worlds \subseteq SUBSET {"external", "list", "num", "words", "disk", "current"}

VARIABLES
    world,      \* the conditions that hold in this behaviour
    power,      \* "off", "on" for running and paused, "other" (VM_OTHER)
    meta,       \* the snapshots libvirt has
    current,    \* the current one
    data,       \* data[d], the snapshots in the file of disk d
    worded,     \* those whose XML has the words of an external snapshot
    op,         \* the request in work: "none", "delete", "edit", "scan", ...
    step,       \* the next call of its handler
    snap,       \* the snapshot it is about
    wasCurrent, \* edit: is_current
    num,        \* cleanup: what virDomainSnapshotNum() returned
    known,      \* cleanup: lv_names
    disks,      \* cleanup: the disks it has not listed yet
    disk,       \* cleanup: the disk it is at
    listed,     \* cleanup: qcow2_names it has not come to
    found,      \* scan: orphans so far
    failed      \* history: a call of this scan or cleanup failed

machineVars == <<world, power, meta, current, data, worded>>
workVars == <<wasCurrent, num, known, disks, disk, listed, found, failed>>
vars == <<machineVars, op, step, snap, workVars>>

External == "external" \in world     \* other tools act during a request
ListFaults == "list" \in world       \* list_vms() may fail
NumFaults == "num" \in world         \* the names may not be counted or listed
Words == "words" \in world           \* "disk-only" may be in a description
DiskFaults == "disk" \in world       \* disks may not be found, or not listed
CurrentFaults == "current" \in world \* virDomainSnapshotCurrent() may fail

Orphans == {n \in Names : \E d \in Disks : n \in data[d] /\ n \notin meta}

Init ==
    /\ world \in Worlds
    /\ power = "off"
    /\ meta = {}
    /\ current = None
    /\ data = [d \in Disks |-> {}]
    /\ worded = {}
    /\ op = "none"
    /\ step = "none"
    /\ snap = None
    /\ wasCurrent = FALSE
    /\ num = 0
    /\ known = {}
    /\ disks = {}
    /\ disk = None
    /\ listed = {}
    /\ found = {}
    /\ failed = FALSE

GoTo(s) == step' = s /\ UNCHANGED <<op, snap>>

Finish ==
    /\ op' = "none"
    /\ step' = "none"
    /\ snap' = None
    /\ wasCurrent' = FALSE
    /\ num' = 0
    /\ known' = {}
    /\ disks' = {}
    /\ disk' = None
    /\ listed' = {}
    /\ found' = {}
    /\ failed' = FALSE

At(o, s) == op = o /\ step = s

-----------------------------------------------------------------------------
(* libvirt and the other tools.                                            *)

\* The XML of a snapshot has its description, as somebody wrote it.
Described(n) ==
    worded' \in {worded \ {n}} \cup (IF Words THEN {worded \cup {n}} ELSE {})

\* virDomainSnapshotCreateXML(): metadata and data on every disk, or nothing.
\* Data of that name that is there already makes it fail.
Created(n) ==
    /\ n \notin meta
    /\ \A d \in Disks : n \notin data[d]
    /\ meta' = meta \cup {n}
    /\ current' = n
    /\ data' = [d \in Disks |-> data[d] \cup {n}]
    /\ Described(n)

\* virDomainSnapshotDelete(); the parent, if any, becomes current.
Forgotten(n) ==
    /\ n \in meta
    /\ meta' = meta \ {n}
    /\ worded' = worded \ {n}
    /\ \E c \in (meta \ {n}) \cup {None} :
          current' = IF current = n THEN c ELSE current

Others == op = "none" \/ External

\* virsh snapshot-delete of a machine that is on, or with --metadata.
ForgetElsewhere(n) ==
    /\ Others
    /\ Forgotten(n)
    /\ UNCHANGED <<world, power, data, op, step, snap, workVars>>

\* virsh snapshot-create
TakeElsewhere(n) ==
    /\ External
    /\ Created(n)
    /\ UNCHANGED <<world, power, op, step, snap, workVars>>

\* virDomainRevertToSnapshot(), of the page or elsewhere: it needs the data.
Revert(n) ==
    /\ Others
    /\ n \in meta
    /\ \A d \in Disks : n \in data[d]
    /\ current' = n
    /\ UNCHANGED <<world, power, meta, data, worded, op, step, snap, workVars>>

SwitchPower ==
    /\ Others
    /\ power' \in {"off", "on", "other"} \ {power}
    /\ UNCHANGED <<world, meta, current, data, worded, op, step, snap, workVars>>

-----------------------------------------------------------------------------
(* The requests of the page, and the handlers that make one call.          *)

Request(o, s, n) ==
    /\ op = "none"
    /\ op' = o
    /\ step' = s
    /\ snap' = n
    /\ UNCHANGED <<machineVars, workVars>>

\* Of a snapshot the page shows, which may be gone.
Delete(n) == Request("delete", "list", n)
Edit(n) == Request("edit", "lookup", n)
Scan == Request("scan", "state", None)
Cleanup == Request("cleanup", "state", None)

\* handle_create_snapshot(): lv_create_snapshot().  It has failed when
\* nothing changes.
Create(n) ==
    /\ op = "none"
    /\ Created(n)
    /\ UNCHANGED <<world, power, op, step, snap, workVars>>

-----------------------------------------------------------------------------
(* handle_delete_snapshot().                                               *)

\* Mutant of ListForDelete: no machine is refused.
ListForDeleteAny ==
    /\ At("delete", "list")
    /\ GoTo("delete")
    /\ UNCHANGED <<machineVars, workVars>>

\* A machine listed as running or paused is refused; one in another state is
\* not, and a list that fails refuses nothing.
ListForDelete ==
    /\ At("delete", "list")
    /\ \/ (power # "on" \/ ListFaults) /\ GoTo("delete") /\ UNCHANGED workVars
       \/ power = "on" /\ Finish
    /\ UNCHANGED machineVars

\* lv_delete_snapshot(): the metadata only, of what its XML makes an external
\* snapshot, unless that cannot be had; the data stays with the machine on,
\* and may stay in another state.
DeleteSnapshot ==
    /\ At("delete", "delete")
    /\ Forgotten(snap)
    /\ \E external \in {FALSE, (snap \in worded)} :
       \E full \in {power = "off", power # "on"} :
          data' = IF full /\ ~external
                  THEN [d \in Disks |-> data[d] \ {snap}] ELSE data
    /\ Finish
    /\ UNCHANGED <<world, power>>

DeleteFails ==
    /\ At("delete", "delete")
    /\ Finish
    /\ UNCHANGED machineVars

-----------------------------------------------------------------------------
(* lv_edit_snapshot_description().                                         *)

\* virDomainSnapshotLookupByName(), virDomainSnapshotCurrent(); when that
\* fails the snapshot is not taken for the current one.
LookUp ==
    /\ At("edit", "lookup")
    /\ IF snap \in meta
       THEN /\ GoTo("xml")
            /\ wasCurrent' \in {current = snap, current = snap /\ ~CurrentFaults}
            /\ UNCHANGED <<num, known, disks, disk, listed, found, failed>>
       ELSE Finish
    /\ UNCHANGED machineVars

\* virDomainSnapshotGetXMLDesc()
ReadXml ==
    /\ At("edit", "xml")
    /\ IF snap \in meta THEN GoTo("redefine") /\ UNCHANGED workVars ELSE Finish
    /\ UNCHANGED machineVars

\* Mutant of Redefine: without VIR_DOMAIN_SNAPSHOT_CREATE_CURRENT.
RedefinePlain ==
    /\ At("edit", "redefine")
    /\ meta' = meta \cup {snap}
    /\ current' = IF current = snap THEN None ELSE current
    /\ Described(snap)
    /\ Finish
    /\ UNCHANGED <<world, power, data>>

\* Mutant of Redefine: the snapshot must be there already.
RedefineOnly ==
    /\ At("edit", "redefine")
    /\ current' = IF wasCurrent THEN snap
                  ELSE IF current = snap THEN None ELSE current
    /\ Finish
    /\ UNCHANGED <<world, power, meta, data, worded>>

\* virDomainSnapshotCreateXML() with REDEFINE: the snapshot is there, with
\* the new description; the current one is no longer current without CURRENT.
Redefine ==
    /\ At("edit", "redefine")
    /\ meta' = meta \cup {snap}
    /\ current' = IF wasCurrent THEN snap
                  ELSE IF current = snap THEN None ELSE current
    /\ Described(snap)
    /\ Finish
    /\ UNCHANGED <<world, power, data>>

EditFails ==
    /\ At("edit", "redefine")
    /\ Finish
    /\ UNCHANGED machineVars

-----------------------------------------------------------------------------
(* lv_scan_orphan_snapshots() and lv_cleanup_orphan_snapshots().           *)

Sweeping(s) == op \in {"scan", "cleanup"} /\ step = s

\* virDomainGetState(): only with the machine off, and not when it fails.
CheckState ==
    /\ Sweeping("state")
    /\ \/ power = "off" /\ GoTo("num") /\ UNCHANGED workVars
       \/ (power # "off" \/ DiskFaults) /\ Finish
    /\ UNCHANGED machineVars

\* virDomainSnapshotNum(); -1 counts as none.
CountNames ==
    /\ Sweeping("num")
    /\ GoTo("names")
    /\ num' \in {Cardinality(meta)} \cup (IF NumFaults THEN {0} ELSE {})
    /\ UNCHANGED <<machineVars, wasCurrent, known, disks, disk, listed, found, failed>>

\* virDomainSnapshotListNames(): no more names than were counted; its result
\* is not looked at.  Neither is that of get_domain_disk_paths(), which skips
\* disks, or all of them.
ListNames ==
    /\ Sweeping("names")
    /\ \/ \E k \in SUBSET meta :
             /\ Cardinality(k) = IF num < Cardinality(meta) THEN num ELSE Cardinality(meta)
             /\ known' = k
       \/ NumFaults /\ known' = {}
    /\ disks' \in IF DiskFaults THEN SUBSET Disks ELSE {Disks}
    /\ failed' = (disks' # Disks)
    /\ GoTo(IF disks' = {} THEN "answer" ELSE "disk")
    /\ UNCHANGED <<machineVars, wasCurrent, num, disk, listed, found>>

\* Mutant of ListDisk: the other disks are left alone once one has orphans.
ListDiskOnce(d) ==
    /\ Sweeping("disk")
    /\ d \in disks
    /\ GoTo("name")
    /\ disks' = IF data[d] \subseteq known THEN disks \ {d} ELSE {}
    /\ disk' = d
    /\ listed' = data[d]
    /\ UNCHANGED <<machineVars, wasCurrent, num, known, found, failed>>

\* qemu-img snapshot -l: its status is not looked at, so that what it has not
\* printed, or all of it when popen() fails, is as if it were not there.
ListDisk(d) ==
    /\ Sweeping("disk")
    /\ d \in disks
    /\ GoTo("name")
    /\ disks' = disks \ {d}
    /\ disk' = d
    /\ listed' \in IF DiskFaults THEN SUBSET data[d] ELSE {data[d]}
    /\ failed' = (failed \/ listed' # data[d])
    /\ UNCHANGED <<machineVars, wasCurrent, num, known, found>>

\* The scan comes to a name.
ScanName(n) ==
    /\ At("scan", "name")
    /\ n \in listed
    /\ listed' = listed \ {n}
    /\ found' = IF n \in known THEN found ELSE found \cup {n}
    /\ UNCHANGED <<machineVars, op, step, snap, wasCurrent, num, known, disks,
                   disk, failed>>

\* Mutant of CleanName: every name of the file is removed.
CleanNameAll(n) ==
    /\ At("cleanup", "name")
    /\ n \in listed
    /\ listed' = listed \ {n}
    /\ data' = [data EXCEPT ![disk] = @ \ {n}]
    /\ UNCHANGED <<world, power, meta, current, worded, op, step, snap, wasCurrent, num,
                   known, disks, disk, found, failed>>

\* The cleanup comes to a name: qemu-img snapshot -d for an orphan, which
\* fails on the file of a machine that is on, and may fail on another.
CleanName(n) ==
    /\ At("cleanup", "name")
    /\ n \in listed
    /\ listed' = listed \ {n}
    /\ IF n \in known THEN UNCHANGED <<data, failed>>
       ELSE \/ /\ power # "on"
               /\ data' = [data EXCEPT ![disk] = @ \ {n}]
               /\ UNCHANGED failed
            \/ failed' = TRUE /\ UNCHANGED data
    /\ UNCHANGED <<world, power, meta, current, worded, op, step, snap, wasCurrent, num,
                   known, disks, disk, found>>

\* The next disk, or the answer after the last.
NextDisk ==
    /\ Sweeping("name")
    /\ listed = {}
    /\ GoTo(IF disks = {} THEN "answer" ELSE "disk")
    /\ UNCHANGED <<machineVars, workVars>>

AnswerSweep ==
    /\ Sweeping("answer")
    /\ Finish
    /\ UNCHANGED machineVars

-----------------------------------------------------------------------------
Next ==
    \/ \E n \in Names : Create(n) \/ Delete(n) \/ Edit(n)
    \/ Scan \/ Cleanup
    \/ ListForDelete \/ DeleteSnapshot \/ DeleteFails
    \/ LookUp \/ ReadXml \/ Redefine \/ EditFails
    \/ CheckState \/ CountNames \/ ListNames \/ NextDisk \/ AnswerSweep
    \/ \E d \in Disks : ListDisk(d)
    \/ \E n \in Names : ScanName(n) \/ CleanName(n)
    \/ \E n \in Names : ForgetElsewhere(n) \/ TakeElsewhere(n) \/ Revert(n)
    \/ SwitchPower

Spec == Init /\ [][Next]_vars

-----------------------------------------------------------------------------
(* The types of the variables; the current snapshot is one that is there.  *)
TypeOK ==
    /\ world \in Worlds
    /\ power \in {"off", "on", "other"}
    /\ meta \in SUBSET Names
    /\ current \in meta \cup {None}
    /\ data \in [Disks -> SUBSET Names]
    /\ worded \in SUBSET meta
    /\ op \in {"none", "delete", "edit", "scan", "cleanup"}
    /\ step \in CASE op = "none" -> {"none"}
                 [] op = "delete" -> {"list", "delete"}
                 [] op = "edit" -> {"lookup", "xml", "redefine"}
                 [] OTHER -> {"state", "num", "names", "disk", "name", "answer"}
    /\ snap \in IF op \in {"delete", "edit"} THEN Names ELSE {None}
    /\ wasCurrent \in BOOLEAN
    /\ num \in Nat
    /\ known \in SUBSET Names
    /\ disks \in SUBSET Disks
    /\ disk \in Disks \cup {None}
    /\ listed \in SUBSET Names
    /\ found \in SUBSET Names
    /\ failed \in BOOLEAN

\* Nobody interferes with a request, and the names can be counted and listed.
Undisturbed == ~External /\ ~NumFaults

(* docs/developer-guide.md:1005: only names that are "in qcow2 but not in  *)
(* libvirt" are orphans.  Whatever is created, edited, deleted, forgotten  *)
(* and cleaned up, a snapshot that libvirt has can be reverted to: every   *)
(* disk has its data (libvirt_backend.c:2615-2691, 822-928).               *)
MetaHasData == Undisturbed => \A n \in meta, d \in Disks : n \in data[d]

(* docs/user-guide.md:449: "the orphaned data will be removed": a cleanup  *)
(* none of whose calls failed leaves no orphan on any disk, and the banner *)
(* that offers it names exactly those there are (2525-2613).  A disk that  *)
(* was not found or not wholly listed, which nothing tells the user        *)
(* (README, 6), hides orphans from the banner and adds none.               *)
CleanupComplete ==
    Undisturbed =>
        /\ At("cleanup", "answer") /\ ~failed => Orphans = {}
        /\ At("scan", "answer") =>
              found \subseteq Orphans /\ (~failed => found = Orphans)

(* docs/user-guide.md:417: a delete ensures that the data is "fully        *)
(* removed from the disk file": it makes no new orphan, as long as the     *)
(* machine was listed as what it is, that is one of running, paused and    *)
(* shut off (routes.c:671 lets the others pass, README 6), and the         *)
(* description of the snapshot has none of the words that make it an       *)
(* external one (951-953).                                                 *)
DeleteLeavesNoOrphan ==
    [][~External /\ ~ListFaults /\ op = "delete" /\ power # "other"
             /\ snap \notin worded
          => Orphans' \subseteq Orphans]_vars

(* libvirt_backend.c:838: editing a description changes neither which      *)
(* snapshots there are nor which is current; only when libvirt failed to   *)
(* say that the snapshot is the current one (841) does the edit go through *)
(* and leave none current.                                                 *)
EditIsInnocent ==
    [][~External /\ op = "edit" =>
          /\ meta' = meta
          /\ \/ current' = current
             \/ CurrentFaults /\ current = snap /\ current' = None]_vars

(* docs/user-guide.md:417, the same whatever the description says: it does *)
(* not hold (README, 6).                                                   *)
DeletesFully ==
    [][~External /\ ~ListFaults /\ op = "delete" /\ power = "off"
          => Orphans' \subseteq Orphans]_vars
=============================================================================
