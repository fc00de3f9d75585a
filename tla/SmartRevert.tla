---------------------------- MODULE SmartRevert ----------------------------
(***************************************************************************)
(* The smart revert of src/src/routes.c: the snapshot tree and the confirm *)
(* dialog ask dirty_state.c whether a machine has diverged from its        *)
(* snapshots, and the dialog offers to save the current state first.       *)
(*                                                                         *)
(* Handlers run one at a time, in the one thread of the HTTP daemon        *)
(* (src/src/server.c:220); req is the request it is working on.  Each call *)
(* a handler makes (to libvirt, to the table of marks, to the file) is a   *)
(* step of its own, so that the guests, the power of the machines, other   *)
(* browser windows and a crash of the service come in between.             *)
(*                                                                         *)
(* What a machine's disk and memory hold is a version number; a write of   *)
(* the guest makes one that no snapshot holds.  A snapshot goes when a     *)
(* user deletes it, whatever state the machine is in then; its name is not *)
(* used again.  The marks are those of DirtyLedger, which DirtyState       *)
(* implements; the machines fit in its table.                              *)
(***************************************************************************)
EXTENDS Naturals, FiniteSets

CONSTANTS
    VMs,            \* the machines
    Browsers,       \* the browser windows
    Worlds          \* the worlds a behaviour may be in

\* has: the conditions that hold in it; bounds: top, the versions told apart,
\* and most, the snapshots of a machine
ASSUME WorldAssumption ==
    \A w \in Worlds : /\ w.has \subseteq {"watched", "external", "list", "save"}
                      /\ w.top \in Nat /\ w.most \in Nat

VARIABLES
    world,          \* the world of this behaviour
    power,          \* power[v], as libvirt reports it
    content,        \* content[v], the version the machine is in
    snaps,          \* snaps[v], the snapshots
    on, mem, disk, safe,    \* the ledger of marks
    req,            \* the request the handler thread works on
    dialog,         \* dialog[b], the confirm dialog open in window b
    watched,        \* history: runs observed since the last clean mark
    dropped         \* history: machines that are as a deleted snapshot was

machineVars == <<world, power, content, snaps, dropped>>
Ledger == INSTANCE DirtyLedger WITH Names <- VMs
ledgerVars == <<on, mem, disk, safe>>
vars == <<world, power, content, snaps, on, mem, disk, safe,
          req, dialog, watched, dropped>>

WatchRuns == "watched" \in world.has    \* no run of a machine goes unobserved
External == "external" \in world.has    \* other tools start machines at any time
ListFaults == "list" \in world.has      \* list_vms() may fail
SaveFaults == "save" \in world.has      \* dirty_state_save() may fail

\* "other" is VM_OTHER: shutting down, crashed, suspended by the guest.  The
\* processors of such a machine do not run.
Power == {"running", "paused", "other", "shutoff"}
Version == 0 .. world.top
Snap == [of : Version, power : Power]

\* The machine is in a state that some snapshot holds.
Saved(v) == content[v] \in {s.of : s \in snaps[v]}

\* It is, or was until the user deleted that snapshot.
Kept(v) == Saved(v) \/ v \in dropped

NoReq == [op |-> "none"]
NoDialog == [kind |-> "none"]

\* Each machine has one snapshot, taken on this page or not, and is in it.
\* No step here reads or changes safe: losses of power are in DirtyState.
Init ==
    /\ world \in Worlds
    /\ power = [v \in VMs |-> "shutoff"]
    /\ content = [v \in VMs |-> 0]
    /\ snaps = [v \in VMs |-> {[of |-> 0, power |-> "shutoff"]}]
    /\ on = TRUE
    /\ mem \in [VMs -> {"untracked", "clean"}]
    /\ disk = mem
    /\ safe = Ledger!Blank
    /\ req = NoReq
    /\ dialog = [b \in Browsers |-> NoDialog]
    /\ watched = {}
    /\ dropped = {}

-----------------------------------------------------------------------------
(* The machines.                                                           *)

GuestWrites(v) ==
    /\ power[v] = "running"
    /\ \E n \in Version \ ({content[v]} \cup {s.of : s \in snaps[v]}) :
          content' = [content EXCEPT ![v] = n]
    /\ dropped' = dropped \ {v}
    /\ UNCHANGED <<world, power, snaps, req, dialog, watched>>
    /\ UNCHANGED ledgerVars

\* A request of the page (serialised with the other requests) or another tool.
PowerUp(v) ==
    /\ power[v] # "running"
    /\ External \/ req = NoReq
    /\ power' = [power EXCEPT ![v] = "running"]
    /\ UNCHANGED <<world, content, snaps, dropped, req, dialog, watched>>
    /\ UNCHANGED ledgerVars

\* The guest shuts itself down, suspends or crashes, or it is paused, stopped
\* or forced off.
PowerDown(v) ==
    /\ power[v] # "shutoff"
    /\ power[v] = "running" /\ WatchRuns => v \in watched \/ Kept(v)
    /\ \E p \in Power \ {"running", power[v]} :
          power' = [power EXCEPT ![v] = p]
    /\ UNCHANGED <<world, content, snaps, dropped, req, dialog, watched>>
    /\ UNCHANGED ledgerVars

-----------------------------------------------------------------------------
(* The windows.                                                            *)

Request(r) ==
    /\ on
    /\ req = NoReq
    /\ req' = r
    /\ UNCHANGED watched
    /\ UNCHANGED machineVars
    /\ UNCHANGED ledgerVars

\* GET .../snapshots/tree
LoadTree(v) ==
    /\ Request([op |-> "tree", vm |-> v, step |-> "list", seen |-> "unknown"])
    /\ UNCHANGED dialog

\* GET .../revert-confirm
AskRevert(b, v, s) ==
    /\ s \in snaps[v]
    /\ Request([op |-> "confirm", vm |-> v, step |-> "list", by |-> b, snap |-> s,
                seen |-> "unknown", diverged |-> FALSE])
    /\ UNCHANGED dialog

\* POST .../snapshots
CreateSnapshot(v) ==
    /\ Request([op |-> "create", vm |-> v, step |-> "create"])
    /\ UNCHANGED dialog

\* DELETE .../snapshots/<name>, the Delete button of the tree.
AskDelete(v, s) ==
    /\ s \in snaps[v]
    /\ Request([op |-> "delete", vm |-> v, step |-> "list", snap |-> s])
    /\ UNCHANGED dialog

\* A button of the dialog.  Only the dialog for a diverged machine has the
\* choice to save; warned remembers that the user was given it.
ClickRevert(b, save) ==
    /\ dialog[b].kind \in {"simple", "choice"}
    /\ save => dialog[b].kind = "choice"
    /\ Request([op |-> "revert", vm |-> dialog[b].vm, step |-> "list",
                snap |-> dialog[b].snap, save |-> save,
                warned |-> dialog[b].kind = "choice"])
    /\ dialog' = [dialog EXCEPT ![b] = NoDialog]

CancelDialog(b) ==
    /\ dialog[b] # NoDialog
    /\ dialog' = [dialog EXCEPT ![b] = NoDialog]
    /\ UNCHANGED <<req, watched>>
    /\ UNCHANGED machineVars
    /\ UNCHANGED ledgerVars

-----------------------------------------------------------------------------
(* The handler thread.                                                     *)

At(op, step) == req.op = op /\ req.step = step
GoTo(step) == req' = [req EXCEPT !.step = step]
Finish == req' = NoReq

\* list_vms(): the power of the machine, or "unknown" after a failure.
Seen(v) == {power[v]} \cup (IF ListFaults THEN {"unknown"} ELSE {})

\* handle_snapshot_tree(), handle_revert_confirm(): list_vms().  diverged is
\* what a dialog should tell, as of this call.
ListForDirty ==
    /\ At("tree", "list") \/ At("confirm", "list")
    /\ \E p \in Seen(req.vm) :
          IF req.op = "tree" THEN req' = [req EXCEPT !.step = "judge", !.seen = p]
          ELSE req' = [req EXCEPT !.step = "judge", !.seen = p,
                                  !.diverged = ~Kept(req.vm)]
    /\ UNCHANGED <<dialog, watched>>
    /\ UNCHANGED machineVars
    /\ UNCHANGED ledgerVars

\* Mutant of Observes: a running machine that has a mark keeps it.
ObservesUntracked(v, p) == p \in {"running", "paused"} /\ mem[v] = "untracked"

\* dirty_state_is_dirty(): a running machine is marked, and so is a paused one
\* that has no mark yet.
Observes(v, p) == p = "running" \/ (p = "paused" /\ mem[v] = "untracked")

\* Mutant of PutMark: the change is not saved.
PutMarkUnsaved(v, m) ==
    GoTo("answer") /\ IF mem[v] = m THEN UNCHANGED ledgerVars ELSE Ledger!Mark(v, m)

\* A mark that is there already is not set, and not saved, again.
PutMark(v, m) ==
    IF mem[v] = m THEN GoTo("answer") /\ UNCHANGED ledgerVars
    ELSE GoTo("save") /\ Ledger!Mark(v, m)

Judge ==
    /\ At("tree", "judge") \/ At("confirm", "judge")
    /\ IF Observes(req.vm, req.seen) THEN PutMark(req.vm, "dirty")
       ELSE GoTo("answer") /\ UNCHANGED ledgerVars
    /\ UNCHANGED <<dialog, watched>>
    /\ UNCHANGED machineVars

\* dirty_state_save(), after a mark has changed; its result is not looked at.
SaveMarks ==
    /\ req # NoReq
    /\ req.step = "save"
    /\ GoTo("answer")
    /\ Ledger!Flush \/ (SaveFaults /\ UNCHANGED ledgerVars)
    /\ UNCHANGED <<dialog, watched>>
    /\ UNCHANGED machineVars

\* The page has seen the machine run.
Watch == watched' = IF req.seen = "running" THEN watched \cup {req.vm} ELSE watched

AnswerTree ==
    /\ At("tree", "answer")
    /\ Watch
    /\ Finish
    /\ UNCHANGED dialog
    /\ UNCHANGED machineVars
    /\ UNCHANGED ledgerVars

\* Mutant of Kind: the mark is not asked for.
KindUnmarked(p, m) == IF p = "running" THEN "blocked" ELSE "simple"

\* The dialog handle_revert_confirm() renders.  When list_vms() failed, the
\* machine counts as neither running nor dirty.
Kind(p, m) ==
    IF p = "running" THEN "blocked"
    ELSE IF p # "unknown" /\ m = "dirty" THEN "choice"
    ELSE "simple"

AnswerConfirm ==
    /\ At("confirm", "answer")
    /\ dialog' = [dialog EXCEPT ![req.by] =
                     [kind |-> Kind(req.seen, mem[req.vm]), vm |-> req.vm,
                      snap |-> req.snap, diverged |-> req.diverged]]
    /\ Watch
    /\ Finish
    /\ UNCHANGED machineVars
    /\ UNCHANGED ledgerVars

\* A snapshot of machine v.  A revert to it does not bring a machine back that
\* was shutting down or had crashed.
Now(v) == [of |-> content[v],
           power |-> IF power[v] = "other" THEN "shutoff" ELSE power[v]]

\* virDomainSnapshotCreateXML() of an internal snapshot, or its failure.
TakeSnapshot(next) ==
    LET v == req.vm IN
    \/ /\ Cardinality(snaps[v]) < world.most
       /\ GoTo(next)
       /\ snaps' = [snaps EXCEPT ![v] = @ \cup {Now(v)}]
       /\ UNCHANGED <<world, power, content, dropped>>
    \/ /\ Finish
       /\ UNCHANGED machineVars

\* handle_create_snapshot(): the snapshot, and a new run to watch.
Create ==
    /\ At("create", "create")
    /\ TakeSnapshot("clean")
    /\ watched' = IF req' = NoReq THEN watched ELSE watched \ {req.vm}
    /\ UNCHANGED dialog
    /\ UNCHANGED ledgerVars

\* Mutant of ListForRevert: a running machine is not refused.
ListForRevertAny ==
    /\ At("revert", "list")
    /\ GoTo(IF req.save THEN "autosave" ELSE "revert")
    /\ UNCHANGED <<dialog, watched>>
    /\ UNCHANGED machineVars
    /\ UNCHANGED ledgerVars

\* handle_revert_snapshot(): a machine that is listed as running is refused;
\* when list_vms() fails, nothing is.
ListForRevert ==
    /\ At("revert", "list")
    /\ \E p \in Seen(req.vm) :
          IF p = "running" THEN Finish
          ELSE GoTo(IF req.save THEN "autosave" ELSE "revert")
    /\ UNCHANGED <<dialog, watched>>
    /\ UNCHANGED machineVars
    /\ UNCHANGED ledgerVars

\* Mutant of AutoSave: a snapshot that failed does not end the request.
AutoSaveIgnored ==
    /\ At("revert", "autosave")
    /\ GoTo("revert")
    /\ snaps' \in {snaps, [snaps EXCEPT ![req.vm] = @ \cup {Now(req.vm)}]}
    /\ UNCHANGED <<world, power, content, dropped, dialog, watched>>
    /\ UNCHANGED ledgerVars

\* Mutant of AutoSave: the handler goes on as handle_create_snapshot() does.
AutoSaveCreates ==
    /\ At("revert", "autosave")
    /\ TakeSnapshot("create")
    /\ UNCHANGED <<dialog, watched>>
    /\ UNCHANGED ledgerVars

\* The snapshot "pre-revert-..."; without it there is no revert.
AutoSave ==
    /\ At("revert", "autosave")
    /\ TakeSnapshot("revert")
    /\ UNCHANGED <<dialog, watched>>
    /\ UNCHANGED ledgerVars

\* virDomainRevertToSnapshot() with the FORCE flag succeeds: the machine is
\* again what it was, and as it was, when the snapshot was taken.
Revert ==
    /\ At("revert", "revert")
    /\ req.snap \in snaps[req.vm]
    /\ GoTo("clean")
    /\ content' = [content EXCEPT ![req.vm] = req.snap.of]
    /\ power' = [power EXCEPT ![req.vm] = req.snap.power]
    /\ watched' = watched \ {req.vm}
    /\ dropped' = dropped \ {req.vm}
    /\ UNCHANGED <<world, snaps, dialog>>
    /\ UNCHANGED ledgerVars

\* It fails, among others since the snapshot has been deleted.
RevertFails ==
    /\ At("revert", "revert")
    /\ Finish
    /\ UNCHANGED <<dialog, watched>>
    /\ UNCHANGED machineVars
    /\ UNCHANGED ledgerVars

\* handle_delete_snapshot(): machines listed as running or paused are refused.
ListForDelete ==
    /\ At("delete", "list")
    /\ \E p \in Seen(req.vm) :
          IF p \in {"running", "paused"} THEN Finish ELSE GoTo("delete")
    /\ UNCHANGED <<dialog, watched>>
    /\ UNCHANGED machineVars
    /\ UNCHANGED ledgerVars

\* lv_delete_snapshot(): the snapshot goes; no mark is looked at.  The state
\* the machine is in may have been in this snapshot alone.
DeleteSnapshot ==
    /\ At("delete", "delete")
    /\ Finish
    /\ snaps' = [snaps EXCEPT ![req.vm] = @ \ {req.snap}]
    /\ dropped' = IF content[req.vm] = req.snap.of THEN dropped \cup {req.vm} ELSE dropped
    /\ UNCHANGED <<world, power, content, dialog, watched>>
    /\ UNCHANGED ledgerVars

\* It fails, or another snapshot of the same state stays.
DeleteFails ==
    /\ At("delete", "delete")
    /\ Finish
    /\ UNCHANGED <<dialog, watched>>
    /\ UNCHANGED machineVars
    /\ UNCHANGED ledgerVars

\* dirty_state_mark_clean(), after the create or the revert has succeeded.
MarkClean ==
    /\ At("create", "clean") \/ At("revert", "clean")
    /\ PutMark(req.vm, "clean")
    /\ UNCHANGED <<dialog, watched>>
    /\ UNCHANGED machineVars

AnswerPost ==
    /\ At("create", "answer") \/ At("revert", "answer")
    /\ Finish
    /\ UNCHANGED <<dialog, watched>>
    /\ UNCHANGED machineVars
    /\ UNCHANGED ledgerVars

-----------------------------------------------------------------------------
(* The service.                                                            *)

\* The process ends between any two steps; the request gets no answer.
Crash ==
    /\ Ledger!GoDown
    /\ Finish
    /\ UNCHANGED <<dialog, watched>>
    /\ UNCHANGED machineVars

Restart ==
    /\ Ledger!ComeUp
    /\ mem' = disk
    /\ UNCHANGED <<req, dialog, watched>>
    /\ UNCHANGED machineVars

Windows ==
    \/ \E v \in VMs : LoadTree(v) \/ CreateSnapshot(v)
    \/ \E b \in Browsers, v \in VMs : \E s \in snaps[v] : AskRevert(b, v, s)
    \/ \E v \in VMs : \E s \in snaps[v] : AskDelete(v, s)
    \/ \E b \in Browsers, save \in BOOLEAN : ClickRevert(b, save)
    \/ \E b \in Browsers : CancelDialog(b)

Handler ==
    \/ ListForDirty \/ Judge \/ SaveMarks \/ AnswerTree \/ AnswerConfirm
    \/ Create \/ ListForRevert \/ AutoSave \/ Revert \/ RevertFails
    \/ ListForDelete \/ DeleteSnapshot \/ DeleteFails \/ MarkClean \/ AnswerPost

Next ==
    \/ \E v \in VMs : GuestWrites(v) \/ PowerUp(v) \/ PowerDown(v)
    \/ Windows
    \/ Handler
    \/ Crash
    \/ Restart

Spec == Init /\ [][Next]_vars

-----------------------------------------------------------------------------
Lists == [op : {"tree"}, vm : VMs, step : {"list", "judge", "save", "answer"},
          seen : Power \cup {"unknown"}]
Confirms == [op : {"confirm"}, vm : VMs, step : {"list", "judge", "save", "answer"},
             by : Browsers, snap : Snap, seen : Power \cup {"unknown"},
             diverged : BOOLEAN]
Creates == [op : {"create"}, vm : VMs, step : {"create", "clean", "save", "answer"}]
Reverts == [op : {"revert"}, vm : VMs,
            step : {"list", "autosave", "revert", "clean", "save", "answer"},
            snap : Snap, save : BOOLEAN, warned : BOOLEAN]
Deletes == [op : {"delete"}, vm : VMs, step : {"list", "delete"}, snap : Snap]
Dialogs == [kind : {"blocked", "choice", "simple"}, vm : VMs, snap : Snap,
            diverged : BOOLEAN]

(* The types of the variables.                                             *)
TypeOK ==
    /\ world \in Worlds
    /\ power \in [VMs -> Power]
    /\ content \in [VMs -> Version]
    /\ snaps \in [VMs -> SUBSET Snap]
    /\ on \in BOOLEAN
    /\ {mem, disk, safe} \subseteq Ledger!Image
    /\ req \in {NoReq} \cup Lists \cup Confirms \cup Creates \cup Reverts \cup Deletes
    /\ dialog \in [Browsers -> {NoDialog} \cup Dialogs]
    /\ watched \subseteq VMs
    /\ dropped \subseteq VMs

\* Every run is observed, and nothing else goes wrong.
Observed == world.has = {"watched"}

\* The power of a machine is known, and stays, while a handler works on it.
Known == ~External /\ ~ListFaults

(* README.md:22, docs/user-guide.md:396: a machine whose state is in none  *)
(* of its snapshots is not given the dialog without a warning              *)
(* (routes.c:704-815), when its runs are observed; but for a state that a  *)
(* snapshot held until the user deleted it, of which no mark is kept       *)
(* (routes.c:651-702).                                                     *)
WarnedIfDiverged ==
    Observed => \A b \in Browsers : dialog[b].kind = "simple" => ~dialog[b].diverged

(* docs/developer-guide.md:1022: a machine that is marked clean, and does  *)
(* not run, has no unsaved changes since its last snapshot, when its runs  *)
(* are observed: it is as in a snapshot, or as one that was deleted.       *)
CleanIsSaved ==
    Observed =>
        \A v \in VMs : on /\ mem[v] = "clean" /\ power[v] # "running" => Kept(v)

(* docs/user-guide.md:389, "You cannot revert while the VM is running":    *)
(* no revert reaches libvirt for a machine known to run (routes.c:829-850),*)
(* even if its marks cannot be saved.                                      *)
NoRevertWhileRunning ==
    [][Known /\ Revert => power[req.vm] # "running"]_vars

(* docs/user-guide.md:398, "you can always go back": after "Save & Revert" *)
(* the state that was left is in a snapshot, and a revert that was not     *)
(* able to save it does not take place (routes.c:852-872).                 *)
SavedBeforeRevert == [][Known /\ Revert /\ req.save => Saved(req.vm)]_vars

(* A run that the page has seen is remembered on disk for as long as no    *)
(* snapshot and no revert settles it, whatever the service goes through    *)
(* (dirty_state.c:267-287, routes.c:23-26).                                *)
WatchedIsRemembered ==
    ~SaveFaults => \A v \in watched : disk[v] = "dirty" /\ (on => mem[v] = "dirty")

(* docs/user-guide.md:396: a state that was never in a snapshot is not     *)
(* discarded unless the user was shown the choice to save it.              *)
NoSilentLoss == [][Revert => Kept(req.vm) \/ req.warned]_vars
=============================================================================
