# QSWM in TLA+

QSWM is a web page for the snapshots of QEMU machines: a C program (libmicrohttpd,
libvirt) that systemd starts when somebody opens the page, and stops when nobody uses
it. This directory holds TLA+ modules of its parts, TLC configurations that check them
on small instances, and proofs, checked by TLAPS, of what holds for every value of the
constants. Paths below are relative to the root of the repository.

    tlasany M.tla                      parse
    tlc -workers 2 -config X.cfg M     check a configuration
    tlapm M_proof.tla                  check the proofs about M

`PROJECT.json` is the index: components, runs, the lines each definition
translates (`map`), for each property a change of the code that breaks it
(`mutants`), the hazards, and the theorems.

## 1. The parts of the system

The program is one process with two threads. `main()` (src/main.c) connects to
libvirt, loads the marks, starts the HTTP daemon and sleeps until a signal. The daemon
(src/server.c:220, `MHD_USE_INTERNAL_POLLING_THREAD`) has **one** thread, and every
handler runs in it from beginning to end. Two handlers never interleave, but a handler
makes several calls (to libvirt, `qemu-img`, the guest agent, the file of marks), and
between any two of them the guests run, other tools (virt-manager, `virsh`) use the same
libvirt, other windows of the page grow old, and the process may die. That is where the
hard behaviour is, and why the modules make each outside call a step.

| Part | State | Operations | What makes it correct | Module |
|---|---|---|---|---|
| Dirty marks, `src/dirty_state.c` | table of (name, clean), at most 128 (`MAX_TRACKED_VMS`); a JSON file | init, mark clean, mark dirty, is dirty, save (temporary file, rename), shutdown | no second entry for a machine; never a torn file; the file follows memory; a dirty mark outlives the process | `DirtyState`, `DirtyLedger` |
| Smart revert, `src/routes.c:369-531, 651-928` | none of its own: marks, snapshots, the dialogs that browsers hold | tree, create, delete, confirm, revert, save & revert | nobody loses a state that is in no snapshot without having been asked | `SmartRevert` |
| Service life cycle, `src/main.c`, `src/server.c`, `systemd/`, `scripts/idle-check.sh` | listening socket (of systemd), process, thread, time of the last request | socket activation, start, serve, quiesce, stop, idle check | handlers never outlive what they use; every visitor is served; an idle service stops | `Activation` |
| Snapshot tree, `src/libvirt_backend.c:386-504`, `src/snapshot.c` | nodes of one answer | list, read XML, link, find the current node | nothing is lost from the tree; right parents; "Current State" at the right place | `SnapshotTree` |
| Snapshot store, `src/libvirt_backend.c:712-973, 2355-2691` | libvirt's metadata; the snapshots inside the qcow2 files | create, edit, delete, orphan scan, orphan cleanup | metadata and data agree; cleanup takes the orphans and only these | `SnapshotStore` |
| Shared folders, `src/libvirt_backend.c:1026-2346` | domain XML (persistent, live); in the guest the mount, the skip list, the script and its timer | list with badges, add, remove, mount, unmount, set up automatic mounts, detect the guest; `guest_exec()` | what was unmounted stays so; the badges are true; no device goes under a mounted file system; the one thread is never held up for ever | `SharedFolders` |
| NVRAM conversion, `src/libvirt_backend.c:519-710` | domain XML, two files | convert | the guest's variables survive; after a success snapshots work | `NvramConvert` |
| Bodies and dispatch, `src/routes.c:30-65, 1355-1592` | a context per request, its buffer | one call of the handler per piece, completion | buffer large enough, body whole, no leak; the right handler | `Requests` |
| Web page, `static/index.html`, `static/tree.js` | selected machine and snapshot, the last tree and the last list, disabled buttons; requests in flight | select, click, refresh, power buttons, two timers, late answers | it shows in the end what the server has; Start is never offered for a snapshot the machine is not in | `Page` |
| Power, `src/libvirt_backend.c:250-380`, `src/routes.c:177-286` | libvirt's | list, start, stop, force off, pause, resume | one call each; the page offers what fits | `Page`; steps of others elsewhere |
| Configuration, `src/config.c`, `src/main.c:36-82` | read once | parse, collect the files of a directory, options | the last setting in alphabetical order wins, an option over all | `Config` |
| Text helpers, `src/util.c`, `form_value()` of `src/routes.c` | none | path segments, form fields, escapes for JSON, base64 | what is written arrives | `Text` |
| HTML, UTM, registry of backends, packaging | none | | | not modelled; see section 8 |

How they meet. The page asks for the tree: `handle_snapshot_tree()` lists the snapshots
(snapshot tree), lists the machines (power) and asks for the mark (dirty marks). Each window
asks for it again and again, and for the list of the machines; the daemon answers one request at a
time, but the answers come back in any order.
Creating a snapshot or reverting changes the store and then the marks; deleting one does not look at the marks. Delete and revert
are refused for machines the list says are running. All requests come through the bodies
and dispatch, in the thread whose life is the life cycle's.

## 2. Modules

    DirtyLedger        abstract: a mark per machine, in memory, on disk, and safe from a loss of power
      ^ implements     (property ImplementsLedger, theorem DirtyStateImplementsLedger)
    DirtyState         dirty_state.c, system call by system call
    SmartRevert        INSTANCEs DirtyLedger for its marks
    Activation, SnapshotTree, SnapshotStore, SharedFolders, NvramConvert, Requests, Page
    Config, Text       pure: operators that are compared with what was written; both EXTEND Places
    ServiceConfig      EXTENDS Activation and Config: what main() has read when it connects
    RequestTexts       EXTENDS Requests, which EXTENDS Text: what the handlers read from requests
    X_proof            EXTENDS X and TLAPS: the theorems about X
    Web_proof          EXTENDS ServiceConfig, RequestTexts, Page and Text_proof: the theorems about the
                       service and its configuration, the requests, and the page
    MCX                EXTENDS X: what its configurations need
    MCActivation       EXTENDS ServiceConfig
    MCRequests         EXTENDS RequestTexts

SmartRevert does not repeat the table and the file of the
marks: it takes their steps (`Mark`, `Flush`, `GoDown`, `ComeUp`) from the abstract ledger,
and DirtyState is shown, by TLC and by TLAPS, to be a ledger. `DirtyState` in turn was
written so that `dirty_state_save()`'s open, write and rename are three steps of which only the
last is one of the ledger.

**Worlds.** In DirtyState, SmartRevert, SnapshotStore and SharedFolders, what may go wrong
around the part is chosen once, in `Init`, and kept in the variable `world`: a set of named conditions such as `"save"` (saves may fail) or
`"external"` (other tools are at work). The constant `Worlds` lists those a
configuration explores. A property that the code can promise only without some
condition says so in its antecedent (`Undisturbed`, `Quiet`, `Known`, `FaultFree`),
and the theorems are theorems of the specification with *all* worlds, so that one run explores
several environments. The other modules have few conditions, and keep them as constants
(`External`, `XmlFaults` and `CallFaults` of SnapshotTree, `Bare` and `Disturbed` of NvramConvert) that the
configurations set and the theorems name where they need them.

### DirtyState
`table` is `dirty_state_table[0..count-1]`, a sequence of entries; `file` and `tmp` are the two
files (absent, torn, or a whole image), `durable` what a loss of power may bring back.
`Find`, `Put` and `Load` are `dirty_state_find()`, the change of the table in
`dirty_state_set()` and the parse of `dirty_state_init()` (which drops what exceeds the
capacity, and keeps a machine that is named twice; the world `"doubles"` has such a file, and `Find` takes the first). `Set` is the call: no change, no save; otherwise `OpenTmp`, `WriteTmp`,
`RenameTmp`, each of which may fail (`SaveFails`). JSON and escapes are abstracted to "the file is a
whole image of the table or it is not". `stale` is history: the last save
or load failed. `promised` is history: machines marked dirty by a call that returned 0.

### SmartRevert
`req` is the request in the daemon's thread with a `step`; `dialog[b]` is what window b
shows; `content[v]` is a version number that stands for the machine's disks and memory, and
each snapshot is a version and a power state. A guest write picks a version no snapshot holds. The power is what
`map_domain_state()` makes of libvirt's, `VM_OTHER` included. `AskDelete`, `ListForDelete`, `DeleteSnapshot` and `DeleteFails` are
`handle_delete_snapshot()`, which leaves the marks alone; `dropped` is history: machines that are still as a snapshot was that the user has deleted.
`Judge`/`SaveMarks` are `dirty_state_is_dirty()`, which marks a running machine dirty and
saves; the handler ignores a failure of it. `Kind` is the dialog `handle_revert_confirm()`
renders: blocked, with the choice to save, or simple. `watched` is history: runs the page has
seen since a snapshot or revert last settled the state. The condition `"watched"` says that no run ends before some page has
seen it (the page polls, `static/index.html`); without it `CleanIsSaved` does not hold of this code (section 6).

### Activation
Four actors: visitors (`Want`, `Visit`), systemd (`Launch`, restarts after a failure), the
process (`main`: connect, load, listen, loop, quiesce, join, shutdown, disconnect) with the
daemon's thread (`Accept`, `Begin`, `Respond`), and idle-check.sh (`CheckActive`, `AskIdle`,
`Verdict`). The listening socket belongs to systemd: a connection waits in `backlog` through
any number of processes. If the daemon still has the socket in `MHD_stop_daemon()` it is shut
down for systemd too, which is what `server_stop()`'s quiesce (server.c:279-293) prevents.
Seconds are counted up to `Horizon`, beyond which no comparison changes.

### SnapshotTree
Each call to libvirt is a step: the list, the current snapshot, the XML of each node (each of which
may fail: without a current snapshot no node is one), then the two passes of `lv_list_snapshots()` in any order (libvirt lists with flags
0, in no order), then the search of `snapshot_tree_add_current_state()` with its bounded
stack, which is left out when the list of machines fails (`Search`). `calm` is history: nothing changed since the list;
`failed`, a call for "Current State" failed.

### SnapshotStore
`meta`/`current` is what libvirt knows, `data[d]` what is in the qcow2 file d; an orphan is a
name in some `data[d]` and not in `meta`. A request is `op` with its `step`: list the machines and
delete, which removes the data or, for a machine that runs, leaves it
(libvirt_backend.c:930-973; in the states of `VM_OTHER`, which the list does not refuse, either); look up, read the XML and redefine, for an edit; state, count, names and then each
disk and name, for the scan and the cleanup. `worded` are the snapshots whose description has the words by which
`lv_delete_snapshot()` knows an external one (libvirt_backend.c:951); the world `"words"` lets there be some. In the world `"disk"`
the disks may not be found and `qemu-img` may list a part or nothing, neither of which the code looks at (`failed` is history of it); in `"current"`
libvirt may not say which snapshot is current when one is edited.

### SharedFolders
One virtiofs folder. `op`/`step` is the handler, `job`/`polls` is `guest_exec()`
waiting for its command, `late` the commands it gave up on, which still run in the guest
whenever they like. `script`, `timer` and `pass` are the script `lv_setup_automount()` installs:
a pass reads the skip list (`PassChecks`) and then mounts (`PassMounts`). `GuestSteps` names every command by
what it asks of the guest: what changes it (`Commands`), `findmnt`, the five questions of `lv_check_automount_status()`
(`Probes`, `Foreign`), and those of `detect_guest_os_dom()` (`Detection`), which the setup needs, and every failed
mount, unmount or setup for its help text (`goal` is what follows). `After` is the order in which the handlers send them.
`badge` is the answer of the list as it grows: `ListXml`, `ListLive`, `MountState`, `AutoState`. In the world `"late"` the commands and
passes outlast the handler's patience; in `"disturbed"` the agent, the power
and the calls fail during a request; `"openrc"` is a guest whose script has no skip list.

### NvramConvert
`config` is the `<nvram>` element (path, format), `files` the raw and the qcow2 file, each with
a version of the variables, `live` the file the running machine writes to. The steps are state, XML,
`qemu-img convert`, define. A failed conversion may leave half a file (`rubbish`). `Bare` is an
element without a `format` attribute.

### Requests
libmicrohttpd's protocol: one call without data, one per piece, one at the end, then the
completion callback, also when the client goes away. `conCls[c]` is the pointer the
callbacks share, `contexts` the allocated ones, `bodySize`/`bodyAlloc` the buffer of
`request_context_append()`. `AllRequests` are the requests the rendered page makes
(html_render.c, index.html), with the names of machines, snapshots and folders as texts. The page writes a name into the URL as it is: `OnWire` is what
the browser and libmicrohttpd leave of it, `Segments` what `path_segment()` (of `Text`) cuts of that, and `Route` is `route_dispatch()` in the order of its tests. `Plain` are the
names that arrive as they were written.

### Page
One window. `page` holds tree.js's globals (`currentVm`, `_lastTreeJson`, the selection) and what is drawn, `list` the rows
of `#vm-list` and which Start buttons are disabled, `lastList` what index.html compares new rows with. `fetches` are
`loadSnapshotTree()`'s requests in flight, up to `Slots` at once; `asks` and `again` the two elements that ask for the list, with
htmx's queue of one; `post` a power button's request. A request is answered from the state at that moment (`AnswerTree`,
`AnswerList`, `AnswerPost`: the handlers of routes.c), and arrives later (`TreeArrives`, `ListArrives`,
`PostArrives`: the callbacks). `Text` is what `handle_snapshot_tree()` says of a machine: a tree, one without "Current State" (`Stateless`) or nothing (`Empty`);
`TreeFails` answers an error, or leaves "Current State" out, with status 200 as well. Two texts are compared as the script compares strings.
`Change` is everybody else.

### Config, Text
A text is a sequence of characters, so that lengths, ends and separators are where they are in the code. `Config` has
`config_parse_buffer()` (`ParseBuffer`: `begin[k]` is where its loop is after k lines, `after[k]` the settings so far; `ReadLine` and `ParseLine` for
one line), `config_load_dropins()` (`Confs`, the files it takes from the directory, `Collected`, these in order, `LoadFile`) and the order in `main()`; it is compared with `LastOf`, the last setting a user wrote, in every layout (`Written`). `Text` has `path_segment()`, `url_decode()`, `form_value()`,
`json_escape()` and `base64_decode()`, each against the other end: `Encoded` (the browser), `JsonRead` and `Base64` (the guest agent).

## 3. The runs

| Run | Instance | Shows |
|---|---|---|
| `ledger` | 3 machines, table for 2, files with 1 and 3 entries and with one machine twice; worlds: no fault, failing saves, failing loads with losses of power, a file with doubles | `NeverBroken`, `DiskFollowsMemory`, `MarkedDirtyStaysDirty`, refinement `ImplementsLedger` |
| `revert` | 1 machine, 1 window; worlds: watched with 3 versions and 2 snapshots, failing saves with 2 and 2, other tools and failing lists with 2 and 1 | `WarnedIfDiverged`, `CleanIsSaved`, `WatchedIsRemembered`, `NoRevertWhileRunning`, `SavedBeforeRevert` |
| `activation_life` | 1 visitor, threshold 1 s, 2 crashes or stops; 2 settings, files of 2 lines, 3 files in every order | `ReadyWhileBusy`, `ConfigRead`, liveness `VisitorServed` |
| `tree` | 4 snapshots, stack of 2, other tools, XML and calls that fail | `AllReachable`, `OwnParent`, `TreeEnds`, `CurrentShown` |
| `store` | 3 snapshots, 2 disks; worlds: descriptions with the words and disks that are not listed, failing lists of machines and of the current snapshot, failing counts, lists and counts with other tools | `MetaHasData`, `CleanupComplete`, `DeleteLeavesNoOrphan`, `EditIsInnocent` |
| `folders` | 1 folder, 2 polls, 1 late command; worlds: quiet, the scripts of systemd and of OpenRC, late and disturbed | `ToldTrue`, `DetachesUnmounted`, liveness `Answered` |
| `nvram` | 3 guest writes, format attribute | `NvramKept`, `SnapshotsWork` |
| `requests` | 2 connections, pieces of 512, 1023 and 1024 bytes, up to 2560; snapshots "first", "form", "before?"; folder tags "docs", "form", "automount", "a%2Fb"; texts of up to 3 characters | `ContextsSound`, `WholeBody`, `ReachesHandler`, `TextKept` |
| `page` | 2 machines, 2 snapshots or none, or no current one, 2 requests for trees at once, 1 change or failure, 2 or 3 clicks | `StartGuarded`, liveness `CatchesUp` |
| `activation_idle` | violation | `IdleServiceStops` |
| `revert_stale` | violation | `NoSilentLoss` |
| `store_worded` | violation | `DeletesFully` |

`NeverBroken` is never more entries than the table holds, one per machine if the file found at the first start had no more, and no torn file
after a crash of the process. `ToldTrue` is `UnmountedStays`, `MountedUnlisted`, `AddedIsLive` and `BadgesTrue`. `ContextsSound` says that the
buffer of a request is never written beyond its end, and that its context is freed once. `TreeEnds` says that no ring of
parents, which other tools can make while the list is read, hangs in the tree, whose recursions would not end.

Each passing run also checks the module's `TypeOK` (`ServiceTypeOK` of Activation, `PageTypeOK` of Page). All passing runs are exhaustive, and keep deadlock
checking on: no part of this system may come to a stop.

### Why the bounds are enough
- *ledger*: with three names for two places, the table fills, overflows, and a file longer than
  the table is cut. Positions beyond the second behave like the second.
- *revert*: machines share nothing but the handler thread, and a second machine only delays
  the first; windows share nothing but the requests. Three versions let a machine
  diverge, be saved and diverge again; with two snapshots at once (`most`) either can be deleted, the one the machine is in or the other. The second and third world are about faults, for which one divergence is enough.
- *activation*: two faults allow a crash inside the restart after a crash, and a stop inside
  a crash. The visitor and the script's connection already compete for the thread. Lines of up to 10 characters (for 511), values of 3 (for 255) and
files of 6 (for 65535) lie on both sides of each limit; `ConfigRead` speaks of the lines that fit.
- *tree*: four snapshots give chains, stars and all mixtures of both; a stack of 2 (for 255)
  overflows in the run, and `CurrentShown` speaks of the trees that fit. The theorem has no bound.
- *store*: two disks differ in what a failed removal leaves; three names give a kept, a
  removed and an edited snapshot at once.
- *folders*: two polls (for ten) have a first, and a last after which the command is given up; one
  command that was given up (`MaxLate`) may run at any time after it, under every later request. (Two at once pass as well; the run takes four times as long.)
- *nvram*: three writes: before, between and after two conversions.
- *requests*: the pieces lie on both sides of the sizes (1024, 2048) at which the buffer must grow so that the final 0 still fits. Three characters make an escape, a group of base64 and all its rests, and a value with a field's separator inside.
- *page*: two requests in flight can overtake one another; a second machine makes the selection change under them. One change
  or failure is enough for a stale answer, since every later poll is alike; the clicks allow to select, to leave and to come back.

## 4. Fairness
Three properties are liveness, and their modules state the fairness they use.

`Activation!Fairness`: weak fairness of `main()`'s own steps, of the thread (`Accept`, `Respond`), of
systemd's `Launch`, of a browser that tries again, of time and of the timer that starts the
script: each is an operating-system thread or a daemon that is scheduled. Strong fairness of
`Connect` and `StartServer`: libvirt and the start of the daemon may fail any number of times
but not for ever (with `Restart=on-failure`, systemd keeps trying; its limit on the rate of starts
is not modelled). Strong fairness of `Begin(c)` for each connection, since the
thread serves others in between (libmicrohttpd polls them all), and of `AskIdle`, since curl
finds the socket shut or its old connection open at times. Crashes, stops and failures are not fair: they need not
happen, and `MaxFaults` bounds crashes and administrators' stops only.

`SharedFolders!FairSpec`: weak fairness of `Handler`, the daemon's own thread. Nothing in the guest is
fair: `Answered` holds although the commands may never end, since `guest_exec()` stops asking.

`PageFairness`: weak fairness of the list's timer, of the daemon's answers and of their arrival; strong fairness of the tree's timer
and of the callbacks that ask for the tree themselves, which in the module need a free slot (a browser has room for many). Users, changes and
failures are not fair, and bounded: `CatchesUp` is about what follows when they rest.

## 5. What is proved

Forty-four listed theorems, in eight modules. Their assumptions are the named `ASSUME`s on the constants, which TLC
evaluates in the runs; three assume more, and say so: `SnapshotsDoWork` and `NvramIsKept` a `format` attribute (`~Bare`), the second no other tools (`~Disturbed`);
`ThresholdNeverMet` a threshold longer than a call. `HandlersReached` is about plain names, and not about snapshots named "form" (section 6). All but five about texts and files are `Spec => []Inv` or `Spec => [][A]_vars` from an inductive invariant; most of the
properties are not inductive alone:

- **DirtyState_proof**. `IInv` adds to the properties what they rely on: the images in the file and in its
  durable copy have one entry per machine (unless the file at the first start had not), a process that is down has no table and no save, at `"renaming"` the
  temporary file is the whole image of the table, and without losses of power the durable copy is not torn. `MarkedDirtyStaysDirty` needs `Kept` besides: a promised
  machine is dirty in what the file would load as and, while a process runs, in the table.
  `DirtyStateImplementsLedger` maps each step to `Mark`, `Flush`, `Harden`, `ComeUp`, `GoDown`,
  `LosePower` or a stutter; its core is the lemma that `Put` changes the mark of exactly one machine. Only `NeverBroken` needs
  unique names: where a machine has two entries the first is its mark, in memory and on disk alike (`FindIsTheMatch`, from the library's theorem on minimal elements).
- **Web_proof**, of the service. `SetUp` ties `backend` and `marks` to the place of `main()`, and says that
  a busy thread implies that `main()` is between the start and the join. `Fresh` bounds `idle` while the script's
  question is open (`AnswersAreFresh`). `ThresholdNeverMet` follows: a threshold larger than
  the time of one answer is never met, for any number of visitors and faults. (It is the
  reason for the run `activation_idle`, for every threshold.)
- **SnapshotTree_proof**. `AllReachable` for any number of snapshots is a graph fact without
  induction: `Acyclic` says that each nonempty set of existing snapshots has a member whose parent is
  outside of it (the form that is preserved by `Take` and by `Delete`, and needs no transitive closure);
  `Copied` that undisturbed XML gives those parents or none; `Hung` what the linking pass has done
  so far; `Searched` that there is a set of finished nodes, without the current one, whose children are finished or on the stack.
  `CurrentIsFound` says with `failed` that a tree whose calls failed has no "Current State" anywhere.
  `RecursionsEnd` needs none of these, and no calm: the root has no parent (`RootFree`), so that nobody in a ring hangs below it.
- **SnapshotStore_proof**. For each request, what its locals still mean: `Current` (the names counted and listed are those there are), `Swept` (the disks already swept have no orphan
  unless a call failed), `EditOfKnown` (an edit knows whether its snapshot is current), `DeletesOff` (a delete that passed the list deletes from a machine that does not run and is not paused), `Scanned` (a scan has found only orphans, and all of the disks it has read unless a call failed).
- **NvramConvert_proof**. `ConfigFits` (the format the configuration names is that of its file),
  `Converting`, `ToldIsDone`, and `UpToDate` (the machine is off during a conversion, writes to no file but that of its
  configuration, and that file and the finished copy have all it wrote). `NvramKept` is proved without other tools, `SnapshotsWork` with them.
- **SmartRevert_proof**. `IInv` follows a machine through the request that is for it. `Synced`: memory and disk differ only
  between a change of the marks and its save. `Noted`: a machine that was listed as running is marked by the time the
  dialog is told. `Settling`: a run counts as settled from the snapshot or revert to the mark.
  These give `WatchedIsRemembered`. `DivergedMarked` is the heart: a machine that does not run and is neither in the state of a snapshot nor in that of a deleted one (`Kept`)
  is marked dirty, on disk even while the service is down. It is preserved only since no run ends unobserved
  (`Settled`: a machine that was settled and has not been marked runs still, or is as it was saved), and with `DialogToTell` it carries
  `WarnedIfDiverged` and `CleanIsSaved`. `RevertReady` (what the list and the snapshot before a revert have
  established lasts until the revert) gives the two action properties.
  `NoSilentLoss` is what fails, in the run `revert_stale`: between the dialog and the revert nothing is kept.
- **SharedFolders_proof**. `Placed` says at which steps each request can be, and `Calm` that in a quiet world no command
  outlives the handler's patience. Then one part for each request says what the commands behind
  it have established and what keeps it so: `Mounting` (off the list from `unlist` on), `Unmounting` (`KeptAway`: on the list with no pass
  between its look at the list and its mount, which is why the script is waited for), `Removing`, `Adding`, and `Listing` (each badge is true
  from the moment it is read until the answer, whatever runs in between). `ToldTrue` and `DetachesUnmounted` follow, for any number of polls.
- **Web_proof**, of the daemon. `ClassFits` (a connection without a request, or with one that has not been served a call, has no context),
  `SizeFits` (all that was sent is in the buffer, with room for the final 0), for pieces
  of any size and any number of connections. `Dispatch` takes each request the page makes through `route_dispatch()`, for any
  plain names of machines, snapshots and folders, which the URL carries (`PlainArrives`) and `AllSegments` cuts apart; with `Opened` (a request left open by its first call is one whose last call dispatches it)
  each is answered by the handler it is for.
- **Web_proof**, of the page. `StartGuarded` is inductive with the types: `StartSetGuards` and `SwappedGuards` are the two functions that
  draw Start buttons, `LoadedKeeps` and `ChangedKeeps` say that what asks for trees leaves the selection
  alone unless it selects another machine; for any number of requests in flight.
- **Text_proof**. `AllSegments`, `TwoFieldsRead`, `EscapeRead` and `OutputRead` hold for texts of any length, over any
  characters; `TextsKept`, which the run `requests` checks up to a length, follows from them in Web_proof.
  The loops of the code are recursive functions over the places of a text, and their values need an induction. No installed
  prover can instantiate a rule of induction, which has a predicate for a parameter; but a *set* of
  naturals with 0 and the successor of each of its members contains all of them, which follows from the library's theorem on minimal
  elements (`NatsInSet`). With it, a recursion in which each place needs only one nearer to the end has a solution, and only one (`Solved`, `OneSolution`), so that
  what CHOOSE takes is what the loop computes. Pieces that are put together lie one behind the
  other (`Flattened`), and a reader that makes of each piece what it came from makes the text (`ReadBack`). For a form, the first `&`
  behind a value is its end since none is left in what the browser sends (`EncodedRead`), and a name that stands in the middle of
  a value is no key (`KeyFound`). For base64, `GroupDecoded` follows `bits`, `buf` and `out` through a group of one, two or three bytes.
- **Web_proof**, of the configuration. A line that was written for a setting is read as this setting, with blanks around its key
  and value or without (`SettingRead`, `ItemRead`); a comment and a heading are no setting. A line may be longer than the buffer when it makes no
  setting: what is cut off cannot turn it into one. The pieces of a file are its lines (`FileLaid`), the loop comes to the begin of each
  (`LineSeen`), and after m lines the settings are those of the first m items; by the induction above, `FileParsed` holds for any number of
  lines, while `ConfigRead` speaks of two. For the directory, `SortedFiles` says that the order is by name and the same
  whatever `readdir()` returned, and `ConfigIsRead` follows the loop over the files, for any keys and values that fit the buffers.

Only model-checked: the three liveness properties, since fairness and ENABLED are out of the prover's reach. The other properties of
the passing runs have a theorem each, invariants and action properties alike.

## 6. Disagreements between the code and what is said of it

Three have a run with a counterexample (`findings` in PROJECT.json):

1. **An idle service never stops** (`activation_idle`). scripts/idle-check.sh asks the service how
   long it has been idle; src/server.c:169 counts the question as activity. The answer is always
   about 0, README.md:34 says "auto-stops after 10 minutes idle". (`idle_timeout`, README.md:183, is parsed and used by nothing.)
2. **A dialog grows old** (`revert_stale`). The dialog without a warning stays on the screen while the machine is
   started, used and stopped; src/routes.c:872 reverts without asking again. README.md:22 says the page "warns when VM state has diverged".
3. **Words decide what is deleted** (`store_worded`). src/libvirt_backend.c:951-953 searches the snapshot's whole XML, the description
included, for `disk-only`, and then deletes the metadata only. docs/user-guide.md:417-419: "This ensures the snapshot data is fully removed from
the disk file"; docs/user-guide.md:309 itself calls external snapshots so, and a description may too. The data becomes an orphan.

Others were met while the modules were written. The modules contain the behaviour; the
properties exclude it by a named condition, which is where to look first when the code changes:

- A failed save is not tried again: the next call finds the mark in memory, and returns 0 (src/dirty_state.c:161; `stale`, `FaultFree`). systemd/qswm.service makes the file system read-only but for
  /var/lib/libvirt, so that with the default path /var/lib/qswm every save of the packaged service fails.
- A run that no page looks at leaves a clean mark (src/dirty_state.c:269; `Observed`).
- A delete leaves the marks alone (src/routes.c:651-702). When the snapshot that a machine is in is deleted, its state is in no snapshot, the mark stays clean, and the next
  revert is offered without a warning (`dropped` and `Kept` in `CleanIsSaved`, `WarnedIfDiverged`).
- A machine in a state other than running, paused and shut off (shutting down, crashed: `VM_OTHER`, src/libvirt_backend.c:240-248) is not refused a delete (src/routes.c:671), which may
  leave the data as an orphan (`power # "other"` in `DeleteLeavesNoOrphan`).
- A file of marks that names a machine twice is loaded so (src/dirty_state.c:218-248 does not ask `dirty_state_find()`), and stays so; the second entry only takes room (`FoundDoubles`).
- When `virDomainSnapshotCurrent()` fails, the tree has no current snapshot and no "Current State" (src/libvirt_backend.c:406-412), as when `list_vms()` fails or does not
  name the machine (src/routes.c:392); nothing tells the user (`failed` in `CurrentShown`). When it fails during an edit of the current snapshot, this is redefined as one that is not
  current, and libvirt has none afterwards (src/libvirt_backend.c:840-846; `CurrentFaults` in `EditIsInnocent`).
- The scan and the cleanup of orphans do not look at whether the disks were found (src/libvirt_backend.c:2451), whether `qemu-img` could be started (2365, 2569, 2650) or how it ended: orphans that were not listed are
  not reported and not removed, and the answer is that of a success (`DiskFaults`; `failed` in `CleanupComplete`).
- When `list_vms()` fails, revert and delete of a running machine are not refused (src/routes.c:833, 668; `Known`, `ListFaults`).
- A node with more children than the stack of the search holds hides some of them, and maybe the current one (src/snapshot.c:162; `MaxStack` in `CurrentShown`).
- Snapshots that change while they are listed can name each other as parents: both nodes are linked, hang in no tree, and are not freed (src/libvirt_backend.c:471-480; `calm`).
- A snapshot that is taken by another tool between the list of names and the disks is removed as an orphan (src/libvirt_backend.c:2642; `External`).
- The unmount goes on when the skip list cannot be written (src/libvirt_backend.c:1661; `Disturbed`); the script installed on OpenRC does not read the list (2045; `OpenRC`);
  a pass of the script between the unmount and the detach of a removal mounts the folder again (1399; `AutoMount`).
- Without a `format` attribute in `<nvram>` a conversion changes the path and not the format
  (src/libvirt_backend.c:661); the answer still says that snapshots work (src/routes.c:307; `Bare`).
- A failed count of the snapshots, -1 (src/libvirt_backend.c:2638), is taken for none: every snapshot is an orphan, against docs/developer-guide.md:1005, and the cleanup removes its data (`NumFaults`).
- A second conversion of a bare `<nvram>` converts a file onto itself (src/libvirt_backend.c:612; `Bare`). A machine that another tool starts between the check and
  the definition keeps writing to the old file (686; `Disturbed` of NvramConvert).
- Snapshots named like a word of the routes ("form") cannot be shown or deleted (src/routes.c:1442; `Hidden` in `ReachesHandler`).
- Names are written into URLs escaped for HTML only (src/html_render.c:286-365, 495-665; static/tree.js:417; static/index.html:242). A "?" or "#" ends the path, a "/" or "\" cuts it, `%41` is decoded,
  "." and ".." and a blank at the end are taken away by the browser: what is asked of a snapshot "before-update?" is a 404 or 405, or goes to "before-update" if there is one, and to remove the folder "docs?2"
  is to remove "docs". Neither the names of snapshots nor the tags of folders (src/routes.c:1021) are refused for it (`Plain` in `ReachesHandler`).
- After a poll of the tree failed, its error stays although the next polls succeed: their text is the last one, and is skipped (static/tree.js:51, 62-66;
  `shown = Failed` in `TreeRight`).
- Without snapshots the page says "Click '+ New Snapshot'", and leaves that button disabled if the tree before had disabled it (static/tree.js:72, 370-381; docs/user-guide.md:808; `Empty` in `TreeRight`).
- A tree with no "Current State", since there is no current snapshot (src/snapshot.c:168; after a revert to a snapshot without a parent and its deletion), or since a call for it failed, leaves "+ New Snapshot"
  as the last tree set it, that of another machine perhaps (static/tree.js:370; `power = Nothing` in `TreeRight`). An answer "Error" is drawn as a tree with one node (src/routes.c:374-380), which can be selected
  and then keeps Start disabled (`sel \in ids` in `StartRight`).
- A selected snapshot that is deleted leaves Start disabled, until the next click (static/tree.js:384-392; `sel \in ids` in `StartRight`).
- The end of a file's last line is read as another line, if that line has more than 511 characters and no newline (src/config.c:51-62; `WellFormed`). Files
  of 65536 bytes and more are passed over; of more than 128, those that `readdir()` returns last are, not the last in order (`MaxFiles` in `Override`).
- `json_escape()` leaves other control characters as they are (src/util.c:203; `JsonChars` has none).
- The steps of `lv_setup_automount()` that may fail one by one in the guest (src/libvirt_backend.c:1985-2023, 2067-2086) are two in SharedFolders: the script and its timer; no property tells the others apart.
- "Not active" is also what the list says of automatic mounts when the agent is away (src/libvirt_backend.c:1886-1928; `agent` in `BadgesTrue`). Each of its up to six commands holds the one
  thread for a second or more.
- The error text of `lv_merge_snapshot()` (994-1020) asks for a machine that is off; the call it makes is for one that runs, and nothing ends the job it starts.

## 7. Assumptions about what is not in the repository
libvirt: a call either happens or fails as a whole; an internal snapshot of a machine that is off
is deleted with its data, of a running one without (libvirt_backend.c:930-973 chooses the flags); a revert with FORCE restores
content and power. The file system: rename is atomic for processes, and after a loss of power the
file is the old one, the new one or torn (there is no fsync). libmicrohttpd: its protocol
of calls, and that `MHD_stop_daemon()` joins the thread. systemd: a failed service restarts, and
a connection to its socket starts a service that is down. The guest agent: a command that was started
ends some time, or never.

## 8. What is not modelled, and the plan

Not modelled because there is no state to speak of: HTML fragments (but for the buttons and requests that `Page` and `Requests` take
from them), static files, the UTM backend (macOS; not selected by `main()`, its snapshot functions are stubs), the registry of backends, installation
and packaging; of the page the drawing of the tree, tabs and toasts, and the panels that htmx polls as it polls the list.

Not modelled because it is decided elsewhere: external snapshots and merge (what libvirt leaves on the disk), the setups in
guests with Windows, FreeBSD and macOS (scripts in other languages), and what a connection that libvirtd closed does
to a process that opened it once (src/libvirt_backend.c:215).

Planned, in this order:
1. *The lost update* of a whole-XML redefinition that NVRAM conversion and shared memory both do (libvirt_backend.c:686, 1190), with other tools between
   the read and the definition.
2. *External snapshots* (libvirt_backend.c:712-818) in SnapshotStore, and its
   composition with SmartRevert, which has the deletes of its own now.
3. *9p folders and several folders* at once, whose requests share the thread.
