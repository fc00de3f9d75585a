---------------------------- MODULE SharedFolders ----------------------------
(***************************************************************************)
(* One virtiofs folder shared with one machine: the page adds it to the    *)
(* configuration and removes it, mounts and unmounts it in the guest, and  *)
(* lists it with badges that tell its state; and it installs a script in   *)
(* the guest that mounts what is not on a skip list.                       *)
(*                                                                         *)
(* Everything in the guest goes through guest_exec(): the guest agent      *)
(* starts a command, and is asked up to ten times whether it has ended.  A *)
(* command that has not is given up, and ends some other time.  Handlers   *)
(* run one at a time (src/src/server.c:220), each call of theirs a step;   *)
(* the guest's commands and the passes of its script run beside them.      *)
(***************************************************************************)
EXTENDS Naturals, FiniteSets

CONSTANTS
    Worlds,         \* the worlds a behaviour may be in
    MaxPolls,       \* how often guest_exec() asks: 10
    MaxLate         \* bound: commands that were given up and may still run

ASSUME WorldAssumption ==
    Worlds \subseteq SUBSET {"automount", "openrc", "late", "disturbed"}
ASSUME PollAssumption == MaxPolls \in Nat \ {0} /\ MaxLate \in Nat

VARIABLES
    world,          \* the conditions that hold in this behaviour
    power,          \* of the machine: "on", "paused", "off"
    config,         \* the folder is in the persistent configuration
    live,           \* the folder is a device of the machine that runs
    memory,         \* the persistent configuration has shared memory
    memoryLive,     \* and so has the machine that runs
    agent,          \* the guest agent answers
    mounted,        \* the folder is mounted in the guest
    skip,           \* the folder is in /etc/qemu-no-automount
    script,         \* qemu-automount: "none", or it "heeds" or "ignores" the list
    timer,          \* the script is run again and again
    pass,           \* a pass of the script: "idle", or it has "checked" the list
    late,           \* commands that were given up and still run
    op,             \* the request in work
    step,           \* the next call of its handler
    job,            \* the command guest_exec() waits for: "none", "runs", ...
    polls,          \* how often it has asked
    ok,             \* whether the last call was a success
    hot,            \* add, remove: the flags have VIR_DOMAIN_AFFECT_LIVE
    restart,        \* add: needs_restart
    goal,           \* what comes after the detection of the guest
    badge,          \* list: what the answer says of the folder
    told            \* history: the last success the user was told of

hostVars == <<world, power, config, live, memory, memoryLive>>
guestVars == <<agent, mounted, skip, script, timer, pass, late>>
execVars == <<job, polls>>
badgeVars == <<goal, badge>>
flagVars == <<ok, hot, restart, badgeVars>>
vars == <<hostVars, guestVars, execVars, flagVars, op, step, told>>

AutoMount == "automount" \in world  \* the page is asked to install the script
OpenRC == "openrc" \in world        \* the guest has OpenRC, not systemd
Late == "late" \in world            \* commands and passes may outlast the wait
Disturbed == "disturbed" \in world  \* the agent, the power and calls may fail
                                    \* during a request

NoBadge == [listed |-> FALSE, restart |-> FALSE, mounted |-> "unknown", auto |-> "unknown"]

Init ==
    /\ world \in Worlds
    /\ power = "off"
    /\ config \in BOOLEAN /\ live = FALSE
    /\ memory = config /\ memoryLive = FALSE
    /\ agent = TRUE
    /\ mounted = FALSE /\ skip = FALSE
    /\ script = "none" /\ timer = FALSE /\ pass = "idle"
    /\ late = {}
    /\ op = "none" /\ step = "none"
    /\ job = "none" /\ polls = 0
    /\ ok = FALSE /\ hot = FALSE /\ restart = FALSE
    /\ goal = "answer" /\ badge = NoBadge
    /\ told = "nothing"

At(o, s) == op = o /\ step = s
Between == op = "none" \/ Disturbed

-----------------------------------------------------------------------------
(* The machine.                                                            *)

Start ==
    /\ Between
    /\ power = "off"
    /\ power' = "on"
    /\ live' = config
    /\ memoryLive' = memory
    /\ UNCHANGED <<world, config, memory, guestVars, execVars, flagVars, op, step, told>>

\* What runs in the guest ends with it; its files stay.
Stop ==
    /\ Between
    /\ power # "off"
    /\ power' = "off"
    /\ live' = FALSE
    /\ memoryLive' = FALSE
    /\ mounted' = FALSE
    /\ pass' = "idle"
    /\ late' = {}
    /\ job' = IF job = "runs" THEN "failed" ELSE job
    /\ UNCHANGED <<world, config, memory, agent, skip, script, timer, polls, flagVars,
                   op, step, told>>

PauseResume ==
    /\ Between
    /\ power # "off"
    /\ power' = IF power = "on" THEN "paused" ELSE "on"
    /\ UNCHANGED <<world, config, live, memory, memoryLive, guestVars, execVars,
                   flagVars, op, step, told>>

AgentComesAndGoes ==
    /\ Between
    /\ agent' = ~agent
    /\ UNCHANGED <<hostVars, mounted, skip, script, timer, pass, late, execVars,
                   flagVars, op, step, told>>

\* A pass of the script comes to the folder and to the list.
PassChecks ==
    /\ power = "on" /\ timer /\ script # "none" /\ live
    /\ pass = "idle"
    /\ script = "heeds" => ~skip
    /\ pass' = "checked"
    /\ UNCHANGED <<hostVars, agent, mounted, skip, script, timer, late, execVars,
                   flagVars, op, step, told>>

\* It mounts the folder, unless it is mounted or no longer there.
PassMounts ==
    /\ power = "on"
    /\ pass = "checked"
    /\ pass' = "idle"
    /\ mounted' = (mounted \/ live)
    /\ UNCHANGED <<hostVars, agent, skip, script, timer, late, execVars,
                   flagVars, op, step, told>>

-----------------------------------------------------------------------------
(* The commands.  A step of this name runs the command.                    *)

\* What changes the guest; of the others only the exit matters.
Commands == {"unlist", "mount", "list", "heed", "ignore", "umount", "drop",
             "enable", "enable-rc"}

\* Of check_automount_status and of the detection; a Linux guest has not what
\* the foreign ones ask for.
Probes == {"is-active", "rc-status"}
Foreign == {"schtasks", "service", "launchctl", "cmd.exe", "freebsd-version", "sw_vers"}
Detection == {"cmd.exe", "freebsd-version", "sw_vers", "systemctl", "rc-service"}

Command ==
    CASE step = "script" -> "heed" [] step = "script-rc" -> "ignore" [] OTHER -> step

\* Whether command c can exit with 0.
Able(c) ==
    CASE c = "mount"                             -> live /\ ~mounted
      [] c = "umount"                            -> mounted
      [] c = "is-active"                         -> timer /\ ~OpenRC
      [] c = "rc-status"                         -> timer /\ OpenRC
      [] c \in {"enable", "systemctl"}           -> ~OpenRC
      [] c \in {"enable-rc", "rc-service"}       -> OpenRC
      [] OTHER                                   -> c \notin Foreign

\* What command c does, and whether it exits with 0.  Disturbed, a command may
\* fail: files cannot be written, the folder is busy.
Effect(c, exit) ==
    /\ mounted' = IF c = "mount" /\ exit THEN TRUE
                  ELSE IF c = "umount" /\ exit THEN FALSE
                  ELSE IF c = "drop" /\ ~Disturbed THEN FALSE ELSE mounted
    /\ skip' = IF c = "list" /\ exit THEN TRUE
               ELSE IF c \in {"unlist", "drop"} THEN FALSE ELSE skip
    /\ script' = IF c = "heed" /\ exit THEN "heeds"
                 ELSE IF c = "ignore" /\ exit THEN "ignores" ELSE script
    /\ timer' = (timer \/ (c \in {"enable", "enable-rc"} /\ exit))
    /\ IF exit THEN Able(c) ELSE ~Able(c) \/ Disturbed

CommandRuns ==
    /\ power = "on"
    /\ job = "runs"
    /\ \E exit \in BOOLEAN :
          Effect(Command, exit) /\ job' = IF exit THEN "done" ELSE "failed"
    /\ badge' = IF step # "findmnt" THEN badge
                ELSE [badge EXCEPT !.mounted = IF mounted THEN "yes" ELSE "no"]
    /\ UNCHANGED <<hostVars, agent, pass, late, polls, ok, hot, restart, goal, op, step,
                   told>>

LateCommandRuns(c) ==
    /\ power = "on"
    /\ c \in late
    /\ \E exit \in BOOLEAN : Effect(c, exit)
    /\ late' = late \ {c}
    /\ UNCHANGED <<hostVars, agent, pass, execVars, flagVars, op, step, told>>

-----------------------------------------------------------------------------
(* guest_exec().                                                           *)

GuestSteps == (Commands \ {"heed", "ignore"}) \cup {"script", "script-rc", "findmnt"}
              \cup Probes \cup Foreign \cup Detection

Helped == {"mount", "unmount", "setup"}
Ended == IF op \in Helped THEN "help" ELSE "answer"

\* What comes after a command with result r.  Only the last command of mount
\* and unmount, and each of the setup, decides whether there is a success; an
\* added folder need not be mounted.  A failure is answered with what helps in
\* such a guest, for which it is detected.
After(r) ==
    CASE step = "unlist" -> "mount"
      [] step = "list" -> "script"
      [] step = "script" /\ op = "unmount" -> "umount"
      [] step = "script" /\ op = "setup" /\ r -> "enable"
      [] step = "script-rc" /\ r -> "enable-rc"
      [] step = "drop" -> "detach"
      [] step = "findmnt" -> "autostate"
      [] step = "is-active" /\ ~r -> "rc-status"
      [] step = "rc-status" /\ ~r -> "schtasks"
      [] step = "schtasks" /\ ~r -> "service"
      [] step = "service" /\ ~r -> "launchctl"
      [] step = "cmd.exe" /\ ~r -> "freebsd-version"
      [] step = "freebsd-version" /\ ~r -> "sw_vers"
      [] step = "sw_vers" /\ ~r -> "systemctl"
      [] step = "systemctl" /\ ~r -> "rc-service"
      [] step = "rc-service" /\ r /\ goal = "script" -> "script-rc"
      [] step \in Detection -> goal
      [] OTHER -> IF r THEN "answer" ELSE Ended

Returns(r) ==
    /\ ok' = IF step \in Detection THEN ok ELSE r \/ op \in {"add", "list"}
    /\ step' = After(r)
    /\ job' = "none"
    /\ polls' = 0
    /\ badge' = CASE step = "findmnt" /\ ~r -> [badge EXCEPT !.mounted = "unknown"]
                  [] op = "list" /\ step # "findmnt" /\ r -> [badge EXCEPT !.auto = "yes"]
                  [] step = "launchctl" /\ ~r -> [badge EXCEPT !.auto = "no"]
                  [] OTHER -> badge
    /\ UNCHANGED <<hostVars, agent, mounted, skip, script, timer, pass, op, hot,
                   restart, goal, told>>

Answers == agent /\ power = "on"

\* guest-exec, without an agent an error.
Send ==
    /\ step \in GuestSteps
    /\ job = "none"
    /\ IF Answers
       THEN /\ job' = "runs"
            /\ UNCHANGED <<hostVars, guestVars, polls, flagVars, op, step, told>>
       ELSE Returns(FALSE) /\ UNCHANGED late

\* Mutant of Poll: the loop has no end.
PollForever ==
    /\ step \in GuestSteps
    /\ job \in {"done", "failed"}
    /\ Late \/ pass = "idle"
    /\ Answers
    /\ Returns(job = "done") /\ UNCHANGED late

\* Mutant of Poll: it asks once more than it may.
PollOnceMore ==
    /\ step \in GuestSteps
    /\ job # "none"
    /\ IF Answers /\ polls < MaxPolls
       THEN /\ polls' = polls + 1
            /\ UNCHANGED <<hostVars, guestVars, job, flagVars, op, step, told>>
       ELSE Returns(FALSE) /\ UNCHANGED late

\* sleep(1), guest-exec-status.  Unless Late, a second is enough for commands
\* and passes to end.  Beyond MaxLate, one that was given up never ends.
Poll ==
    /\ step \in GuestSteps
    /\ job # "none"
    /\ Late \/ (pass = "idle" /\ job # "runs")
    /\ IF Answers /\ job # "runs" THEN Returns(job = "done") /\ UNCHANGED late
       ELSE IF Answers /\ polls + 1 < MaxPolls
       THEN /\ polls' = polls + 1
            /\ UNCHANGED <<hostVars, guestVars, job, flagVars, op, step, told>>
       ELSE /\ Returns(FALSE)
            /\ late' = IF job = "runs" /\ Command \in Commands /\ Cardinality(late) < MaxLate
                       THEN late \cup {Command} ELSE late

-----------------------------------------------------------------------------
(* The requests.                                                           *)

Request(o, s) ==
    /\ op = "none"
    /\ op' = o
    /\ step' = s
    /\ told' = IF o \in {"setup", "list"} THEN told ELSE "nothing"
    /\ UNCHANGED <<hostVars, guestVars, execVars, flagVars>>

\* handle_add_shared_folder(), with or without the confirmation.
Add == Request("add", "enable-memory") \/ Request("add", "check")
Remove == Request("remove", "xml")
Mount == Request("mount", "state")
Unmount == Request("unmount", "state")
Setup == AutoMount /\ Request("setup", "state")
List == Request("list", "listxml")

Goes(s) == step' = s /\ UNCHANGED <<hostVars, guestVars, execVars, op, told>>
Fails == Goes(Ended) /\ ok' = FALSE /\ UNCHANGED <<hot, restart, badgeVars>>

\* lv_enable_shared_memory(), whose result is not looked at.
EnableMemory ==
    /\ At("add", "enable-memory")
    /\ step' = "check"
    /\ memory' = TRUE \/ (Disturbed /\ UNCHANGED memory)
    /\ UNCHANGED <<world, power, config, live, memoryLive, guestVars, execVars,
                   flagVars, op, told>>

\* lv_add_shared_folder(): -2 without shared memory, to ask for the confirmation.
\* An XML that cannot be read is taken for one that has it.
CheckMemory ==
    /\ At("add", "check")
    /\ \/ (memory \/ Disturbed) /\ Goes("state") /\ UNCHANGED flagVars
       \/ ~memory /\ Fails

\* virDomainGetState(); after a failure of it the machine counts as off.
AddState ==
    /\ At("add", "state")
    /\ \/ /\ power # "off"
          /\ Goes("livexml") /\ hot' = TRUE
       \/ /\ power = "off" \/ Disturbed
          /\ Goes("attach") /\ hot' = FALSE
    /\ UNCHANGED <<ok, restart, badgeVars>>

\* Shared memory that the machine does not have yet: to the configuration only.
\* The XML is the persistent one when the machine is off by now.
LiveXml ==
    /\ At("add", "livexml")
    /\ Goes("attach")
    /\ \/ hot' = IF power = "off" THEN memory ELSE memoryLive
       \/ Disturbed /\ hot' = TRUE
    /\ restart' = ~hot'
    /\ UNCHANGED <<ok, badgeVars>>

\* virDomainAttachDeviceFlags()
Attach ==
    /\ At("add", "attach")
    /\ ~config
    /\ hot => power # "off" /\ ~live
    /\ config' = TRUE
    /\ live' = (live \/ hot)
    /\ step' = IF hot THEN "mount" ELSE "answer"
    /\ ok' = TRUE
    /\ UNCHANGED <<world, power, memory, memoryLive, guestVars, execVars, hot, restart,
                   badgeVars, op, told>>

AttachFails ==
    /\ At("add", "attach")
    /\ config \/ (hot /\ (power = "off" \/ live)) \/ Disturbed
    /\ Fails

\* lv_remove_shared_folder(): the folder must be in the present XML.
FindFolder ==
    /\ At("remove", "xml")
    /\ LET listed == IF power = "off" THEN config ELSE live IN
       \/ listed /\ Goes("state") /\ UNCHANGED flagVars
       \/ (~listed \/ Disturbed) /\ Fails

\* Mutant of RemoveState: the device is detached without a command.
RemoveStateBlunt ==
    /\ At("remove", "state")
    /\ Goes("detach")
    /\ hot' = (power # "off")
    /\ ok' = TRUE
    /\ UNCHANGED <<restart, badgeVars>>

RemoveState ==
    /\ At("remove", "state")
    /\ \/ /\ power # "off"
          /\ Goes("drop") /\ hot' = TRUE
       \/ /\ power = "off" \/ Disturbed
          /\ Goes("detach") /\ hot' = FALSE
    /\ UNCHANGED <<ok, restart, badgeVars>>

\* virDomainDetachDeviceFlags()
Detach ==
    /\ At("remove", "detach")
    /\ config \/ (hot /\ live)
    /\ hot => power # "off" /\ live
    /\ config' = FALSE
    /\ live' = (live /\ ~hot)
    /\ mounted' = (mounted /\ live')
    /\ step' = "answer"
    /\ ok' = TRUE
    /\ UNCHANGED <<world, power, memory, memoryLive, agent, skip, script, timer, pass,
                   late, execVars, hot, restart, badgeVars, op, told>>

DetachFails ==
    /\ At("remove", "detach")
    /\ ~config \/ (hot /\ (power = "off" \/ ~live)) \/ Disturbed
    /\ Fails

\* Mutant of GuestState: unmount does not write the list.
GuestStateUnlisted ==
    /\ op \in Helped
    /\ step = "state"
    /\ IF power = "on"
       THEN /\ Goes(CASE op = "mount" -> "unlist" [] op = "unmount" -> "script"
                      [] OTHER -> "osinfo")
            /\ goal' = IF op = "setup" THEN "script" ELSE "answer"
            /\ UNCHANGED <<ok, hot, restart, badge>>
       ELSE Fails

\* lv_mount_shared_folder(), lv_unmount_shared_folder(), lv_setup_automount():
\* virDomainGetInfo()
GuestState ==
    /\ op \in Helped
    /\ step = "state"
    /\ \/ /\ power = "on"
          /\ Goes(CASE op = "mount" -> "unlist" [] op = "unmount" -> "list"
                    [] OTHER -> "osinfo")
          /\ goal' = IF op = "setup" THEN "script" ELSE "answer"
          /\ UNCHANGED <<ok, hot, restart, badge>>
       \/ (power # "on" \/ Disturbed) /\ Fails

\* lv_detect_guest_os(), after a failure
Help ==
    /\ step = "help"
    /\ \/ power = "on" /\ Goes("osinfo")
       \/ (power # "on" \/ Disturbed) /\ Goes("answer")
    /\ goal' = "answer"
    /\ UNCHANGED <<ok, hot, restart, badge>>

\* detect_guest_os_dom(): guest-get-osinfo, or else a command for each kind.
OsInfo ==
    /\ step = "osinfo"
    /\ \/ Answers /\ Goes("systemctl")
       \/ (~Answers \/ Disturbed) /\ Goes("cmd.exe")
    /\ UNCHANGED flagVars

-----------------------------------------------------------------------------
(* The list of the folders.                                                *)

Tells(b) == badge' = b /\ UNCHANGED <<ok, hot, restart, goal>>

\* lv_list_shared_folders(): the persistent configuration,
ListXml ==
    /\ At("list", "listxml")
    /\ \/ Goes("listlive") /\ Tells([NoBadge EXCEPT !.listed = config])
       \/ Disturbed /\ Fails

\* and the machine that runs, if its state and its XML can be had.
ListLive ==
    /\ At("list", "listlive")
    /\ Goes("mountstate")
    /\ \/ Tells([badge EXCEPT !.restart = badge.listed /\ power # "off" /\ ~live])
       \/ Disturbed /\ UNCHANGED flagVars

\* lv_check_mount_status(), which has nothing to ask without a folder.
MountState ==
    /\ At("list", "mountstate")
    /\ \/ badge.listed /\ power = "on" /\ Goes("findmnt")
       \/ (~badge.listed \/ power # "on" \/ Disturbed) /\ Goes("autostate")
    /\ UNCHANGED flagVars

\* lv_check_automount_status()
AutoState ==
    /\ At("list", "autostate")
    /\ \/ power = "on" /\ Goes("is-active")
       \/ (power # "on" \/ Disturbed) /\ Goes("answer")
    /\ ok' = TRUE
    /\ UNCHANGED <<hot, restart, badgeVars>>

Answer ==
    /\ step = "answer"
    /\ op' = "none"
    /\ step' = "none"
    /\ ok' = FALSE /\ hot' = FALSE /\ restart' = FALSE
    /\ goal' = "answer" /\ badge' = NoBadge
    /\ told' = IF ok /\ op = "mount" THEN "mounted"
               ELSE IF ok /\ op = "unmount" THEN "unmounted" ELSE told
    /\ UNCHANGED <<hostVars, guestVars, execVars>>

-----------------------------------------------------------------------------
Handler ==
    \/ Send \/ Poll
    \/ EnableMemory \/ CheckMemory \/ AddState \/ LiveXml \/ Attach \/ AttachFails
    \/ FindFolder \/ RemoveState \/ Detach \/ DetachFails
    \/ GuestState \/ Help \/ OsInfo
    \/ ListXml \/ ListLive \/ MountState \/ AutoState
    \/ Answer

Next ==
    \/ Start \/ Stop \/ PauseResume \/ AgentComesAndGoes
    \/ PassChecks \/ PassMounts
    \/ CommandRuns \/ \E c \in Commands : LateCommandRuns(c)
    \/ Add \/ Remove \/ Mount \/ Unmount \/ Setup \/ List
    \/ Handler

Spec == Init /\ [][Next]_vars

\* The thread goes on; the guest need not.
FairSpec == Spec /\ WF_vars(Handler)

-----------------------------------------------------------------------------
(* The types of the variables.                                             *)
TypeOK ==
    /\ world \in Worlds
    /\ power \in {"on", "paused", "off"}
    /\ {config, live, memory, memoryLive, agent, mounted, skip, timer, ok, hot,
        restart} \subseteq BOOLEAN
    /\ script \in {"none", "heeds", "ignores"}
    /\ pass \in {"idle", "checked"}
    /\ late \subseteq Commands
    /\ op \in {"none", "add", "remove", "mount", "unmount", "setup", "list"}
    /\ step \in {"none", "enable-memory", "check", "state", "livexml", "attach", "xml",
                 "detach", "listxml", "listlive", "mountstate", "autostate", "help",
                 "osinfo", "answer"} \cup GuestSteps
    /\ job \in {"none", "runs", "done", "failed"}
    /\ polls \in 0 .. MaxPolls - 1
    /\ goal \in {"script", "answer"}
    /\ badge \in [listed : BOOLEAN, restart : BOOLEAN, mounted : {"yes", "no", "unknown"},
                  auto : {"yes", "no", "unknown"}]
    /\ told \in {"nothing", "mounted", "unmounted"}

\* The calls of a request succeed.
Quiet == ~Disturbed /\ ~Late

\* What the user was told is unmounted is not mounted again; the script for
\* OpenRC has no skip list.
UnmountedStays == Quiet /\ ~OpenRC /\ told = "unmounted" => ~mounted

\* What was mounted is no longer on the skip list.
MountedUnlisted == Quiet /\ told = "mounted" => ~skip

\* What was added without a word of a restart is there.
AddedIsLive ==
    Quiet /\ At("add", "answer") /\ ok /\ ~restart /\ power # "off" => live

\* What the list says is so when it says it; a pass may mount after findmnt, and
\* a guest whose agent is away has no script.
BadgesTrue ==
    Quiet /\ At("list", "answer") =>
        /\ badge.listed = config
        /\ badge.restart = (config /\ power # "off" /\ ~live)
        /\ badge.mounted = "yes" => mounted
        /\ badge.mounted = "no" /\ mounted => timer
        /\ badge.auto = "yes" => timer
        /\ badge.auto = "no" /\ agent => ~timer

(* What the user is told holds until the user says otherwise, through      *)
(* every pass of the script and restart of the machine: "so the timer      *)
(* won't re-mount" (libvirt_backend.c:1654), a mounted folder is mounted   *)
(* in the next run too (1604), an added one is there unless the user is    *)
(* told to restart the machine (routes.c:1123), and the badges of the list *)
(* are true (966-973).                                                     *)
ToldTrue == UnmountedStays /\ MountedUnlisted /\ AddedIsLive /\ BadgesTrue

(* libvirt_backend.c:1398, "Unmount inside guest before detaching the      *)
(* device": it is not mounted when it is detached, if the command for it   *)
(* was a success and no script mounts it again.                            *)
DetachesUnmounted == [][Quiet /\ ~AutoMount /\ Detach /\ ok => ~mounted]_vars

(* libvirt_backend.c:1491-1536: however long the guest and its agent take, *)
(* each request is answered, so that the one thread serves the next.       *)
Answered == Late /\ op # "none" ~> op = "none"
=============================================================================
