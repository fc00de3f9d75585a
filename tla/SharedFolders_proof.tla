------------------------- MODULE SharedFolders_proof -------------------------
(***************************************************************************)
(* Proofs about SharedFolders, for every number of polls and any worlds.   *)
(* The invariant says, for each step of a request, what the commands that  *)
(* have ended before it have established in the guest, and for how long    *)
(* the passes of the script and the machine leave it so.                   *)
(***************************************************************************)
EXTENDS SharedFolders, TLAPS

Exits == {"done", "failed"}
Asked == {"is-active", "rc-status", "schtasks", "service", "launchctl"}
Helps == {"help", "osinfo"} \cup Detection

(* The steps of each request.                                              *)
Steps(o) ==
    CASE o = "none"    -> {"none"}
      [] o = "add"     -> {"enable-memory", "check", "state", "livexml", "attach",
                           "mount", "answer"}
      [] o = "remove"  -> {"xml", "state", "drop", "detach", "answer"}
      [] o = "mount"   -> {"state", "unlist", "mount", "answer"} \cup Helps
      [] o = "unmount" -> {"state", "list", "script", "umount", "answer"} \cup Helps
      [] o = "setup"   -> {"state", "script", "script-rc", "enable", "enable-rc",
                           "answer"} \cup Helps
      [] OTHER         -> {"listxml", "listlive", "mountstate", "findmnt", "autostate",
                           "answer"} \cup Asked

Placed ==
    /\ step \in Steps(op)
    /\ job # "none" => step \in GuestSteps
    /\ op # "setup" => goal = "answer"

(* A command is in work only while it can be asked for, and its exit tells *)
(* what it found or left.                                                  *)
Calm ==
    /\ late = {}
    /\ job # "none" => Answers
    /\ pass = "checked" => timer
    /\ ~AutoMount => op # "setup" /\ ~timer
    /\ step \in Foreign => job # "done"
    /\ step = "rc-service" /\ job = "done" => OpenRC

(* What is added is there, or the user is told to restart the machine.     *)
Adding ==
    /\ At("add", "attach") => hot \/ restart \/ power = "off"
    /\ At("add", "mount") => live
    /\ At("add", "answer") /\ ok /\ ~restart /\ power # "off" => live

(* What is removed without an error is no longer mounted.                  *)
Removing ==
    /\ op = "none" \/ (op = "remove" /\ step \in {"xml", "state"}) => ~ok
    /\ ~AutoMount /\ At("remove", "drop") /\ job \in Exits => ~mounted
    /\ ~AutoMount /\ At("remove", "detach") /\ ok => ~mounted

(* What is mounted by the user is first taken from the list.               *)
Mounting ==
    /\ told # "nothing" => op \in {"none", "setup", "list"}
    /\ op \in {"mount", "unmount"} /\ step \in Helps => ~ok
    /\ step = "unlist" /\ job \in Exits => ~skip
    /\ At("mount", "mount") /\ Answers => ~skip
    /\ At("mount", "answer") /\ ok => ~skip
    /\ told = "mounted" => ~skip

(* What is unmounted by the user is first put on the list, which keeps the *)
(* passes away from it.                                                    *)
KeptAway == skip /\ pass = "idle"
Unmounting ==
    /\ script # "ignores" /\ step \notin {"script-rc", "enable-rc"}
    /\ step = "list" /\ job \in Exits => skip
    /\ op = "unmount" /\ step \in {"script", "umount"} /\ Answers => KeptAway
    /\ step = "umount" /\ job = "done" => ~mounted
    /\ At("unmount", "answer") /\ ok => KeptAway /\ ~mounted
    /\ told = "unmounted" => KeptAway /\ ~mounted

(* What the list says so far.                                              *)
Listing ==
    op = "list" =>
        /\ step # "listxml" =>
              /\ badge.listed = config
              /\ badge.mounted = "yes" => mounted
              /\ badge.mounted = "no" /\ mounted => timer
              /\ badge.auto = "yes" => timer
              /\ badge.auto = "no" => step = "answer" /\ (agent => ~timer)
        /\ step \notin {"listxml", "listlive"} =>
              badge.restart = (config /\ power # "off" /\ ~live)
        /\ step \in Asked => power = "on"
        /\ step \in {"is-active", "rc-status"} /\ job = "done" => timer
        /\ step = "is-active" /\ job = "failed" => ~timer \/ OpenRC
        /\ step = "rc-status" /\ agent => ~timer \/ OpenRC
        /\ step = "rc-status" /\ job = "failed" => ~timer \/ ~OpenRC
        /\ step \in Asked \ {"is-active", "rc-status"} /\ agent => ~timer

QuietInv == /\ Calm /\ Adding /\ Removing /\ Mounting /\ Listing
            /\ ~OpenRC => Unmounting

IInv == TypeOK /\ Placed /\ (Quiet => QuietInv)

-----------------------------------------------------------------------------
(* Types.                                                                  *)
LEMMA InitType == Init => TypeOK
<1> SUFFICES ASSUME Init PROVE TypeOK
  OBVIOUS
<1>1. {config, live, memory, memoryLive, agent, mounted, skip, timer, ok, hot, restart}
         \subseteq BOOLEAN
  BY DEF Init
<1>2. polls \in 0 .. MaxPolls - 1 /\ world \in Worlds
  BY PollAssumption DEF Init
<1> QED BY <1>1, <1>2 DEF Init, TypeOK, NoBadge

(* A command changes what the guest keeps within its types.                *)
LEMMA EffectType ==
    ASSUME TypeOK, NEW c, NEW exit \in BOOLEAN, Effect(c, exit)
    PROVE  /\ {mounted', skip', timer'} \subseteq BOOLEAN
           /\ script' \in {"none", "heeds", "ignores"}
BY DEF TypeOK, Effect

LEMMA CommandType == TypeOK /\ step \in GuestSteps => Command \in GuestSteps \cup {"heed", "ignore"}
BY DEF Command

(* What comes after a command is a step.                                   *)
LEMMA AfterType ==
    ASSUME TypeOK, step \in GuestSteps, NEW r \in BOOLEAN
    PROVE  After(r) \in {"help", "answer", "detach", "autostate"} \cup GuestSteps
BY DEF After, Ended, GuestSteps, Commands, Probes, Foreign, Detection, TypeOK

LEMMA ReturnType ==
    ASSUME TypeOK, step \in GuestSteps, NEW r \in BOOLEAN, Returns(r), late' \subseteq Commands
    PROVE  TypeOK'
<1>1. step' \in {"help", "answer", "detach", "autostate"} \cup GuestSteps
  BY AfterType DEF Returns
<1>2. polls' \in 0 .. MaxPolls - 1
  BY PollAssumption DEF Returns
<1>3. badge' \in [listed : BOOLEAN, restart : BOOLEAN, mounted : {"yes", "no", "unknown"},
                  auto : {"yes", "no", "unknown"}]
  BY DEF Returns, TypeOK
<1>4. ok' \in BOOLEAN
  BY DEF Returns, TypeOK
<1> QED BY <1>1, <1>2, <1>3, <1>4 DEF Returns, TypeOK, hostVars

LEMMA StepType == TypeOK /\ [Next]_vars => TypeOK'
<1> SUFFICES ASSUME TypeOK, [Next]_vars PROVE TypeOK'
  OBVIOUS
<1> USE DEF hostVars, guestVars, execVars, badgeVars, flagVars
<1>1. CASE Start
  BY <1>1 DEF Start, TypeOK
<1>2. CASE Stop
  <2>1. job' \in {"none", "runs", "done", "failed"}
    BY <1>2 DEF Stop, TypeOK
  <2>2. {config', live', memory', memoryLive', agent', mounted', skip', timer', ok',
         hot', restart'} \subseteq BOOLEAN
    BY <1>2 DEF Stop, TypeOK
  <2>3. pass' = "idle" /\ late' = {} /\ power' = "off"
    BY <1>2 DEF Stop
  <2> QED BY <1>2, <2>1, <2>2, <2>3 DEF Stop, TypeOK
<1>3. CASE PauseResume
  BY <1>3 DEF PauseResume, TypeOK
<1>4. CASE AgentComesAndGoes
  BY <1>4 DEF AgentComesAndGoes, TypeOK
<1>5. CASE PassChecks
  BY <1>5 DEF PassChecks, TypeOK
<1>6. CASE PassMounts
  BY <1>6 DEF PassMounts, TypeOK
<1>7. CASE CommandRuns
  <2>1. PICK exit \in BOOLEAN : Effect(Command, exit) /\ job' = IF exit THEN "done" ELSE "failed"
    BY <1>7 DEF CommandRuns
  <2>2. /\ {mounted', skip', timer'} \subseteq BOOLEAN
        /\ script' \in {"none", "heeds", "ignores"}
    BY <2>1, EffectType
  <2> QED BY <1>7, <2>1, <2>2 DEF CommandRuns, TypeOK
<1>8. ASSUME NEW c \in Commands, LateCommandRuns(c) PROVE TypeOK'
  <2>1. /\ {mounted', skip', timer'} \subseteq BOOLEAN
        /\ script' \in {"none", "heeds", "ignores"}
    BY <1>8, EffectType DEF LateCommandRuns
  <2> QED BY <1>8, <2>1 DEF LateCommandRuns, TypeOK
<1>9. CASE Add \/ Remove \/ Mount \/ Unmount \/ Setup \/ List
  BY <1>9 DEF Add, Remove, Mount, Unmount, Setup, List, Request, TypeOK
<1>10. CASE Send
  <2>1. CASE Returns(FALSE) /\ UNCHANGED late
    BY <1>10, <2>1, ReturnType DEF Send, TypeOK
  <2>2. CASE /\ job' = "runs"
             /\ UNCHANGED <<hostVars, guestVars, polls, flagVars, op, step, told>>
    BY <2>2 DEF TypeOK
  <2> QED BY <1>10, <2>1, <2>2 DEF Send
<1>11. CASE Poll
  <2>1. CASE Returns(job = "done") /\ UNCHANGED late
    BY <1>11, <2>1, ReturnType DEF Poll, TypeOK
  <2>2. CASE /\ polls + 1 < MaxPolls
             /\ polls' = polls + 1
             /\ UNCHANGED <<hostVars, guestVars, job, flagVars, op, step, told>>
    <3>1. polls' \in 0 .. MaxPolls - 1
      BY <2>2, PollAssumption DEF TypeOK
    <3> QED BY <2>2, <3>1 DEF TypeOK
  <2>3. CASE /\ Returns(FALSE)
             /\ late' = IF job = "runs" /\ Command \in Commands /\ Cardinality(late) < MaxLate
                        THEN late \cup {Command} ELSE late
    BY <1>11, <2>3, ReturnType DEF Poll, TypeOK
  <2> QED BY <1>11, <2>1, <2>2, <2>3 DEF Poll
<1>12. CASE EnableMemory
  <2>1. memory' \in BOOLEAN
    BY <1>12 DEF EnableMemory, TypeOK
  <2> QED BY <1>12, <2>1 DEF EnableMemory, TypeOK
<1>13. CASE CheckMemory \/ AddState \/ LiveXml \/ AttachFails
  BY <1>13 DEF CheckMemory, AddState, LiveXml, AttachFails, Goes, Fails, Ended, TypeOK
<1>14. CASE Attach
  BY <1>14 DEF Attach, TypeOK, GuestSteps, Commands
<1>15. CASE FindFolder \/ RemoveState \/ DetachFails
  <2>1. step' \in {"state", "drop", "detach", "help", "answer"}
    BY <1>15 DEF FindFolder, RemoveState, DetachFails, Goes, Fails, Ended
  <2>2. {ok', hot'} \subseteq BOOLEAN
    BY <1>15 DEF FindFolder, RemoveState, DetachFails, Goes, Fails, TypeOK
  <2>3. UNCHANGED <<hostVars, guestVars, execVars, restart, badgeVars, op, told>>
    BY <1>15 DEF FindFolder, RemoveState, DetachFails, Goes, Fails
  <2> QED BY <2>1, <2>2, <2>3 DEF TypeOK, GuestSteps, Commands
<1>16. CASE Detach
  <2>1. {live', mounted'} \subseteq BOOLEAN
    <3>1. live' \in BOOLEAN
      BY <1>16 DEF Detach
    <3>2. mounted' \in BOOLEAN
      BY <1>16 DEF Detach
    <3> QED BY <3>1, <3>2
  <2>2. /\ step' = "answer"
        /\ UNCHANGED <<world, power, script, pass, late, polls, job, goal, badge, op, told>>
    BY <1>16 DEF Detach
  <2>3. {config', live', memory', memoryLive', agent', mounted', skip', timer', ok',
         hot', restart'} \subseteq BOOLEAN
    BY <1>16, <2>1 DEF Detach, TypeOK
  <2> QED BY <2>2, <2>3 DEF TypeOK
<1>17. CASE GuestState
  <2>1. step' \in {"unlist", "list", "osinfo", "help", "answer"}
    BY <1>17 DEF GuestState, Goes, Fails, Ended
  <2>2. ok' \in BOOLEAN /\ goal' \in {"script", "answer"}
    BY <1>17 DEF GuestState, Fails, TypeOK
  <2> QED BY <1>17, <2>1, <2>2 DEF GuestState, Goes, Fails, TypeOK, GuestSteps, Commands
<1>18. CASE Help \/ OsInfo
  BY <1>18 DEF Help, OsInfo, Goes, TypeOK, GuestSteps, Detection
<1>19. CASE ListXml \/ ListLive
  BY <1>19 DEF ListXml, ListLive, Goes, Fails, Tells, Ended, NoBadge, TypeOK
<1>20. CASE MountState \/ AutoState
  BY <1>20 DEF MountState, AutoState, Goes, TypeOK, GuestSteps, Probes
<1>21. CASE Answer
  BY <1>21 DEF Answer, NoBadge, TypeOK
<1>22. CASE UNCHANGED vars
  BY <1>22 DEF vars, TypeOK
<1> QED
  BY <1>1, <1>2, <1>3, <1>4, <1>5, <1>6, <1>7, <1>8, <1>9, <1>10, <1>11, <1>12, <1>13,
     <1>14, <1>15, <1>16, <1>17, <1>18, <1>19, <1>20, <1>21, <1>22
  DEF Next, Handler

(* The variables keep their types.                                         *)
THEOREM TypeCorrect == Spec => []TypeOK
BY InitType, StepType, PTL DEF Spec

-----------------------------------------------------------------------------
(* The steps of a request.                                                 *)
LEMMA ReturnPlaced ==
    ASSUME TypeOK, Placed, step \in GuestSteps, NEW r \in BOOLEAN, Returns(r)
    PROVE  Placed'
<1> USE DEF Steps, Helps, Asked, Detection
<1>1. After(r) \in Steps(op)
  <2>1. CASE op \in {"mount", "unmount", "setup"}
    BY <2>1 DEF Placed, After, Ended, Helped, GuestSteps, Commands, Probes, Foreign, TypeOK
  <2>2. CASE op \in {"none", "add", "remove", "list"}
    BY <2>2 DEF Placed, After, Ended, Helped, GuestSteps, Commands, Probes, Foreign
  <2> QED BY <2>1, <2>2 DEF TypeOK
<1> QED BY <1>1 DEF Returns, Placed

LEMMA StepPlaced == TypeOK /\ Placed /\ [Next]_vars => Placed'
<1> SUFFICES ASSUME TypeOK, Placed, [Next]_vars PROVE Placed'
  OBVIOUS
<1> USE DEF hostVars, guestVars, execVars, badgeVars, flagVars
<1>1. ASSUME UNCHANGED <<op, step, goal>>, job' # "none" => step \in GuestSteps PROVE Placed'
  BY <1>1 DEF Placed
<1>2. ASSUME op' = op, step' \in Steps(op), UNCHANGED job, job = "none" \/ step' \in GuestSteps,
             goal' = goal \/ op = "setup" \/ goal' = "answer"
      PROVE  Placed'
  BY <1>2 DEF Placed
<1>3. CASE Start \/ PauseResume \/ AgentComesAndGoes \/ PassChecks \/ PassMounts
  BY <1>1, <1>3
  DEF Start, PauseResume, AgentComesAndGoes, PassChecks, PassMounts, Placed
<1>4. CASE Stop
  BY <1>1, <1>4 DEF Stop, Placed
<1>5. CASE CommandRuns
  BY <1>1, <1>5 DEF CommandRuns, Placed
<1>6. ASSUME NEW c \in Commands, LateCommandRuns(c) PROVE Placed'
  BY <1>1, <1>6 DEF LateCommandRuns, Placed
<1>7. CASE Add \/ Remove \/ Mount \/ Unmount \/ Setup \/ List
  BY <1>7 DEF Add, Remove, Mount, Unmount, Setup, List, Request, Placed, Steps, GuestSteps,
     Commands, Probes, Foreign, Detection
<1>8. CASE Send
  BY <1>1, <1>8, ReturnPlaced DEF Send
<1>9. CASE Poll
  BY <1>1, <1>9, ReturnPlaced DEF Poll
<1>10. ASSUME step \notin GuestSteps PROVE job = "none"
  BY <1>10 DEF Placed
<1>11. step \in {"enable-memory", "check", "livexml", "attach", "xml", "state", "detach",
                "help", "osinfo", "listxml", "listlive", "mountstate", "autostate", "answer"}
          => job = "none"
  BY <1>10 DEF GuestSteps, Commands, Probes, Foreign, Detection
<1>12. CASE EnableMemory \/ CheckMemory \/ AddState \/ LiveXml \/ Attach \/ AttachFails
  <2>1. /\ op = "add"
        /\ step \in {"enable-memory", "check", "state", "livexml", "attach"}
    BY <1>12 DEF EnableMemory, CheckMemory, AddState, LiveXml, Attach, AttachFails, At
  <2>2. step' \in {"check", "state", "livexml", "attach", "mount", "answer"}
    BY <1>12, <2>1 DEF EnableMemory, CheckMemory, AddState, LiveXml, Attach, AttachFails,
       Goes, Fails, Ended, Helped
  <2>3. op' = op /\ UNCHANGED <<job, goal>>
    BY <1>12
    DEF EnableMemory, CheckMemory, AddState, LiveXml, Attach, AttachFails, Goes, Fails
  <2>4. step' \in Steps(op)
    BY <2>1, <2>2 DEF Steps
  <2> QED BY <1>2, <1>11, <2>1, <2>3, <2>4
<1>13. CASE FindFolder \/ RemoveState \/ Detach \/ DetachFails
  <2>1. op = "remove" /\ step \in {"xml", "state", "detach"}
    BY <1>13 DEF FindFolder, RemoveState, Detach, DetachFails, At
  <2>2. step' \in {"state", "drop", "detach", "answer"}
    BY <1>13, <2>1 DEF FindFolder, RemoveState, Detach, DetachFails, Goes, Fails, Ended, Helped
  <2>3. op' = op /\ UNCHANGED <<job, goal>>
    BY <1>13 DEF FindFolder, RemoveState, Detach, DetachFails, Goes, Fails
  <2>4. step' \in Steps(op)
    BY <2>1, <2>2 DEF Steps
  <2> QED BY <1>2, <1>11, <2>1, <2>3, <2>4
<1>14. CASE GuestState
  <2>1. step = "state" /\ op \in Helped /\ op' = op /\ UNCHANGED job
    BY <1>14 DEF GuestState, Goes, Fails
  <2>2. goal' = goal \/ op = "setup" \/ goal' = "answer"
    BY <1>14 DEF GuestState, Fails
  <2>3. \/ op = "mount" /\ step' = "unlist"
        \/ op = "unmount" /\ step' = "list"
        \/ op = "setup" /\ step' = "osinfo"
        \/ step' = "help"
    BY <1>14, <2>1 DEF GuestState, Goes, Fails, Ended, Helped
  <2>4. step' \in Steps(op)
    BY <2>1, <2>3 DEF Steps, Helps, Helped
  <2> QED BY <1>2, <1>11, <2>1, <2>2, <2>4
<1>15. CASE Help \/ OsInfo
  <2>1. step \in {"help", "osinfo"}
    BY <1>15 DEF Help, OsInfo
  <2>2. op \in {"mount", "unmount", "setup"}
    BY <2>1 DEF Placed, Steps, Helps, Asked, TypeOK
  <2>3. op' = op /\ UNCHANGED job /\ (goal' = goal \/ goal' = "answer")
    BY <1>15 DEF Help, OsInfo, Goes
  <2>4. step' \in {"osinfo", "answer", "systemctl", "cmd.exe"}
    BY <1>15 DEF Help, OsInfo, Goes
  <2>5. step' \in Steps(op)
    BY <2>2, <2>4 DEF Steps, Helps, Detection
  <2> QED BY <1>2, <1>11, <2>1, <2>3, <2>5
<1>16. CASE ListXml \/ ListLive \/ MountState \/ AutoState
  <2>1. op = "list" /\ step \in {"listxml", "listlive", "mountstate", "autostate"}
    BY <1>16 DEF ListXml, ListLive, MountState, AutoState, At
  <2>2. step' \in {"listlive", "mountstate", "findmnt", "autostate", "is-active", "answer"}
    BY <1>16, <2>1 DEF ListXml, ListLive, MountState, AutoState, Goes, Fails, Ended, Helped
  <2>3. op' = op /\ UNCHANGED <<job, goal>>
    BY <1>16 DEF ListXml, ListLive, MountState, AutoState, Goes, Fails, Tells
  <2>4. step' \in Steps(op)
    BY <2>1, <2>2 DEF Steps, Asked
  <2> QED BY <1>2, <1>11, <2>1, <2>3, <2>4
<1>17. CASE Answer
  BY <1>11, <1>17 DEF Answer, Placed, Steps
<1>18. CASE UNCHANGED vars
  BY <1>1, <1>18 DEF vars, Placed
<1> QED
  BY <1>3, <1>4, <1>5, <1>6, <1>7, <1>8, <1>9, <1>12, <1>13, <1>14, <1>15, <1>16, <1>17, <1>18
  DEF Next, Handler

-----------------------------------------------------------------------------
(* When nothing disturbs a request.                                        *)

(* What a command does, and whether its exit is 0.                         *)
LEMMA Ran ==
    ASSUME TypeOK, Placed, Quiet, CommandRuns
    PROVE  /\ job' \in Exits /\ power = "on" /\ job = "runs"
           /\ step = "mount" => mounted' = (live \/ mounted)
           /\ step \in {"umount", "drop"} => ~mounted'
           /\ step \notin {"mount", "umount", "drop"} => mounted' = mounted
           /\ step = "list" => skip'
           /\ step \in {"unlist", "drop"} => ~skip'
           /\ step \notin {"list", "unlist", "drop"} => skip' = skip
           /\ script' \in {script, "heeds"} \/ step = "script-rc"
           /\ timer => timer'
           /\ step \notin {"enable", "enable-rc"} => timer' = timer
           /\ step = "is-active" => (job' = "done" <=> timer /\ ~OpenRC)
           /\ step = "rc-status" => (job' = "done" <=> timer /\ OpenRC)
           /\ step = "rc-service" => (job' = "done" <=> OpenRC)
           /\ step \in Foreign => job' = "failed"
<1>1. PICK exit \in BOOLEAN :
         Effect(Command, exit) /\ job' = IF exit THEN "done" ELSE "failed"
  BY DEF CommandRuns
<1>2. exit <=> Able(Command)
  BY <1>1 DEF Effect, Quiet
<1>3. /\ step = "script" => Command = "heed"
      /\ step = "script-rc" => Command = "ignore"
      /\ step \notin {"script", "script-rc"} => Command = step
  BY DEF Command
<1>4. step \in Foreign => ~Able(Command)
  BY <1>3 DEF Able, Foreign
<1>5. /\ step = "is-active" => (Able(Command) <=> timer /\ ~OpenRC)
      /\ step = "rc-status" => (Able(Command) <=> timer /\ OpenRC)
      /\ step = "rc-service" => (Able(Command) <=> OpenRC)
      /\ step = "list" => Able(Command)
      /\ step = "umount" => (Able(Command) <=> mounted)
      /\ step = "mount" => (Able(Command) <=> live /\ ~mounted)
  BY <1>3 DEF Able, Foreign
<1>6. mounted' = IF Command = "mount" /\ exit THEN TRUE
                 ELSE IF Command = "umount" /\ exit THEN FALSE
                 ELSE IF Command = "drop" THEN FALSE ELSE mounted
  BY <1>1 DEF Effect, Quiet
<1>7. /\ step = "mount" => mounted' = (live \/ mounted)
      /\ step \in {"umount", "drop"} => ~mounted'
      /\ step \notin {"mount", "umount", "drop"} => mounted' = mounted
  BY <1>2, <1>3, <1>5, <1>6 DEF TypeOK
<1>8. /\ step = "list" => skip'
      /\ step \in {"unlist", "drop"} => ~skip'
      /\ step \notin {"list", "unlist", "drop"} => skip' = skip
  BY <1>1, <1>2, <1>3, <1>5 DEF Effect
<1>9. /\ script' \in {script, "heeds"} \/ step = "script-rc"
      /\ timer => timer'
      /\ step \notin {"enable", "enable-rc"} => timer' = timer
  <2>1. timer' = (timer \/ (Command \in {"enable", "enable-rc"} /\ exit))
    BY <1>1 DEF Effect
  <2>2. script' = IF Command = "heed" /\ exit THEN "heeds"
                  ELSE IF Command = "ignore" /\ exit THEN "ignores" ELSE script
    BY <1>1 DEF Effect
  <2>3. step # "script-rc" => Command # "ignore"
    BY <1>3 DEF CommandRuns, Placed, GuestSteps, Commands, Probes, Foreign, Detection
  <2>4. script' \in {script, "heeds"} \/ step = "script-rc"
    BY <2>2, <2>3
  <2>5. step \notin {"enable", "enable-rc"} => Command \notin {"enable", "enable-rc"}
    BY <1>3
  <2> QED BY <2>1, <2>4, <2>5 DEF TypeOK
<1>10. power = "on" /\ job = "runs"
  BY DEF CommandRuns
<1> QED BY <1>1, <1>2, <1>4, <1>5, <1>7, <1>8, <1>9, <1>10 DEF Exits

(* The calls of the handlers that do not go through guest_exec().          *)
AddMoves == EnableMemory \/ CheckMemory \/ AddState \/ LiveXml \/ Attach \/ AttachFails
RemoveMoves == FindFolder \/ RemoveState \/ Detach \/ DetachFails
GuestMoves == GuestState \/ Help \/ OsInfo
ListMoves == ListXml \/ ListLive \/ MountState \/ AutoState
Moves == AddMoves \/ RemoveMoves \/ GuestMoves \/ ListMoves

Outside == Start \/ Stop \/ PauseResume \/ AgentComesAndGoes
Passes == PassChecks \/ PassMounts
Requests == Add \/ Remove \/ Mount \/ Unmount \/ Setup \/ List

LEMMA NextIs ==
    Next <=> \/ Outside \/ Passes \/ CommandRuns
             \/ \E c \in Commands : LateCommandRuns(c)
             \/ Requests \/ Send \/ Poll \/ Moves \/ Answer
BY DEF Next, Handler, Outside, Passes, Requests, Moves, AddMoves, RemoveMoves, GuestMoves,
   ListMoves

(* Around a request nothing changes: between two of them, no command is    *)
(* waited for.                                                             *)
LEMMA OutsideStays ==
    ASSUME Placed, Quiet, Outside
    PROVE  /\ op = "none" /\ step = "none" /\ job = "none" /\ job' = "none"
           /\ UNCHANGED <<world, config, memory, skip, script, timer, flagVars, op, step, told>>
           /\ late' = late \/ late' = {}
           /\ pass' = pass \/ pass' = "idle"
           /\ mounted' = mounted \/ ~mounted'
<1>1. op = "none"
  BY DEF Outside, Start, Stop, PauseResume, AgentComesAndGoes, Between, Quiet
<1>2. step = "none" /\ job = "none"
  BY <1>1 DEF Placed, Steps, GuestSteps, Commands, Probes, Foreign, Detection
<1> QED
  BY <1>1, <1>2 DEF Outside, Start, Stop, PauseResume, AgentComesAndGoes, hostVars, guestVars,
     execVars, flagVars

(* A request begins.                                                       *)
LEMMA Begun ==
    ASSUME Placed, Requests
    PROVE  /\ op = "none" /\ job = "none" /\ job' = "none"
           /\ UNCHANGED <<hostVars, guestVars, execVars, flagVars>>
           /\ op' \in {"add", "remove", "mount", "unmount", "setup", "list"}
           /\ op' = "add" => step' \in {"enable-memory", "check"}
           /\ op' = "remove" => step' = "xml"
           /\ op' \in {"mount", "unmount", "setup"} => step' = "state"
           /\ op' = "setup" => AutoMount
           /\ op' = "list" => step' = "listxml"
           /\ told' = IF op' \in {"setup", "list"} THEN told ELSE "nothing"
<1>1. op = "none"
  BY DEF Requests, Add, Remove, Mount, Unmount, Setup, List, Request
<1>2. job = "none"
  BY <1>1 DEF Placed, Steps, GuestSteps, Commands, Probes, Foreign, Detection
<1> QED
  BY <1>1, <1>2 DEF Requests, Add, Remove, Mount, Unmount, Setup, List, Request, execVars

(* The handler sends a command, or has waited long enough for it.          *)
LEMMA SentOrBack ==
    ASSUME TypeOK, Quiet, Calm, Send \/ Poll
    PROVE  /\ step \in GuestSteps
           /\ \/ /\ Answers /\ job = "none" /\ job' = "runs"
                 /\ UNCHANGED <<hostVars, guestVars, flagVars, op, step, told>>
              \/ \E r \in BOOLEAN :
                    /\ Returns(r) /\ UNCHANGED <<hostVars, guestVars>>
                    /\ r => job = "done" /\ Answers
                    /\ ~r /\ Answers => job = "failed"
                    /\ Answers => job \in Exits /\ pass = "idle"
<1>1. CASE Send
  <2>1. CASE Answers
    BY <1>1, <2>1 DEF Send
  <2>2. CASE ~Answers
    <3>1. Returns(FALSE) /\ UNCHANGED late
      BY <1>1, <2>2 DEF Send
    <3> QED BY <1>1, <2>2, <3>1 DEF Send, Returns, guestVars
  <2> QED BY <2>1, <2>2
<1>2. CASE Poll
  <2>1. job # "none" /\ Answers /\ pass = "idle" /\ job # "runs"
    BY <1>2 DEF Poll, Calm, Quiet
  <2>2. Returns(job = "done") /\ UNCHANGED late
    BY <1>2, <2>1 DEF Poll
  <2>3. job \in Exits
    BY <2>1 DEF TypeOK, Exits
  <2>4. UNCHANGED <<hostVars, guestVars>>
    BY <2>2 DEF Returns, guestVars
  <2>5. (job = "done") \in BOOLEAN /\ (job # "done" => job = "failed")
    BY <2>3 DEF Exits
  <2> QED BY <1>2, <2>1, <2>2, <2>3, <2>4, <2>5 DEF Poll
<1> QED BY <1>1, <1>2

(* The handler asks libvirt.                                               *)
LEMMA Moved ==
    ASSUME Placed, Moves
    PROVE  /\ job = "none" /\ job' = "none" /\ op' = op /\ told' = told /\ op # "none"
           /\ UNCHANGED <<world, power, memoryLive, agent, skip, script, timer, pass, late>>
           /\ ~Attach /\ ~Detach => UNCHANGED <<config, live, mounted>>
<1>1. step \in {"enable-memory", "check", "livexml", "attach", "xml", "state", "detach",
                "help", "osinfo", "listxml", "listlive", "mountstate", "autostate"}
  BY DEF Moves, AddMoves, RemoveMoves, GuestMoves, ListMoves, EnableMemory, CheckMemory,
     AddState, LiveXml, Attach, AttachFails, FindFolder, RemoveState, Detach, DetachFails,
     GuestState, Help, OsInfo, ListXml, ListLive, MountState, AutoState, At
<1>2. job = "none" /\ op # "none"
  BY <1>1 DEF Placed, Steps, GuestSteps, Commands, Probes, Foreign, Detection
<1> USE DEF hostVars, guestVars, execVars, Goes, Fails
<1>3. CASE AddMoves
  BY <1>2, <1>3 DEF AddMoves, EnableMemory, CheckMemory, AddState, LiveXml, Attach, AttachFails
<1>4. CASE RemoveMoves
  BY <1>2, <1>4 DEF RemoveMoves, FindFolder, RemoveState, Detach, DetachFails
<1>5. CASE GuestMoves
  BY <1>2, <1>5 DEF GuestMoves, GuestState, Help, OsInfo
<1>6. CASE ListMoves
  BY <1>2, <1>6 DEF ListMoves, ListXml, ListLive, MountState, AutoState
<1> QED BY <1>3, <1>4, <1>5, <1>6 DEF Moves

LEMMA MovesFor ==
    Placed => /\ AddMoves => op = "add"
              /\ RemoveMoves => op = "remove"
              /\ GuestMoves => op \in Helped
              /\ ListMoves => op = "list"
<1> SUFFICES ASSUME Placed
             PROVE  /\ AddMoves => op = "add"
                    /\ RemoveMoves => op = "remove"
                    /\ GuestMoves => op \in Helped
                    /\ ListMoves => op = "list"
  OBVIOUS
<1>1. ASSUME Help \/ OsInfo PROVE op \in Helped
  <2>1. step \in {"help", "osinfo"}
    BY <1>1 DEF Help, OsInfo
  <2> QED BY <2>1 DEF Placed, Steps, Helped, Asked
<1> QED
  BY <1>1
  DEF AddMoves, RemoveMoves, GuestMoves, ListMoves, EnableMemory, CheckMemory, AddState,
      LiveXml, Attach, AttachFails, FindFolder, RemoveState, Detach, DetachFails, GuestState,
      ListXml, ListLive, MountState, AutoState, At

LEMMA WorldStays == [Next]_vars => world' = world
BY NextIs
DEF vars, hostVars, Outside, Start, Stop, PauseResume, AgentComesAndGoes, Passes, PassChecks,
    PassMounts, CommandRuns, LateCommandRuns, Requests, Add, Remove, Mount, Unmount, Setup,
    List, Request, Send, Poll, Returns, Moves, AddMoves, RemoveMoves, GuestMoves, ListMoves,
    EnableMemory, CheckMemory, AddState, LiveXml, Attach, AttachFails, FindFolder, RemoveState,
    Detach, DetachFails, GuestState, Help, OsInfo, ListXml, ListLive, MountState, AutoState,
    Goes, Fails, Answer

-----------------------------------------------------------------------------
(* What is quiet stays so, and no command is late.                         *)
LEMMA StepCalm == TypeOK /\ Placed /\ Quiet /\ Calm /\ [Next]_vars => Calm'
<1> SUFFICES ASSUME TypeOK, Placed, Quiet, Calm, [Next]_vars PROVE Calm'
  OBVIOUS
<1> USE DEF hostVars, guestVars, execVars, flagVars
<1>0. OpenRC' = OpenRC /\ AutoMount' = AutoMount
  BY WorldStays DEF OpenRC, AutoMount
<1>1. CASE Outside
  BY <1>0, <1>1, OutsideStays DEF Calm
<1>2. CASE PassChecks \/ PassMounts
  BY <1>0, <1>2 DEF PassChecks, PassMounts, Calm, Answers
<1>3. CASE CommandRuns
  <2>1. op # "setup" => step \notin {"enable", "enable-rc"}
    BY DEF Placed, Steps, Helps, Detection, Asked, TypeOK
  <2>2. UNCHANGED <<late, agent, power, pass, step, op>>
    BY <1>3 DEF CommandRuns
  <2>3. Answers
    BY <1>3 DEF Calm, CommandRuns
  <2> QED BY <1>0, <1>3, <2>1, <2>2, <2>3, Ran DEF Calm, Answers, Exits
<1>4. ASSUME NEW c \in Commands, LateCommandRuns(c) PROVE FALSE
  BY <1>4 DEF LateCommandRuns, Calm
<1>5. CASE Requests
  BY <1>0, <1>5, Begun DEF Calm
<1>6. CASE Send \/ Poll
  <2>1. CASE /\ Answers /\ job' = "runs"
             /\ UNCHANGED <<hostVars, guestVars, flagVars, op, step, told>>
    BY <1>0, <2>1 DEF Calm, Answers
  <2>2. ASSUME NEW r \in BOOLEAN, Returns(r), UNCHANGED <<hostVars, guestVars>> PROVE Calm'
    BY <1>0, <2>2 DEF Calm, Returns
  <2> QED BY <1>6, <2>1, <2>2, SentOrBack
<1>7. CASE Moves
  BY <1>0, <1>7, Moved DEF Calm
<1>8. CASE Answer
  <2>1. job = "none"
    BY <1>8 DEF Answer, Placed, GuestSteps, Commands, Probes, Foreign, Detection
  <2> QED BY <1>0, <1>8, <2>1 DEF Answer, Calm
<1>9. CASE UNCHANGED vars
  BY <1>0, <1>9 DEF vars, Calm, Answers
<1> QED BY <1>1, <1>2, <1>3, <1>4, <1>5, <1>6, <1>7, <1>8, <1>9, NextIs DEF Passes

(* Additions.                                                              *)
LEMMA StepAdding == TypeOK /\ Placed /\ Quiet /\ Calm /\ Adding /\ [Next]_vars => Adding'
<1> SUFFICES ASSUME TypeOK, Placed, Quiet, Calm, Adding, [Next]_vars PROVE Adding'
  OBVIOUS
<1> USE DEF hostVars, guestVars, execVars, flagVars, badgeVars, At
<1>1. ASSUME UNCHANGED <<power, live, op, step, ok, hot, restart>> PROVE Adding'
  BY <1>1 DEF Adding
<1>2. ASSUME op' # "add" PROVE Adding'
  BY <1>2 DEF Adding
<1>3. CASE Outside
  BY <1>2, <1>3, OutsideStays
<1>4. CASE PassChecks \/ PassMounts \/ CommandRuns
  BY <1>1, <1>4 DEF PassChecks, PassMounts, CommandRuns
<1>5. ASSUME NEW c \in Commands, LateCommandRuns(c) PROVE FALSE
  BY <1>5 DEF LateCommandRuns, Calm
<1>6. CASE Requests
  BY <1>2, <1>6, Begun DEF Adding
<1>7. CASE Send \/ Poll
  <2>1. CASE UNCHANGED <<hostVars, guestVars, flagVars, op, step, told>>
    BY <1>1, <2>1
  <2>2. ASSUME NEW r \in BOOLEAN, Returns(r), op = "add", step \in GuestSteps PROVE Adding'
    <3>1. step = "mount"
      BY <2>2 DEF Placed, Steps, GuestSteps, Commands, Probes, Foreign, Detection
    <3>2. step' = "answer" /\ UNCHANGED <<power, live>>
      BY <2>2, <3>1 DEF Returns, After, Ended, Helped, Detection
    <3> QED BY <3>1, <3>2, <2>2 DEF Adding, Returns
  <2>3. ASSUME NEW r \in BOOLEAN, Returns(r), op # "add" PROVE Adding'
    BY <1>2, <2>3 DEF Returns
  <2> QED BY <1>7, <2>1, <2>2, <2>3, SentOrBack
<1>8. CASE AddMoves
  <2>1. CASE EnableMemory
    BY <2>1 DEF EnableMemory, Adding
  <2>2. CASE CheckMemory
    BY <2>2 DEF CheckMemory, Goes, Fails, Ended, Helped, Adding
  <2>3. CASE AddState
    BY <2>3 DEF AddState, Goes, Adding, Quiet
  <2>4. CASE LiveXml
    BY <2>4 DEF LiveXml, Goes, Adding, Quiet, TypeOK
  <2>5. CASE Attach
    <3>1. hot => live'
      BY <2>5 DEF Attach
    <3>2. ~hot => step' = "answer" /\ (restart \/ power = "off")
      BY <2>5 DEF Attach, Adding
    <3>3. hot => step' = "mount"
      BY <2>5 DEF Attach
    <3> QED BY <2>5, <3>1, <3>2, <3>3 DEF Attach, Adding
  <2>6. CASE AttachFails
    BY <2>6 DEF AttachFails, Goes, Fails, Ended, Helped, Adding
  <2> QED BY <1>8, <2>1, <2>2, <2>3, <2>4, <2>5, <2>6 DEF AddMoves
<1>9. CASE Moves /\ ~AddMoves
  <2>1. op # "add"
    BY <1>9, MovesFor DEF Moves, Helped
  <2> QED BY <1>2, <1>9, <2>1, Moved
<1>10. CASE Answer
  BY <1>2, <1>10 DEF Answer
<1>11. CASE UNCHANGED vars
  BY <1>1, <1>11 DEF vars
<1> QED BY <1>3, <1>4, <1>5, <1>6, <1>7, <1>8, <1>9, <1>10, <1>11, NextIs DEF Passes

(* Removals.                                                               *)
LEMMA StepRemoving == TypeOK /\ Placed /\ Quiet /\ Calm /\ Removing /\ [Next]_vars => Removing'
<1> SUFFICES ASSUME TypeOK, Placed, Quiet, Calm, Removing, [Next]_vars PROVE Removing'
  OBVIOUS
<1> USE DEF hostVars, guestVars, execVars, flagVars, badgeVars, At
<1>0. AutoMount' = AutoMount
  BY WorldStays DEF AutoMount
<1>1. ASSUME UNCHANGED <<op, step, ok, job, mounted>> PROVE Removing'
  BY <1>0, <1>1 DEF Removing
<1>2. ASSUME op' \notin {"none", "remove"} PROVE Removing'
  BY <1>2 DEF Removing
<1>3. CASE Outside
  BY <1>0, <1>3, OutsideStays DEF Removing
<1>4. CASE PassChecks
  BY <1>1, <1>4 DEF PassChecks
<1>5. CASE PassMounts
  <2>1. AutoMount
    BY <1>5 DEF PassMounts, Calm
  <2> QED BY <1>0, <1>5, <2>1 DEF PassMounts, Removing
<1>6. CASE CommandRuns
  <2>1. UNCHANGED <<op, step, ok>> /\ step \in GuestSteps
    BY <1>6 DEF CommandRuns, Placed
  <2>2. step = "drop" => ~mounted'
    BY <1>6, Ran
  <2>3. step \notin {"xml", "state", "detach", "none"}
    BY <2>1 DEF GuestSteps, Commands, Probes, Foreign, Detection
  <2> QED BY <2>1, <2>2, <2>3 DEF Removing, Placed, Steps
<1>7. ASSUME NEW c \in Commands, LateCommandRuns(c) PROVE FALSE
  BY <1>7 DEF LateCommandRuns, Calm
<1>8. CASE Requests
  BY <1>8, Begun DEF Removing
<1>9. CASE Send \/ Poll
  <2>1. CASE /\ job' = "runs"
             /\ UNCHANGED <<hostVars, guestVars, flagVars, op, step, told>>
    BY <1>0, <2>1 DEF Removing, Exits
  <2>2. ASSUME NEW r \in BOOLEAN, Returns(r), r => job = "done",
               UNCHANGED <<hostVars, guestVars>>, op = "remove", step \in GuestSteps
        PROVE  Removing'
    <3>1. step = "drop"
      BY <2>2 DEF Placed, Steps, GuestSteps, Commands, Probes, Foreign, Detection
    <3>2. step' = "detach" /\ UNCHANGED <<op, mounted>> /\ ok' = r
      BY <2>2, <3>1 DEF Returns, After, Detection
    <3> QED BY <1>0, <2>2, <3>1, <3>2 DEF Removing, Exits
  <2>3. ASSUME NEW r \in BOOLEAN, Returns(r), op # "remove", step \in GuestSteps PROVE Removing'
    <3>1. op # "none"
      BY <2>3 DEF Placed, Steps, GuestSteps, Commands, Probes, Foreign, Detection
    <3> QED BY <1>2, <2>3, <3>1 DEF Returns
  <2> QED BY <1>9, <2>1, <2>2, <2>3, SentOrBack
<1>10. CASE RemoveMoves
  <2>0. op' = "remove" /\ job' = "none"
    BY <1>10, Moved, MovesFor DEF Moves
  <2>1. CASE FindFolder
    BY <2>0, <2>1 DEF FindFolder, Goes, Fails, Ended, Helped, Removing
  <2>2. CASE RemoveState
    BY <2>0, <2>2 DEF RemoveState, Goes, Removing, Exits
  <2>3. CASE Detach
    BY <2>0, <2>3 DEF Detach, Removing
  <2>4. CASE DetachFails
    BY <2>0, <2>4 DEF DetachFails, Goes, Fails, Ended, Helped, Removing
  <2> QED BY <1>10, <2>1, <2>2, <2>3, <2>4 DEF RemoveMoves
<1>11. CASE Moves /\ ~RemoveMoves
  BY <1>2, <1>11, Moved, MovesFor DEF Moves, Helped
<1>12. CASE Answer
  BY <1>12 DEF Answer, Removing
<1>13. CASE UNCHANGED vars
  BY <1>1, <1>13 DEF vars
<1> QED
  BY <1>3, <1>4, <1>5, <1>6, <1>7, <1>8, <1>9, <1>10, <1>11, <1>12, <1>13, NextIs DEF Passes

(* Mounts.                                                                 *)
LEMMA StepMounting == TypeOK /\ Placed /\ Quiet /\ Calm /\ Mounting /\ [Next]_vars => Mounting'
<1> SUFFICES ASSUME TypeOK, Placed, Quiet, Calm, Mounting, [Next]_vars PROVE Mounting'
  OBVIOUS
<1> USE DEF hostVars, guestVars, execVars, flagVars, badgeVars, At
<1>1. ASSUME UNCHANGED <<op, step, ok, job, skip, told, power, agent>> PROVE Mounting'
  BY <1>1 DEF Mounting, Answers
<1>2. CASE Outside
  <2>1. /\ op' = "none" /\ step' = "none"
        /\ UNCHANGED <<skip, told, op>>
    BY <1>2, OutsideStays
  <2> QED BY <2>1 DEF Mounting, Helps, Detection
<1>3. CASE PassChecks \/ PassMounts
  BY <1>1, <1>3 DEF PassChecks, PassMounts
<1>4. CASE CommandRuns
  <2>1. UNCHANGED <<op, step, ok, told, power, agent>> /\ step \in GuestSteps
    BY <1>4 DEF CommandRuns, Placed
  <2>2. /\ step = "unlist" => ~skip'
        /\ step # "list" => skip' = skip \/ ~skip'
    BY <1>4, Ran
  <2>3. step = "list" => op = "unmount"
    BY <2>1 DEF Placed, Steps, Helps, Detection, Asked, TypeOK
  <2>4. step # "answer"
    BY <2>1 DEF GuestSteps, Commands, Probes, Foreign, Detection
  <2> QED BY <2>1, <2>2, <2>3, <2>4 DEF Mounting, Answers
<1>5. ASSUME NEW c \in Commands, LateCommandRuns(c) PROVE FALSE
  BY <1>5 DEF LateCommandRuns, Calm
<1>6. CASE Requests
  <2>1. step' \in {"enable-memory", "check", "xml", "state", "listxml"}
    BY <1>6, Begun
  <2> QED BY <1>6, <2>1, Begun DEF Mounting, Helps, Detection
<1>7. CASE Send \/ Poll
  <2>1. CASE /\ job' = "runs"
             /\ UNCHANGED <<hostVars, guestVars, flagVars, op, step, told>>
    BY <2>1 DEF Mounting, Exits, Answers
  <2>2. ASSUME NEW r \in BOOLEAN, Returns(r), UNCHANGED <<hostVars, guestVars>>,
               step \in GuestSteps, r => job = "done" /\ Answers, Answers => job \in Exits
        PROVE  Mounting'
    <3>0. UNCHANGED <<op, told, skip, power, agent>> /\ job' = "none" /\ step' = After(r)
      BY <2>2 DEF Returns
    <3>1. CASE op = "mount" /\ step = "unlist"
      <4>1. step' = "mount"
        BY <3>0, <3>1 DEF After, Detection
      <4> QED BY <2>2, <3>0, <3>1, <4>1 DEF Mounting, Helps, Detection, Answers
    <3>2. CASE op = "mount" /\ step = "mount"
      <4>1. step' = (IF r THEN "answer" ELSE "help") /\ ok' = r
        BY <2>2, <3>0, <3>2 DEF After, Returns, Ended, Helped, Detection
      <4> QED BY <2>2, <3>0, <3>2, <4>1 DEF Mounting, Helps, Detection, Answers
    <3>3. CASE op \in {"mount", "unmount"} /\ step \in Detection
      <4>1. ok' = ok /\ ~ok
        BY <2>2, <3>3 DEF Returns, Mounting, Helps
      <4>2. step' \in Helps \cup {"answer"}
        BY <3>0, <3>3 DEF After, Placed, Helps, Detection
      <4>3. step' \notin {"unlist", "mount"}
        BY <4>2 DEF Helps, Detection
      <4> QED BY <3>0, <4>1, <4>3 DEF Mounting
    <3>4. CASE op = "unmount" /\ step \in {"list", "script", "umount"}
      <4>1. /\ step' \in {"script", "umount", "answer", "help"}
            /\ step' = "help" => ~r
            /\ ok' = r
        BY <2>2, <3>0, <3>4 DEF After, Returns, Ended, Helped, Detection
      <4> QED BY <3>0, <3>4, <4>1 DEF Mounting, Helps, Detection
    <3>5. CASE op \notin {"mount", "unmount"}
      <4>1. step' \in Steps(op)
        BY <2>2, ReturnPlaced, <3>0 DEF Placed
      <4>2. step' # "unlist"
        BY <4>1, <3>5 DEF Steps, Helps, Detection, Asked
      <4> QED BY <3>0, <3>5, <4>2 DEF Mounting
    <3>6. op \in {"mount", "unmount"} =>
             step \in {"unlist", "mount", "list", "script", "umount"} \cup Detection
      BY <2>2 DEF Placed, Steps, GuestSteps, Commands, Probes, Foreign, Helps
    <3>7. /\ op = "mount" => step \in {"unlist", "mount"} \cup Detection
          /\ op = "unmount" => step \in {"list", "script", "umount"} \cup Detection
      BY <2>2 DEF Placed, Steps, GuestSteps, Commands, Probes, Foreign, Helps
    <3> QED BY <3>1, <3>2, <3>3, <3>4, <3>5, <3>7
  <2> QED BY <1>7, <2>1, <2>2, SentOrBack
<1>8. CASE GuestMoves
  <2>0. op \in Helped /\ UNCHANGED <<op, skip, told, power, agent>> /\ job' = "none"
    BY <1>8, Moved, MovesFor DEF Moves
  <2>1. CASE GuestState
    <3>1. \/ step' \in {"unlist", "list", "osinfo"} /\ (op # "setup" => step' # "osinfo")
          \/ step' = "help" /\ ok' = FALSE
      BY <2>0, <2>1 DEF GuestState, Goes, Fails, Ended, Helped
    <3> QED BY <2>0, <3>1 DEF Mounting, Exits, Helped, Helps, Detection
  <2>2. CASE Help \/ OsInfo
    <3>1. step \in Helps /\ ok' = ok /\ step' \in {"osinfo", "answer", "systemctl", "cmd.exe"}
      BY <2>2 DEF Help, OsInfo, Goes, Helps
    <3> QED BY <2>0, <3>1 DEF Mounting
  <2> QED BY <1>8, <2>1, <2>2 DEF GuestMoves
<1>9. CASE Moves /\ ~GuestMoves
  <2>1. op' \notin {"mount", "unmount", "none", "setup"} /\ UNCHANGED <<op, skip, told>>
        /\ job' = "none"
    BY <1>9, Moved, MovesFor DEF Moves
  <2> QED BY <2>1 DEF Mounting, Exits
<1>10. CASE Answer
  <2>1. /\ op' = "none" /\ step' = "none" /\ UNCHANGED skip
        /\ told' = "mounted" => told = "mounted" \/ (op = "mount" /\ ok)
        /\ step = "answer"
    BY <1>10 DEF Answer
  <2> QED BY <2>1 DEF Mounting, Helps, Detection
<1>11. CASE UNCHANGED vars
  BY <1>1, <1>11 DEF vars
<1> QED
  BY <1>2, <1>3, <1>4, <1>5, <1>6, <1>7, <1>8, <1>9, <1>10, <1>11, NextIs DEF Passes

(* Unmounts.                                                               *)
LEMMA StepUnmounting ==
    TypeOK /\ Placed /\ Quiet /\ ~OpenRC /\ Calm /\ Mounting /\ Unmounting /\ [Next]_vars
        => Unmounting'
<1> SUFFICES ASSUME TypeOK, Placed, Quiet, ~OpenRC, Calm, Mounting, Unmounting, [Next]_vars
             PROVE  Unmounting'
  OBVIOUS
<1> USE DEF hostVars, guestVars, execVars, flagVars, badgeVars, At
<1>1. ASSUME UNCHANGED <<op, step, ok, job, skip, told, power, agent, script, pass, mounted>>
      PROVE  Unmounting'
  BY <1>1 DEF Unmounting, KeptAway, Answers
<1>2. CASE Outside
  <2>1. /\ op' = "none" /\ step' = "none" /\ UNCHANGED <<skip, told, script>>
        /\ pass' = pass \/ pass' = "idle"
        /\ mounted' = mounted \/ ~mounted'
    BY <1>2, OutsideStays
  <2> QED BY <2>1 DEF Unmounting, KeptAway
<1>3. CASE PassChecks
  <2>1. ~skip /\ UNCHANGED <<op, step, ok, job, skip, told, power, agent, script, mounted>>
    BY <1>3 DEF PassChecks, Unmounting, TypeOK
  <2> QED BY <2>1 DEF Unmounting, KeptAway, Answers
<1>4. CASE PassMounts
  <2>1. pass = "checked" /\ UNCHANGED <<op, step, ok, job, skip, told, power, agent, script>>
    BY <1>4 DEF PassMounts
  <2>2. step = "umount" => op = "unmount"
    BY DEF Placed, Steps, Helps, Detection, Asked, TypeOK
  <2> QED BY <2>1, <2>2 DEF Unmounting, KeptAway, Answers, Calm
<1>5. CASE CommandRuns
  <2>1. UNCHANGED <<op, step, ok, told, power, agent, pass>> /\ step \in GuestSteps
    BY <1>5 DEF CommandRuns, Placed
  <2>2. step # "answer"
    BY <2>1 DEF GuestSteps, Commands, Probes, Foreign, Detection
  <2>3. op \in {"none", "setup", "list"} =>
           step \notin {"mount", "umount", "drop", "list", "unlist"}
    BY DEF Placed, Steps, Helps, Detection, Asked
  <2>4. /\ script' \in {script, "heeds"}
        /\ step = "list" => skip'
        /\ step = "umount" => ~mounted'
        /\ step \in {"script", "umount"} => skip' = skip
        /\ op \in {"none", "setup", "list"} => mounted' = mounted /\ skip' = skip
    BY <1>5, <2>3, Ran DEF Unmounting
  <2> QED BY <2>1, <2>2, <2>4 DEF Unmounting, KeptAway, Answers, Mounting
<1>6. ASSUME NEW c \in Commands, LateCommandRuns(c) PROVE FALSE
  BY <1>6 DEF LateCommandRuns, Calm
<1>7. CASE Requests
  <2>1. step' \in {"enable-memory", "check", "xml", "state", "listxml"} /\ job' = "none"
    BY <1>7, Begun
  <2> QED BY <1>7, <2>1, Begun DEF Unmounting, KeptAway
<1>8. CASE Send \/ Poll
  <2>1. CASE /\ job' = "runs" /\ job = "none"
             /\ UNCHANGED <<hostVars, guestVars, flagVars, op, step, told>>
    BY <2>1 DEF Unmounting, KeptAway, Exits, Answers
  <2>2. ASSUME NEW r \in BOOLEAN, Returns(r), UNCHANGED <<hostVars, guestVars>>,
               step \in GuestSteps, r => job = "done" /\ Answers,
               Answers => job \in Exits /\ pass = "idle"
        PROVE  Unmounting'
    <3>0. UNCHANGED <<op, told, skip, power, agent, script, pass, mounted>>
          /\ job' = "none" /\ step' = After(r)
      BY <2>2 DEF Returns
    <3>1. step' \notin {"script-rc", "enable-rc"}
      <4>1. CASE step = "rc-service"
        <5>1. ~r
          BY <2>2, <4>1 DEF Calm
        <5>2. step' = goal
          BY <3>0, <4>1, <5>1 DEF After, Detection
        <5> QED BY <5>2 DEF TypeOK
      <4>2. CASE step # "rc-service"
        BY <3>0, <4>2 DEF After, Ended, Detection, Unmounting, TypeOK
      <4> QED BY <4>1, <4>2
    <3>2. script' # "ignores" /\ (told' = "unmounted" => KeptAway' /\ ~mounted')
      BY <3>0 DEF Unmounting, KeptAway
    <3>3. CASE op = "unmount" /\ step = "list"
      <4>1. step' = "script"
        BY <3>0, <3>3 DEF After, Detection
      <4> QED
        BY <2>2, <3>0, <3>1, <3>2, <3>3, <4>1 DEF Unmounting, KeptAway, Answers
    <3>4. CASE op = "unmount" /\ step = "script"
      <4>1. step' = "umount"
        BY <3>0, <3>4 DEF After, Detection
      <4> QED
        BY <2>2, <3>0, <3>1, <3>2, <3>4, <4>1 DEF Unmounting, KeptAway, Answers
    <3>5. CASE op = "unmount" /\ step = "umount"
      <4>1. step' = (IF r THEN "answer" ELSE "help") /\ ok' = r
        BY <2>2, <3>0, <3>5 DEF After, Returns, Ended, Helped, Detection
      <4> QED
        BY <2>2, <3>0, <3>1, <3>2, <3>5, <4>1 DEF Unmounting, KeptAway, Answers
    <3>6. CASE op = "unmount" /\ step \in Detection
      <4>1. ok' = ok /\ ~ok
        BY <2>2, <3>6 DEF Returns, Mounting, Helps
      <4>2. step' \in Helps \cup {"answer"}
        BY <3>0, <3>6 DEF After, Placed, Helps, Detection
      <4>3. step' \notin {"script", "umount", "list"}
        BY <4>2 DEF Helps, Detection
      <4> QED BY <3>0, <3>1, <3>2, <4>1, <4>3 DEF Unmounting
    <3>7. CASE op # "unmount"
      <4>1. step' \in Steps(op)
        BY <2>2, ReturnPlaced, <3>0 DEF Placed
      <4>2. step' \notin {"umount", "list"}
        BY <3>7, <4>1 DEF Steps, Helps, Detection, Asked
      <4> QED BY <3>0, <3>1, <3>2, <3>7, <4>2 DEF Unmounting
    <3>8. op = "unmount" => step \in {"list", "script", "umount"} \cup Detection
      BY <2>2 DEF Placed, Steps, GuestSteps, Commands, Probes, Foreign, Helps
    <3> QED BY <3>3, <3>4, <3>5, <3>6, <3>7, <3>8
  <2> QED BY <1>8, <2>1, <2>2, SentOrBack
<1>9. CASE Moves
  <2>0. UNCHANGED <<op, told, skip, power, agent, script, pass>> /\ job' = "none" /\ op # "none"
    BY <1>9, Moved
  <2>1. told' = "unmounted" => op \in {"setup", "list"}
    BY <2>0 DEF Mounting
  <2>2. told' = "unmounted" => mounted' = mounted
    BY <1>9, <2>1, Moved DEF Attach, Detach, At
  <2>3. step' \in {"check", "state", "livexml", "attach", "mount", "drop", "detach", "listlive",
                   "mountstate", "autostate", "findmnt", "is-active", "unlist", "list",
                   "osinfo", "systemctl", "cmd.exe", "help", "answer"}
    <3>1. CASE AddMoves
      BY <3>1 DEF AddMoves, EnableMemory, CheckMemory, AddState, LiveXml, Attach, AttachFails,
         Goes, Fails, Ended
    <3>2. CASE RemoveMoves
      BY <3>2 DEF RemoveMoves, FindFolder, RemoveState, Detach, DetachFails, Goes, Fails, Ended
    <3>3. CASE GuestMoves
      BY <3>3 DEF GuestMoves, GuestState, Help, OsInfo, Goes, Fails, Ended
    <3>4. CASE ListMoves
      BY <3>4 DEF ListMoves, ListXml, ListLive, MountState, AutoState, Goes, Fails, Ended
    <3> QED BY <1>9, <3>1, <3>2, <3>3, <3>4 DEF Moves
  <2>4. op = "unmount" /\ step' = "answer" => ok' = FALSE
    <3>1. CASE GuestState
      BY <3>1 DEF GuestState, Goes, Fails, Ended, Helped
    <3>2. CASE Help \/ OsInfo
      <4>1. step \in Helps /\ ok' = ok
        BY <3>2 DEF Help, OsInfo, Goes, Helps
      <4> QED BY <4>1 DEF Mounting, TypeOK
    <3>3. CASE ~GuestMoves
      BY <1>9, <3>3, MovesFor DEF Moves
    <3> QED BY <3>1, <3>2, <3>3 DEF GuestMoves
  <2> QED BY <2>0, <2>2, <2>3, <2>4 DEF Unmounting, KeptAway, Exits
<1>10. CASE Answer
  <2>1. /\ op' = "none" /\ step' = "none" /\ UNCHANGED <<skip, script, pass, mounted>>
        /\ told' = "unmounted" => told = "unmounted" \/ (op = "unmount" /\ ok)
        /\ step = "answer"
    BY <1>10 DEF Answer
  <2> QED BY <2>1 DEF Unmounting, KeptAway
<1>11. CASE UNCHANGED vars
  BY <1>1, <1>11 DEF vars
<1> QED
  BY <1>2, <1>3, <1>4, <1>5, <1>6, <1>7, <1>8, <1>9, <1>10, <1>11, NextIs DEF Passes

(* The list.                                                               *)
LEMMA StepListing == TypeOK /\ Placed /\ Quiet /\ Calm /\ Listing /\ [Next]_vars => Listing'
<1> SUFFICES ASSUME TypeOK, Placed, Quiet, Calm, Listing, [Next]_vars, op' = "list"
             PROVE  Listing'
  BY DEF Listing
<1> USE DEF hostVars, guestVars, execVars, flagVars, badgeVars, At
<1>0. OpenRC' = OpenRC
  BY WorldStays DEF OpenRC
<1>1. ASSUME UNCHANGED <<op, step, badge, job, config, live, power, agent, timer, mounted>>
      PROVE  Listing'
  BY <1>0, <1>1 DEF Listing
<1>2. CASE Outside
  BY <1>2, OutsideStays
<1>3. CASE PassChecks
  BY <1>1, <1>3 DEF PassChecks
<1>4. CASE PassMounts
  <2>1. timer /\ UNCHANGED <<op, step, badge, job, config, live, power, agent, timer>>
    BY <1>4 DEF PassMounts, Calm
  <2>2. mounted => mounted'
    BY <1>4 DEF PassMounts
  <2> QED BY <1>0, <2>1, <2>2 DEF Listing
<1>5. CASE CommandRuns
  <2>1. UNCHANGED <<op, step, config, live, power, agent>> /\ op = "list"
    BY <1>5 DEF CommandRuns
  <2>2. step \in {"findmnt"} \cup Asked
    BY <1>5, <2>1 DEF CommandRuns, Placed, Steps, GuestSteps, Commands, Probes, Foreign,
       Detection
  <2>3. /\ job' \in Exits /\ mounted' = mounted /\ timer' = timer
        /\ step = "is-active" => (job' = "done" <=> timer /\ ~OpenRC)
        /\ step = "rc-status" => (job' = "done" <=> timer /\ OpenRC)
    BY <1>5, <2>2, Ran DEF Asked
  <2>4. CASE step = "findmnt"
    <3>1. badge' = [badge EXCEPT !.mounted = IF mounted THEN "yes" ELSE "no"]
      BY <1>5, <2>4 DEF CommandRuns
    <3>2. /\ badge'.listed = badge.listed /\ badge'.restart = badge.restart
          /\ badge'.auto = badge.auto /\ badge'.mounted = (IF mounted THEN "yes" ELSE "no")
      BY <3>1 DEF TypeOK
    <3> QED BY <2>1, <2>3, <2>4, <3>2 DEF Listing, Asked
  <2>5. CASE step \in Asked
    <3>1. badge' = badge
      BY <1>5, <2>5 DEF CommandRuns, Asked
    <3> QED BY <1>0, <2>1, <2>3, <2>5, <3>1 DEF Listing, Asked, Exits
  <2> QED BY <2>2, <2>4, <2>5
<1>6. ASSUME NEW c \in Commands, LateCommandRuns(c) PROVE FALSE
  BY <1>6 DEF LateCommandRuns, Calm
<1>7. CASE Requests
  BY <1>7, Begun DEF Listing, Asked
<1>8. CASE Send \/ Poll
  <2>1. CASE /\ job' = "runs"
             /\ UNCHANGED <<hostVars, guestVars, flagVars, op, step, told>>
    BY <1>0, <2>1 DEF Listing
  <2>2. ASSUME NEW r \in BOOLEAN, Returns(r), UNCHANGED <<hostVars, guestVars>>,
               step \in GuestSteps, r => job = "done", ~r /\ Answers => job = "failed"
        PROVE  Listing'
    <3>0. /\ UNCHANGED <<op, config, live, power, agent, timer, mounted>> /\ op = "list"
          /\ job' = "none" /\ step' = After(r)
      BY <2>2 DEF Returns
    <3>1. step \in {"findmnt"} \cup Asked
      BY <2>2, <3>0 DEF Placed, Steps, GuestSteps, Commands, Probes, Foreign, Detection
    <3>2. CASE step = "findmnt"
      <4>1. step' = "autostate"
        BY <3>0, <3>2 DEF After, Detection
      <4>2. badge' = IF r THEN badge ELSE [badge EXCEPT !.mounted = "unknown"]
        BY <2>2, <3>2 DEF Returns
      <4>3. /\ badge'.listed = badge.listed /\ badge'.restart = badge.restart
            /\ badge'.auto = badge.auto /\ badge'.mounted \in {badge.mounted, "unknown"}
        BY <4>2 DEF TypeOK
      <4> QED BY <1>0, <3>0, <3>2, <4>1, <4>3 DEF Listing, Asked
    <3>3. CASE r /\ step \in Asked
      <4>1. step \in {"is-active", "rc-status"} /\ timer
        BY <2>2, <3>0, <3>3 DEF Calm, Asked, Foreign, Listing
      <4>2. step' = "answer" /\ badge' = [badge EXCEPT !.auto = "yes"]
        BY <2>2, <3>0, <3>3, <4>1 DEF After, Detection, Returns
      <4>3. /\ badge'.listed = badge.listed /\ badge'.restart = badge.restart
            /\ badge'.mounted = badge.mounted /\ badge'.auto = "yes"
        BY <4>2 DEF TypeOK
      <4> QED BY <3>0, <3>3, <4>1, <4>2, <4>3 DEF Listing, Asked
    <3>4. CASE ~r /\ step \in Asked \ {"launchctl"}
      <4>1. /\ step = "is-active" => step' = "rc-status"
            /\ step = "rc-status" => step' = "schtasks"
            /\ step = "schtasks" => step' = "service"
            /\ step = "service" => step' = "launchctl"
        BY <3>0, <3>4 DEF After, Detection
      <4>2. badge' = badge
        BY <2>2, <3>4 DEF Returns, Asked
      <4>3. power = "on" /\ (agent => job = "failed")
        BY <2>2, <3>0, <3>4 DEF Listing, Answers
      <4>4. /\ step = "is-active" /\ agent => ~timer \/ OpenRC
            /\ step # "is-active" /\ agent /\ step \in Asked => ~timer \/ step = "rc-status"
            /\ step = "rc-status" /\ agent => ~timer
        BY <3>0, <3>4, <4>3 DEF Listing
      <4> QED BY <1>0, <3>0, <3>4, <4>1, <4>2, <4>3, <4>4 DEF Listing, Asked
    <3>5. CASE ~r /\ step = "launchctl"
      <4>1. step' = "answer"
        BY <3>0, <3>5 DEF After, Ended, Helped, Detection
      <4>2. badge' = [badge EXCEPT !.auto = "no"]
        BY <2>2, <3>5 DEF Returns
      <4>3. /\ badge'.listed = badge.listed /\ badge'.restart = badge.restart
            /\ badge'.mounted = badge.mounted /\ badge'.auto = "no"
        BY <4>2 DEF TypeOK
      <4> QED BY <3>0, <3>5, <4>1, <4>3 DEF Listing, Asked
    <3> QED BY <2>2, <3>1, <3>2, <3>3, <3>4, <3>5
  <2> QED BY <1>8, <2>1, <2>2, SentOrBack
<1>9. CASE ListMoves
  <2>0. /\ job' = "none" /\ op = "list" /\ ~Attach /\ ~Detach
        /\ UNCHANGED <<op, config, live, power, agent, timer, mounted>>
    BY <1>9, Moved, MovesFor DEF Moves, Attach, Detach
  <2>1. CASE ListXml
    <3>1. step' = "listlive" /\ badge' = [NoBadge EXCEPT !.listed = config]
      BY <2>1 DEF ListXml, Goes, Tells, Quiet
    <3> QED BY <2>0, <3>1 DEF Listing, NoBadge, Asked
  <2>2. CASE ListLive
    <3>1. step = "listlive" /\ step' = "mountstate"
      BY <2>2 DEF ListLive, Goes
    <3>2. badge' = [badge EXCEPT !.restart = badge.listed /\ power # "off" /\ ~live]
      BY <2>2 DEF ListLive, Tells, Quiet
    <3>3. /\ badge'.listed = badge.listed /\ badge'.auto = badge.auto
          /\ badge'.mounted = badge.mounted
          /\ badge'.restart = (badge.listed /\ power # "off" /\ ~live)
      BY <3>2 DEF TypeOK
    <3> QED BY <2>0, <3>1, <3>3 DEF Listing, Asked
  <2>3. CASE MountState \/ AutoState
    <3>1. /\ step \in {"mountstate", "autostate"} /\ badge' = badge
          /\ step' \in {"findmnt", "autostate", "is-active", "answer"}
          /\ step' = "is-active" => power = "on"
      BY <2>3 DEF MountState, AutoState, Goes
    <3> QED BY <2>0, <3>1 DEF Listing, Asked
  <2> QED BY <1>9, <2>1, <2>2, <2>3 DEF ListMoves
<1>10. CASE Moves /\ ~ListMoves
  BY <1>10, Moved, MovesFor DEF Moves, Helped
<1>11. CASE Answer
  BY <1>11 DEF Answer
<1>12. CASE UNCHANGED vars
  BY <1>1, <1>12 DEF vars
<1> QED
  BY <1>2, <1>3, <1>4, <1>5, <1>6, <1>7, <1>8, <1>9, <1>10, <1>11, <1>12, NextIs DEF Passes

-----------------------------------------------------------------------------
(* The invariant, and what follows from it.                                *)
LEMMA InitInv == Init => IInv
<1> SUFFICES ASSUME Init PROVE IInv
  OBVIOUS
<1>1. TypeOK
  BY InitType
<1>2. Placed
  BY DEF Init, Placed, Steps
<1>3. QuietInv
  BY DEF Init, QuietInv, Calm, Adding, Removing, Mounting, Unmounting, Listing, Helps,
     Detection, Foreign, At
<1> QED BY <1>1, <1>2, <1>3 DEF IInv

(* The invariant holds whatever the guest and the user do.                 *)
LEMMA Invariance == Spec => []IInv
<1>1. IInv /\ [Next]_vars => IInv'
  <2> SUFFICES ASSUME IInv, [Next]_vars PROVE IInv'
    OBVIOUS
  <2>1. TypeOK' /\ Placed'
    BY StepType, StepPlaced DEF IInv
  <2>2. Quiet' = Quiet /\ OpenRC' = OpenRC
    BY WorldStays DEF Quiet, Disturbed, Late, OpenRC
  <2>3. ASSUME Quiet PROVE QuietInv'
    BY <2>2, <2>3, StepCalm, StepAdding, StepRemoving, StepMounting, StepUnmounting,
       StepListing
    DEF IInv, QuietInv
  <2> QED BY <2>1, <2>2, <2>3 DEF IInv
<1> QED BY InitInv, <1>1, PTL DEF Spec

(* Unless calls of a request fail, what the user was told of the folder    *)
(* holds: an unmounted one is not mounted again by the passes of a script  *)
(* that heeds the list (libvirt_backend.c:1654), a mounted one is not on   *)
(* the list (1604), an added one is there unless a restart is asked for    *)
(* (routes.c:1123), and the badges are true (libvirt_backend.c:966-973).   *)
THEOREM WhatIsToldHolds == Spec => []ToldTrue
<1>1. IInv => ToldTrue
  <2> SUFFICES ASSUME IInv PROVE ToldTrue
    OBVIOUS
  <2>1. UnmountedStays /\ MountedUnlisted /\ AddedIsLive
    BY DEF IInv, QuietInv, Unmounting, Mounting, Adding, UnmountedStays, MountedUnlisted,
       AddedIsLive
  <2>2. BadgesTrue
    BY DEF IInv, QuietInv, Listing, BadgesTrue, At
  <2> QED BY <2>1, <2>2 DEF ToldTrue
<1> QED BY Invariance, <1>1, PTL

(* A folder is not mounted when it is detached, if the command that        *)
(* unmounts it was a success and no script mounts it again                 *)
(* (libvirt_backend.c:1398).                                               *)
THEOREM UnmountedFirst == Spec => DetachesUnmounted
<1>1. IInv => [Quiet /\ ~AutoMount /\ Detach /\ ok => ~mounted]_vars
  BY DEF IInv, QuietInv, Removing, Detach
<1> QED BY Invariance, <1>1, PTL DEF DetachesUnmounted
=============================================================================
