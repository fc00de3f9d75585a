----------------------------- MODULE Activation -----------------------------
(***************************************************************************)
(* The life of the service: systemd holds the listening socket and starts  *)
(* the process for the first connection, main() sets up and tears down     *)
(* what the handlers use, one daemon thread answers the requests, and      *)
(* scripts/idle-check.sh, run by a timer, asks the service how long it has *)
(* been idle and stops it.                                                 *)
(*                                                                         *)
(* Four parties interleave: main(), the daemon thread, the script and the  *)
(* visitors' browsers.  A connection waits in the backlog of the socket,   *)
(* which outlives the process, until the thread accepts it.                *)
(***************************************************************************)
EXTENDS Integers, Sequences

CONSTANTS
    Visitors,       \* browsers
    Probe,          \* the connection of the script's curl
    Nobody,         \* no connection
    Threshold,      \* QSWM_IDLE_TIMEOUT
    CallSeconds,    \* assumption: how long the answer to the script may take
    MaxFaults       \* bound: crashes and stops by the administrator

Clients == Visitors \cup {Probe}

ASSUME ClientAssumption == Probe \notin Visitors /\ Nobody \notin Clients
ASSUME NumberAssumption ==
    Threshold \in Nat \ {0} /\ CallSeconds \in Nat /\ MaxFaults \in Nat

VARIABLES
    socket,     \* the listening socket that systemd holds
    main,       \* where main() is; "down" and "restarting" without a process
    term,       \* the signal has come: running = 0
    backend,    \* the libvirt connection is open
    marks,      \* the table of dirty_state.c is loaded
    accepting,  \* the daemon polls the listening socket
    backlog,    \* connections that nobody has accepted yet
    open,       \* connections the daemon thread has accepted
    busy,       \* the connection whose request a handler is working on
    idle,       \* seconds since last_request_time, no more than Horizon
    script,     \* where the script is
    answer,     \* what the script has read
    want,       \* visitors who wait for their page
    faults      \* bound: crashes and stops so far

mainVars == <<main, term, backend, marks, accepting>>
netVars == <<socket, backlog, open, busy>>
scriptVars == <<script, answer>>
serviceVars == <<mainVars, netVars, scriptVars, idle, want, faults>>

Setup == {"connect", "load", "listen"}
Serving == {"loop", "quiesce", "join"}
Closing == {"shutdown", "disconnect"}
Process == Setup \cup Serving \cup Closing

\* Seconds beyond these make no difference to anything.
Horizon == IF Threshold > CallSeconds THEN Threshold ELSE CallSeconds + 1

InFlight(c) == c \in open \/ \E i \in DOMAIN backlog : backlog[i] = c

ServiceInit ==
    /\ socket = "listening"
    /\ main = "down"
    /\ term = FALSE
    /\ backend = FALSE
    /\ marks = FALSE
    /\ accepting = FALSE
    /\ backlog = <<>>
    /\ open = {}
    /\ busy = Nobody
    /\ idle = 0
    /\ script = "rest"
    /\ answer = 0
    /\ want = {}
    /\ faults = 0

-----------------------------------------------------------------------------
(* The visitors.                                                           *)

Want(v) ==
    /\ v \notin want
    /\ want' = want \cup {v}
    /\ UNCHANGED <<mainVars, netVars, scriptVars, idle, faults>>

\* A browser connects, again if its connection was cut; a socket that has
\* been shut down refuses.
Visit(v) ==
    /\ v \in want
    /\ ~InFlight(v)
    /\ backlog' = IF socket = "listening" THEN Append(backlog, v) ELSE backlog
    /\ UNCHANGED <<mainVars, socket, open, busy, scriptVars, idle, want, faults>>

-----------------------------------------------------------------------------
(* systemd: qswm.socket and qswm.service.                                  *)

\* A connection in the backlog starts the service; so does a failed exit.
Launch ==
    /\ \/ main = "down" /\ socket = "listening" /\ backlog # <<>>
       \/ main = "restarting"
    /\ main' = "connect"
    /\ UNCHANGED <<term, backend, marks, accepting, netVars, scriptVars,
                   idle, want, faults>>

\* The process is gone: the kernel cuts what it had accepted, not the backlog.
Gone(next) ==
    /\ main' = next
    /\ term' = FALSE
    /\ backend' = FALSE
    /\ marks' = FALSE
    /\ accepting' = FALSE
    /\ open' = {}
    /\ busy' = Nobody
    /\ UNCHANGED <<socket, backlog>>

\* The process crashes (Restart=on-failure), or is killed while it stops.
Crash ==
    /\ main \in Process
    /\ faults < MaxFaults
    /\ faults' = faults + 1
    /\ Gone(IF term THEN "down" ELSE "restarting")
    /\ UNCHANGED <<scriptVars, idle, want>>

\* systemctl stop: SIGTERM, caught since the first lines of main().
Signal ==
    /\ term' = (main \in Process)
    /\ main' = IF main = "restarting" THEN "down" ELSE main
    /\ UNCHANGED <<backend, marks, accepting, netVars, idle, want>>

AdminStop ==
    /\ main # "down"
    /\ faults < MaxFaults
    /\ faults' = faults + 1
    /\ Signal
    /\ UNCHANGED scriptVars

-----------------------------------------------------------------------------
(* main().                                                                 *)

Connect ==
    /\ main = "connect"
    /\ main' = "load"
    /\ backend' = TRUE
    /\ UNCHANGED <<term, marks, accepting, netVars, scriptVars, idle, want, faults>>

\* libvirt is not there: return 1.
ConnectFails ==
    /\ main = "connect"
    /\ Gone(IF term THEN "down" ELSE "restarting")
    /\ UNCHANGED <<scriptVars, idle, want, faults>>

\* dirty_state_init(); a failure does not matter here.
LoadMarks ==
    /\ main = "load"
    /\ main' = "listen"
    /\ marks' = TRUE
    /\ UNCHANGED <<term, backend, accepting, netVars, scriptVars, idle, want, faults>>

\* server_start_fd(): touch_activity() and MHD_start_daemon().
StartServer ==
    /\ main = "listen"
    /\ main' = "loop"
    /\ accepting' = TRUE
    /\ idle' = 0
    /\ UNCHANGED <<term, backend, marks, netVars, scriptVars, want, faults>>

\* MHD_start_daemon() fails: be->disconnect(), return 1.
StartFails ==
    /\ main = "listen"
    /\ Gone(IF term THEN "down" ELSE "restarting")
    /\ UNCHANGED <<scriptVars, idle, want, faults>>

\* Mutant of LeaveLoop: dirty_state_shutdown() before server_stop().
LeaveLoopShutdown ==
    /\ main = "loop"
    /\ term
    /\ main' = "quiesce"
    /\ marks' = FALSE
    /\ UNCHANGED <<term, backend, accepting, netVars, scriptVars,
                   idle, want, faults>>

\* while (running) sleep(1)
LeaveLoop ==
    /\ main = "loop"
    /\ term
    /\ main' = "quiesce"
    /\ UNCHANGED <<term, backend, marks, accepting, netVars, scriptVars,
                   idle, want, faults>>

\* Mutant of Quiesce: server_stop() goes straight to MHD_stop_daemon().
QuiesceNot ==
    /\ main = "quiesce"
    /\ main' = "join"
    /\ UNCHANGED <<term, backend, marks, accepting, netVars, scriptVars,
                   idle, want, faults>>

\* server_stop(): MHD_quiesce_daemon() takes the listening socket away from
\* the daemon.
Quiesce ==
    /\ main = "quiesce"
    /\ main' = "join"
    /\ accepting' = FALSE
    /\ UNCHANGED <<term, backend, marks, netVars, scriptVars, idle, want, faults>>

\* MHD_stop_daemon(): waits for the handler that runs, cuts the connections
\* and joins the thread.  A listening socket the daemon still has, it shuts
\* down, for systemd too, and the kernel resets what waits there.
StopDaemon ==
    /\ main = "join"
    /\ busy = Nobody
    /\ main' = "shutdown"
    /\ open' = {}
    /\ socket' = IF accepting THEN "shut" ELSE socket
    /\ backlog' = IF accepting THEN <<>> ELSE backlog
    /\ accepting' = FALSE
    /\ UNCHANGED <<term, backend, marks, busy, scriptVars, idle, want, faults>>

\* dirty_state_shutdown()
ShutdownMarks ==
    /\ main = "shutdown"
    /\ main' = "disconnect"
    /\ marks' = FALSE
    /\ UNCHANGED <<term, backend, accepting, netVars, scriptVars, idle, want, faults>>

\* be->disconnect(), return 0
Disconnect ==
    /\ main = "disconnect"
    /\ Gone("down")
    /\ UNCHANGED <<scriptVars, idle, want, faults>>

-----------------------------------------------------------------------------
(* The daemon thread, from MHD_start_daemon() to its join.                 *)

Accept ==
    /\ main \in Serving
    /\ accepting
    /\ socket = "listening"
    /\ backlog # <<>>
    /\ open' = open \cup {Head(backlog)}
    /\ backlog' = Tail(backlog)
    /\ UNCHANGED <<mainVars, socket, busy, scriptVars, idle, want, faults>>

\* request_handler() is called: touch_activity(), whatever the request is.
Begin(c) ==
    /\ main \in Serving
    /\ busy = Nobody
    /\ c \in open
    /\ busy' = c
    /\ idle' = 0
    /\ UNCHANGED <<mainVars, socket, backlog, open, scriptVars, want, faults>>

\* Mutant of Respond: last_request_time minus the time, not the other way.
RespondSwapped ==
    /\ busy # Nobody
    /\ open' = open \ {busy}
    /\ busy' = Nobody
    /\ want' = want \ {busy}
    /\ IF busy = Probe /\ script = "asked"
       THEN script' = "told" /\ answer' = 0 - idle
       ELSE UNCHANGED scriptVars
    /\ UNCHANGED <<mainVars, socket, backlog, idle, faults>>

\* The response; to the script it is server_idle_seconds(), if curl still
\* waits for it.
Respond ==
    /\ busy # Nobody
    /\ open' = open \ {busy}
    /\ busy' = Nobody
    /\ want' = want \ {busy}
    /\ IF busy = Probe /\ script = "asked"
       THEN script' = "told" /\ answer' = idle
       ELSE UNCHANGED scriptVars
    /\ UNCHANGED <<mainVars, socket, backlog, idle, faults>>

\* Time passes.
Tick ==
    /\ busy = Probe => idle < CallSeconds
    /\ idle < Horizon
    /\ idle' = idle + 1
    /\ UNCHANGED <<mainVars, netVars, scriptVars, want, faults>>

-----------------------------------------------------------------------------
(* scripts/idle-check.sh.                                                  *)

\* systemctl is-active
CheckActive ==
    /\ script = "rest"
    /\ main \in Process
    /\ script' = "active"
    /\ UNCHANGED <<mainVars, netVars, answer, idle, want, faults>>

\* curl connects.  The service may have stopped since: the connection then
\* waits in the backlog, and starts it.
AskIdle ==
    /\ script = "active"
    /\ socket = "listening"
    /\ ~InFlight(Probe)
    /\ script' = "asked"
    /\ backlog' = Append(backlog, Probe)
    /\ UNCHANGED <<mainVars, socket, open, busy, answer, idle, want, faults>>

\* curl is refused, is cut off or gives up after three seconds: exit 0.
GiveUp ==
    /\ script \in {"active", "asked"}
    /\ script' = "rest"
    /\ UNCHANGED <<mainVars, netVars, answer, idle, want, faults>>

\* The verdict; systemctl stop, whatever has happened since the answer.
Verdict ==
    /\ script = "told"
    /\ script' = "rest"
    /\ IF answer >= Threshold /\ main # "down" THEN Signal
       ELSE UNCHANGED <<mainVars, netVars, idle, want>>
    /\ UNCHANGED <<answer, faults>>

-----------------------------------------------------------------------------
MainStep ==
    \/ LoadMarks \/ StartServer \/ LeaveLoop \/ Quiesce \/ StopDaemon
    \/ ShutdownMarks \/ Disconnect

ServiceNext ==
    \/ \E v \in Visitors : Want(v) \/ Visit(v)
    \/ Launch \/ Crash \/ AdminStop
    \/ Connect \/ ConnectFails \/ StartFails \/ MainStep
    \/ Accept \/ (\E c \in Clients : Begin(c)) \/ Respond
    \/ Tick
    \/ CheckActive \/ AskIdle \/ GiveUp \/ Verdict

ServiceSpec == ServiceInit /\ [][ServiceNext]_serviceVars

(* main(), the thread and systemd keep running; a browser tries again; the *)
(* timer keeps starting the script, and time passes; neither libvirt nor   *)
(* the start of the daemon fails for ever.                                 *)
Fairness ==
    /\ \A v \in Visitors : WF_serviceVars(Visit(v))
    /\ WF_serviceVars(Launch)
    /\ SF_serviceVars(Connect) /\ SF_serviceVars(StartServer)
    /\ WF_serviceVars(MainStep)
    /\ WF_serviceVars(Accept)
    /\ \A c \in Clients : SF_serviceVars(Begin(c))
    /\ WF_serviceVars(Respond)
    /\ WF_serviceVars(Tick)
    /\ WF_serviceVars(CheckActive) /\ SF_serviceVars(AskIdle) /\ WF_serviceVars(Verdict)

FairSpec == ServiceSpec /\ Fairness

-----------------------------------------------------------------------------
(* The types of the variables.                                             *)
ServiceTypeOK ==
    /\ socket \in {"listening", "shut"}
    /\ main \in {"down", "restarting"} \cup Process
    /\ term \in BOOLEAN
    /\ backend \in BOOLEAN
    /\ marks \in BOOLEAN
    /\ accepting \in BOOLEAN
    /\ backlog \in Seq(Clients)
    /\ open \in SUBSET Clients
    /\ busy \in Clients \cup {Nobody}
    /\ idle \in Nat
    /\ script \in {"rest", "active", "asked", "told"}
    /\ answer \in Nat
    /\ want \in SUBSET Visitors
    /\ faults \in Nat

(* main.c:129-139, server.c:279-293: as long as a handler runs, the        *)
(* connection to libvirt and the table of marks it uses are there: main()  *)
(* tears them down only after the thread is joined.                        *)
ReadyWhileBusy == busy # Nobody => backend /\ marks

(* server.c:282-287: the socket that systemd listens on survives every     *)
(* stop, so that a visitor whose page is not there yet gets it in the end, *)
(* from this process or from the next one.                                 *)
VisitorServed == \A v \in Visitors : v \in want ~> v \notin want

(* server.c:169-177: the script's own question is a request, so that the   *)
(* answer is never older than the question.                                *)
AnswerIsFresh == script = "told" => answer <= CallSeconds

(* README.md:34: the service "auto-stops after 10 minutes idle": when no   *)
(* visitor comes any more, it is in the end not running.                   *)
IdleServiceStops == (<>[](want = {})) => <>[](main = "down")
=============================================================================
