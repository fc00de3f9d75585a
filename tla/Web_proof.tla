-------------------------------- MODULE Web_proof --------------------------------
(***************************************************************************)
(* Proofs about the service and both ends of its requests: Activation, the *)
(* life of the process, with the configuration it starts with, Requests,   *)
(* the daemon that serves the requests, with the texts they are made of,   *)
(* and Page, a window of the page that makes them.                         *)
(*                                                                         *)
(* For Activation the invariant ties what is set up to where main() is,    *)
(* and the handler that runs to the time main() leaves it.                 *)
(*                                                                         *)
(* For Requests the invariant ties the context of a connection to con_cls  *)
(* and to the phase of the request, and its size to what has arrived; that *)
(* bodies fit and are whole, and that contexts are freed, follows for any  *)
(* number of connections and any pieces.  That a request comes to its      *)
(* handler is one fact for each route.                                     *)
(*                                                                         *)
(* For the configuration, a line that was written for a setting is read as *)
(* this setting, the loop over a file comes to the begin of each line, and *)
(* the loop over the files has their names in order; what loops make is    *)
(* proved as in Text_proof, where the texts of requests are.               *)
(***************************************************************************)
EXTENDS ServiceConfig, RequestTexts, Page, Text_proof, FiniteSetTheorems

(* The life of the service.                                               *)

(* What main() has set up by the time it is somewhere.                     *)
SetUp ==
    /\ main \in {"load", "listen"} \cup Serving => backend
    /\ main \in {"listen"} \cup Serving => marks
    /\ busy # Nobody => main \in Serving

(* The clock of the request in work, and of the one just answered.         *)
Fresh ==
    /\ busy = Probe => idle <= CallSeconds
    /\ AnswerIsFresh

ServiceInv == ServiceTypeOK /\ SetUp /\ Fresh

USE DEF serviceVars, mainVars, netVars, scriptVars, Process, Setup, Serving, Closing

(* The invariant holds before the service runs.                            *)
LEMMA ServiceInvInit == ServiceInit => ServiceInv
  <1>1. Probe # Nobody
    BY ClientAssumption DEF Clients
  <1>2. <<>> \in Seq(Clients)
    OBVIOUS
  <1>3. ServiceInit => ServiceTypeOK
    <2>1. ServiceInit => /\ term \in BOOLEAN /\ backend \in BOOLEAN
                  /\ marks \in BOOLEAN /\ accepting \in BOOLEAN
      BY Zenon DEF ServiceInit
    <2>2. ServiceInit => /\ idle \in Nat /\ answer \in Nat /\ faults \in Nat
                  /\ open \in SUBSET Clients /\ busy \in Clients \cup {Nobody}
                  /\ want \in SUBSET Visitors
      BY DEF ServiceInit
    <2> QED
      BY <1>2, <2>1, <2>2 DEF ServiceInit, ServiceTypeOK
  <1>4. ServiceInit => SetUp
    BY DEF ServiceInit, SetUp
  <1>5. ServiceInit => Fresh
    BY <1>1, NumberAssumption DEF ServiceInit, Fresh, AnswerIsFresh
  <1> QED
    BY <1>3, <1>4, <1>5 DEF ServiceInv

(* What the visitors and the script do keeps the invariant.                *)
LEMMA OutsideKeeps ==
    ASSUME ServiceInv,
           \/ \E v \in Visitors : Want(v) \/ Visit(v)
           \/ CheckActive \/ AskIdle \/ GiveUp \/ Verdict \/ Tick
    PROVE ServiceInv'
  <1> USE DEF ServiceInv, ServiceTypeOK, SetUp, Fresh, AnswerIsFresh
  <1>1. Probe \in Clients /\ Visitors \subseteq Clients /\ Nobody \notin Clients
    BY ClientAssumption DEF Clients
  <1>2. ASSUME NEW v \in Visitors, Want(v) PROVE ServiceInv'
    BY <1>2 DEF Want
  <1>3. ASSUME NEW v \in Visitors, Visit(v) PROVE ServiceInv'
    <2>1. backlog' \in Seq(Clients)
      BY <1>1, <1>3 DEF Visit
    <2> QED
      BY <1>3, <2>1 DEF Visit
  <1>4. CASE CheckActive
    BY <1>4 DEF CheckActive
  <1>5. CASE AskIdle
    <2>1. backlog' \in Seq(Clients)
      BY <1>1, <1>5 DEF AskIdle
    <2> QED
      BY <1>5, <2>1 DEF AskIdle
  <1>6. CASE GiveUp
    BY <1>6 DEF GiveUp
  <1>7. CASE Verdict
    <2>1. CASE answer >= Threshold /\ main # "down"
      <3>1. main' \in {main, "down"} /\ term' \in BOOLEAN /\ script' = "rest"
        BY <1>7, <2>1 DEF Verdict, Signal
      <3>2. main \in Serving => main' = main
        BY <1>7, <2>1 DEF Verdict, Signal
      <3> QED
        BY <1>7, <2>1, <3>1, <3>2 DEF Verdict, Signal
    <2>2. CASE ~(answer >= Threshold /\ main # "down")
      BY <1>7, <2>2 DEF Verdict
    <2> QED
      BY <2>1, <2>2
  <1>8. CASE Tick
    <2>1. idle' \in Nat /\ idle' = idle + 1
      BY <1>8 DEF Tick
    <2>2. busy' = Probe => idle' <= CallSeconds
      BY <1>8, NumberAssumption DEF Tick
    <2> QED
      BY <1>8, <2>1, <2>2 DEF Tick
  <1> QED
    BY <1>2, <1>3, <1>4, <1>5, <1>6, <1>7, <1>8

(* systemd and main() keep the invariant.                                  *)
LEMMA MainKeeps ==
    ASSUME ServiceInv,
           Launch \/ Crash \/ AdminStop \/ Connect \/ ConnectFails \/ StartFails \/ MainStep
    PROVE ServiceInv'
  <1> USE DEF ServiceInv, ServiceTypeOK, SetUp, Fresh, AnswerIsFresh
  <1>1. Probe # Nobody
    BY ClientAssumption DEF Clients
  <1>2. CASE Launch
    BY <1>2 DEF Launch
  <1>3. CASE Crash
    <2>1. main' \in {"down", "restarting"} /\ faults' \in Nat
      BY <1>3 DEF Crash, Gone
    <2>2. /\ ~term' /\ ~backend' /\ ~marks' /\ ~accepting'
          /\ term' \in BOOLEAN /\ backend' \in BOOLEAN
          /\ marks' \in BOOLEAN /\ accepting' \in BOOLEAN
          /\ open' = {} /\ busy' = Nobody
          /\ UNCHANGED <<socket, backlog, scriptVars, idle, want>>
      BY <1>3 DEF Crash, Gone
    <2> QED
      BY <1>1, <2>1, <2>2
  <1>4. CASE AdminStop
    BY <1>4 DEF AdminStop, Signal
  <1>5. CASE Connect
    BY <1>5 DEF Connect
  <1>6. CASE ConnectFails \/ StartFails
    BY <1>1, <1>6 DEF ConnectFails, StartFails, Gone
  <1>7. CASE LoadMarks
    BY <1>7 DEF LoadMarks
  <1>8. CASE StartServer
    BY <1>8, NumberAssumption DEF StartServer
  <1>9. CASE LeaveLoop
    BY <1>9 DEF LeaveLoop
  <1>10. CASE Quiesce
    BY <1>10 DEF Quiesce
  <1>11. CASE StopDaemon
    <2>1. backlog' \in Seq(Clients) /\ socket' \in {"listening", "shut"}
      BY <1>11 DEF StopDaemon
    <2> QED
      BY <1>11, <2>1 DEF StopDaemon
  <1>12. CASE ShutdownMarks
    BY <1>12 DEF ShutdownMarks
  <1>13. CASE Disconnect
    BY <1>1, <1>13 DEF Disconnect, Gone
  <1> QED
    BY <1>2, <1>3, <1>4, <1>5, <1>6, <1>7, <1>8, <1>9, <1>10, <1>11, <1>12,
       <1>13 DEF MainStep

(* The daemon thread keeps the invariant.                                  *)
LEMMA ThreadKeeps ==
    ASSUME ServiceInv, Accept \/ (\E c \in Clients : Begin(c)) \/ Respond
    PROVE ServiceInv'
  <1> USE DEF ServiceInv, ServiceTypeOK, SetUp, Fresh, AnswerIsFresh
  <1>1. Probe \in Clients /\ Nobody \notin Clients
    BY ClientAssumption DEF Clients
  <1>2. CASE Accept
    <2>1. Head(backlog) \in Clients /\ Tail(backlog) \in Seq(Clients)
      BY <1>2 DEF Accept
    <2> QED
      BY <1>2, <2>1 DEF Accept
  <1>3. ASSUME NEW c \in Clients, Begin(c) PROVE ServiceInv'
    BY <1>3, NumberAssumption DEF Begin
  <1>4. CASE Respond
    BY <1>1, <1>4 DEF Respond
  <1> QED
    BY <1>2, <1>3, <1>4

(* Every step of the service keeps the invariant.                          *)
LEMMA ServiceInvStep == ServiceInv /\ [ServiceNext]_serviceVars => ServiceInv'
  <1> SUFFICES ASSUME ServiceInv, [ServiceNext]_serviceVars PROVE ServiceInv'
    OBVIOUS
  <1>1. CASE ServiceNext
    BY <1>1, OutsideKeeps, MainKeeps, ThreadKeeps DEF ServiceNext
  <1>2. CASE UNCHANGED serviceVars
    BY <1>2 DEF ServiceInv, ServiceTypeOK, SetUp, Fresh, AnswerIsFresh
  <1> QED
    BY <1>1, <1>2

(* The invariant holds in every behaviour.                                 *)
THEOREM ServiceInvHolds == ServiceSpec => []ServiceInv
  BY ServiceInvInit, ServiceInvStep, PTL DEF ServiceSpec

(* The variables keep their types.                                         *)
THEOREM ServiceTypeCorrect == ServiceSpec => []ServiceTypeOK
  BY ServiceInvHolds, PTL DEF ServiceInv

(* No handler runs without the connection to libvirt and the table of      *)
(* marks: main.c:129-139 tears them down after server_stop().              *)
THEOREM HandlersAreReady == ServiceSpec => []ReadyWhileBusy
  <1>1. ServiceInv => ReadyWhileBusy
    BY DEF ServiceInv, SetUp, ReadyWhileBusy
  <1> QED
    BY <1>1, ServiceInvHolds, PTL

(* The answer to the script is as fresh as its question (server.c:169).    *)
THEOREM AnswersAreFresh == ServiceSpec => []AnswerIsFresh
  BY ServiceInvHolds, PTL DEF ServiceInv, Fresh

(* A threshold above the time an answer takes is never met: the verdict of *)
(* scripts/idle-check.sh:18 with the 600 seconds of qswm-idle.service is   *)
(* never to stop the service.                                              *)
THEOREM ThresholdNeverMet ==
    ASSUME CallSeconds < Threshold
    PROVE ServiceSpec => [](script = "told" => answer < Threshold)
  <1>1. ServiceInv => (script = "told" => answer < Threshold)
    BY NumberAssumption DEF ServiceInv, ServiceTypeOK, Fresh, AnswerIsFresh
  <1> QED
    BY <1>1, ServiceInvHolds, PTL

HIDE DEF serviceVars, mainVars, netVars, scriptVars, Process, Setup, Serving, Closing

-----------------------------------------------------------------------------
(* Requests.                                                               *)

(* The first call of a request finds no con_cls of an earlier one.         *)
ClassFits ==
    \A c \in Conns : phase[c] \in {"idle", "new"} => conCls[c] = "NULL"

(* The buffer holds what has arrived and a 0.                              *)
SizeFits ==
    \A c \in Conns :
        /\ bodySize[c] = sent[c]
        /\ bodySize[c] > 0 => bodySize[c] < bodyAlloc[c]

Inv == TypeOK /\ ClassFits /\ SizeFits /\ ContextsFreed /\ WholeBody

-----------------------------------------------------------------------------
(* A buffer that has room for the body has room for it with one more piece.*)
LEMMA GrownFits ==
    ASSUME NEW size \in Nat, NEW n \in Nat \ {0}, NEW alloc \in Nat
    PROVE  Grown(size, n, alloc) \in Nat /\ size + n < Grown(size, n, alloc)
BY DEF Grown

LEMMA InitInv == Init => Inv
<1> SUFFICES ASSUME Init PROVE Inv
  OBVIOUS
<1>1. TypeOK
  BY BodyAssumption DEF Init, TypeOK
<1>2. ClassFits /\ SizeFits /\ ContextsFreed /\ WholeBody
  BY DEF Init, ClassFits, SizeFits, ContextsFreed, WholeBody
<1> QED BY <1>1, <1>2 DEF Inv

LEMMA StepInv == Inv /\ [Next]_vars => Inv'
<1> SUFFICES ASSUME Inv, [Next]_vars PROVE Inv'
  OBVIOUS
<1> USE DEF Inv, TypeOK, ClassFits, SizeFits, ContextsFreed, WholeBody, HasBody
<1>1. ASSUME NEW c \in Conns, Arrive(c) PROVE Inv'
  BY <1>1 DEF Arrive
<1>2. ASSUME NEW c \in Conns, FirstServes(c) PROVE Inv'
  BY <1>2 DEF FirstServes, Serve
<1>3. ASSUME NEW c \in Conns, FirstMarks(c) PROVE Inv'
  BY <1>3 DEF FirstMarks
<1>4. ASSUME NEW c \in Conns, FirstAllocates(c) PROVE Inv'
  BY <1>4 DEF FirstAllocates
<1>5. ASSUME NEW c \in Conns, NEW n \in Pieces, AppendPiece(c, n) PROVE Inv'
  <2>1. /\ n \in Nat \ {0}
        /\ bodySize[c] + n = sent[c] + n
        /\ sent[c] + n \in 0 .. MaxBody
    BY <1>5, PieceAssumption, BodyAssumption DEF AppendPiece
  <2>2. /\ Grown(bodySize[c], n, bodyAlloc[c]) \in Nat
        /\ bodySize[c] + n < Grown(bodySize[c], n, bodyAlloc[c])
    BY <2>1, GrownFits, BodyAssumption
  <2> QED BY <1>5, <2>1, <2>2 DEF AppendPiece
<1>6. ASSUME NEW c \in Conns, Last(c) PROVE Inv'
  BY <1>6 DEF Last, Serve
<1>7. ASSUME NEW c \in Conns, Close(c) PROVE Inv'
  BY <1>7 DEF Close
<1>8. ASSUME NEW c \in Conns, Completed(c) PROVE Inv'
  BY <1>8, BodyAssumption DEF Completed, Freed
<1>9. CASE UNCHANGED vars
  BY <1>9 DEF vars
<1> QED BY <1>1, <1>2, <1>3, <1>4, <1>5, <1>6, <1>7, <1>8, <1>9 DEF Next

LEMMA Invariance == Spec => []Inv
BY InitInv, StepInv, PTL DEF Spec

(* The variables keep their types, for any connections, names and pieces.  *)
THEOREM TypeCorrect == Spec => []TypeOK
BY Invariance, PTL DEF Inv

(* Every handler gets the whole body of its own request.                   *)
THEOREM BodiesWhole == Spec => []WholeBody
BY Invariance, PTL DEF Inv

(* request_context_append() never writes outside its buffer, no context    *)
(* outlives its request, and none is freed twice.                          *)
THEOREM ContextsAreSound == Spec => []ContextsSound
<1>1. Inv => ContextsSound
  BY DEF Inv, TypeOK, SizeFits, BodyFits, ContextsSound
<1> QED BY <1>1, Invariance, PTL

-----------------------------------------------------------------------------
(* The dispatch.                                                           *)

(* The handler that the calls for a request come to, if its URL arrives as *)
(* these words.                                                            *)
ServedBy(r, words) ==
    IF r.url = <<>> THEN "static"
    ELSE IF ~HasBody(r) /\ words[1] \in {"ping", "idle-check"} THEN words[1]
    ELSE Route(r.method, words)

(* The table of what is done to a snapshot has an action once.             *)
Actions == {<<"edit", "GET", "edit form">>, <<"revert", "POST", "revert">>,
            <<"revert-confirm", "GET", "revert-confirm">>, <<"merge", "POST", "merge">>}

LEMMA ActionsDiffer == ASSUME NEW x \in Actions, NEW a \in Actions, x[1] = a[1] PROVE x = a
<1>1. CASE x = <<"edit", "GET", "edit form">>
  <2>1. CASE a = <<"edit", "GET", "edit form">>
    BY <1>1, <2>1
  <2>2. CASE a = <<"revert", "POST", "revert">>
    BY <1>1, <2>2
  <2>3. CASE a = <<"revert-confirm", "GET", "revert-confirm">>
    BY <1>1, <2>3
  <2>4. CASE a = <<"merge", "POST", "merge">>
    BY <1>1, <2>4
  <2> QED BY <2>1, <2>2, <2>3, <2>4 DEF Actions
<1>2. CASE x = <<"revert", "POST", "revert">>
  <2>1. CASE a = <<"edit", "GET", "edit form">>
    BY <1>2, <2>1
  <2>2. CASE a = <<"revert", "POST", "revert">>
    BY <1>2, <2>2
  <2>3. CASE a = <<"revert-confirm", "GET", "revert-confirm">>
    BY <1>2, <2>3
  <2>4. CASE a = <<"merge", "POST", "merge">>
    BY <1>2, <2>4
  <2> QED BY <2>1, <2>2, <2>3, <2>4 DEF Actions
<1>3. CASE x = <<"revert-confirm", "GET", "revert-confirm">>
  <2>1. CASE a = <<"edit", "GET", "edit form">>
    BY <1>3, <2>1
  <2>2. CASE a = <<"revert", "POST", "revert">>
    BY <1>3, <2>2
  <2>3. CASE a = <<"revert-confirm", "GET", "revert-confirm">>
    BY <1>3, <2>3
  <2>4. CASE a = <<"merge", "POST", "merge">>
    BY <1>3, <2>4
  <2> QED BY <2>1, <2>2, <2>3, <2>4 DEF Actions
<1>4. CASE x = <<"merge", "POST", "merge">>
  <2>1. CASE a = <<"edit", "GET", "edit form">>
    BY <1>4, <2>1
  <2>2. CASE a = <<"revert", "POST", "revert">>
    BY <1>4, <2>2
  <2>3. CASE a = <<"revert-confirm", "GET", "revert-confirm">>
    BY <1>4, <2>3
  <2>4. CASE a = <<"merge", "POST", "merge">>
    BY <1>4, <2>4
  <2> QED BY <2>1, <2>2, <2>3, <2>4 DEF Actions
<1> QED BY <1>1, <1>2, <1>3, <1>4 DEF Actions

LEMMA ActionRoute ==
    ASSUME NEW v, NEW s, s # "form", NEW a \in Actions
    PROVE  SnapshotRoute(a[2], <<"vms", v, "snapshots", s, a[1]>>) = a[3]
<1> DEFINE url == <<"vms", v, "snapshots", s, a[1]>>
           fitting == {x \in Actions : Len(url) > 4 /\ x[1] = url[5] /\ x[2] = a[2]}
<1>1. Len(url) > 4 /\ Len(url) # 3 /\ Len(url) # 4 /\ url[4] # "form" /\ url[5] = a[1]
  OBVIOUS
<1> HIDE DEF url
<1>2. SnapshotRoute(a[2], url) = IF fitting = {} THEN "404" ELSE (CHOOSE x \in fitting : TRUE)[3]
  BY <1>1, Zenon DEF SnapshotRoute, Actions
<1>3. fitting = {a}
  BY <1>1, ActionsDiffer
<1> HIDE DEF fitting
<1>4. fitting # {} /\ (CHOOSE x \in fitting : TRUE) = a
  BY <1>3
<1>5. (CHOOSE x \in fitting : TRUE)[3] = a[3]
  BY <1>4
<1> QED BY <1>2, <1>4, <1>5 DEF url

LEMMA AskFields ==
    \A op, method, url :
        LET r == Ask(op, method, url)
        IN  r.op = op /\ r.method = method /\ r.url = url
BY DEF Ask

(* The words of the page's paths: names are whatever words they come to.   *)
LEMMA WordsAre ==
    ASSUME NEW v, NEW what, NEW name, NEW action
    PROVE  /\ Words(Of(v, what)) = <<"vms", AsWord(v), what>>
           /\ Words(OfOne(v, what, name)) = <<"vms", AsWord(v), what, AsWord(name)>>
           /\ Words(Do(v, what, name, action)) = <<"vms", AsWord(v), what, AsWord(name), action>>
<1>1. \A w : AsWord(<<w>>) = w
  BY DEF AsWord
<1>2. Words(Of(v, what)) = <<"vms", AsWord(v), what>>
  <2>1. Words(Of(v, what)) = [k \in 1 .. 3 |-> AsWord(<<<<"vms">>, v, <<what>>>>[k])]
    BY DEF Words, Of
  <2> QED BY <1>1, <2>1
<1>3. Words(OfOne(v, what, name)) = <<"vms", AsWord(v), what, AsWord(name)>>
  <2>1. Words(OfOne(v, what, name)) = [k \in 1 .. 4 |-> AsWord(<<<<"vms">>, v, <<what>>, name>>[k])]
    BY DEF Words, OfOne
  <2> QED BY <1>1, <2>1
<1>4. Words(Do(v, what, name, action)) = <<"vms", AsWord(v), what, AsWord(name), action>>
  <2>1. Words(Do(v, what, name, action)) =
           [k \in 1 .. 5 |-> AsWord(<<<<"vms">>, v, <<what>>, name, <<action>>>>[k])]
    BY DEF Words, Do
  <2> QED BY <1>1, <2>1
<1> QED BY <1>2, <1>3, <1>4

(* What the URLs of the page are written with.                             *)
Letters == STRING \cup
    {"vms", "ping", "idle-check", "browse", "start", "stop", "pause", "resume", "force-stop",
     "convert-nvram", "orphan-cleanup", "orphan-check", "snapshots", "form", "edit",
     "revert-confirm", "revert", "merge", "shared-folders", "mount", "unmount", "automount"}

Fits(url) == url \in Seq(Seq(Letters)) /\ Len(url) \in 0 .. 5

(* The URLs of the page are at most five texts.                            *)
LEMMA ShapesFit ==
    ASSUME NEW v \in Seq(Letters), NEW name \in Seq(Letters),
           NEW what \in Letters, NEW action \in Letters
    PROVE  /\ Fits(<<>>) /\ Fits(<<<<what>>>>)
           /\ Fits(Of(v, what)) /\ Fits(OfOne(v, what, name)) /\ Fits(Do(v, what, name, action))
<1>1. /\ <<"vms">> \in Seq(Letters) /\ <<what>> \in Seq(Letters)
      /\ <<action>> \in Seq(Letters)
  <2>1. "vms" \in Letters
    BY DEF Letters
  <2> QED BY <2>1
<1>2. PICK S : S = Seq(Letters)
  OBVIOUS
<1>3. \A a, b, c, d, e \in S :
         /\ <<>> \in Seq(S) /\ <<a>> \in Seq(S)
         /\ <<a, b, c>> \in Seq(S) /\ <<a, b, c, d>> \in Seq(S)
         /\ <<a, b, c, d, e>> \in Seq(S)
  OBVIOUS
<1>4. /\ <<>> \in Seq(S) /\ <<<<what>>>> \in Seq(S)
      /\ Of(v, what) \in Seq(S) /\ OfOne(v, what, name) \in Seq(S)
      /\ Do(v, what, name, action) \in Seq(S)
  BY <1>1, <1>2, <1>3 DEF Of, OfOne, Do
<1>5. /\ Len(<<>>) = 0 /\ Len(<<<<what>>>>) = 1
      /\ Len(Of(v, what)) = 3 /\ Len(OfOne(v, what, name)) = 4
      /\ Len(Do(v, what, name, action)) = 5
  BY DEF Of, OfOne, Do
<1> QED BY <1>2, <1>4, <1>5 DEF Fits

LEMMA UrlsFit == ASSUME NEW r \in Requested PROVE Fits(r.url)
<1>1. Vms \subseteq Seq(Letters) /\ Snaps \subseteq Seq(Letters) /\ Tags \subseteq Seq(Letters)
  <2>1. PICK C : C = STRING
    OBVIOUS
  <2>2. Seq(C) \subseteq Seq(Letters)
    <3>1. C \subseteq Letters
      BY <2>1 DEF Letters
    <3> QED BY <3>1
  <2> QED BY <2>1, <2>2, NameAssumption, Zenon
<1>2. <<"form">> \in Seq(Letters) /\ <<"automount">> \in Seq(Letters)
  <2>1. "form" \in Letters /\ "automount" \in Letters
    BY DEF Letters
  <2> QED BY <2>1
<1>3. CASE r \in PageRequests
  <2>1. r.url \in {<<>>, <<<<"ping">>>>, <<<<"idle-check">>>>, <<<<"browse">>>>, <<<<"vms">>>>}
    BY <1>3 DEF PageRequests, Ask
  <2>2. {"ping", "idle-check", "browse", "vms"} \subseteq Letters
    BY DEF Letters
  <2> QED BY <1>2, <2>1, <2>2, ShapesFit
<1>4. ASSUME NEW v \in Vms, r \in MachineRequests(v) PROVE Fits(r.url)
  <2>1. PICK what \in {"start", "stop", "pause", "resume", "force-stop",
                       "convert-nvram", "orphan-cleanup", "orphan-check"} : r.url = Of(v, what)
    BY <1>4 DEF MachineRequests, Ask
  <2>2. what \in Letters /\ v \in Seq(Letters)
    BY <1>1, <2>1 DEF Letters
  <2> QED BY <1>2, <2>1, <2>2, ShapesFit
<1>5. ASSUME NEW v \in Vms, NEW what \in {"snapshots", "shared-folders"},
             \/ r.url = Of(v, what)
             \/ \E name \in Snaps \cup Tags \cup {<<"form">>, <<"automount">>} :
                   \/ r.url = OfOne(v, what, name)
                   \/ \E action \in {"edit", "revert-confirm", "revert", "merge", "mount", "unmount"} :
                         r.url = Do(v, what, name, action)
      PROVE  Fits(r.url)
  <2>1. what \in Letters /\ v \in Seq(Letters)
    BY <1>1, <1>5 DEF Letters
  <2>2. {"edit", "revert-confirm", "revert", "merge", "mount", "unmount"} \subseteq Letters
    BY DEF Letters
  <2>3. Snaps \cup Tags \cup {<<"form">>, <<"automount">>} \subseteq Seq(Letters)
    BY <1>1, <1>2
  <2> QED BY <1>5, <2>1, <2>2, <2>3, ShapesFit
<1>6. ASSUME NEW v \in Vms, r \in SnapshotRequests(v) PROVE Fits(r.url)
  <2>1. \/ r.url = Of(v, "snapshots")
        \/ r.url = OfOne(v, "snapshots", <<"form">>)
        \/ \E s \in Snaps :
              \/ r.url = OfOne(v, "snapshots", s)
              \/ \E action \in {"edit", "revert-confirm", "revert", "merge"} :
                    r.url = Do(v, "snapshots", s, action)
    <3>1. CASE r \in {Ask("tree", "GET", Of(v, "snapshots")),
                      Ask("create", "POST", Of(v, "snapshots")),
                      Ask("form", "GET", OfOne(v, "snapshots", <<"form">>))}
      BY <3>1, AskFields
    <3>2. ASSUME NEW s \in Snaps,
                 r \in {Ask("detail", "GET", OfOne(v, "snapshots", s)),
                        Ask("edit", "PUT", OfOne(v, "snapshots", s)),
                        Ask("delete", "DELETE", OfOne(v, "snapshots", s)),
                        Ask("edit form", "GET", Do(v, "snapshots", s, "edit")),
                        Ask("revert-confirm", "GET", Do(v, "snapshots", s, "revert-confirm")),
                        Ask("revert", "POST", Do(v, "snapshots", s, "revert")),
                        Ask("merge", "POST", Do(v, "snapshots", s, "merge"))}
          PROVE  \/ r.url = OfOne(v, "snapshots", s)
                 \/ \E action \in {"edit", "revert-confirm", "revert", "merge"} :
                       r.url = Do(v, "snapshots", s, action)
      <4>1. \A op, method : r = Ask(op, method, OfOne(v, "snapshots", s))
                              => r.url = OfOne(v, "snapshots", s)
        BY AskFields
      <4>2. \A op, method, action : r = Ask(op, method, Do(v, "snapshots", s, action))
                                      => r.url = Do(v, "snapshots", s, action)
        BY AskFields
      <4> QED BY <3>2, <4>1, <4>2
    <3> QED BY <1>6, <3>1, <3>2 DEF SnapshotRequests
  <2> QED BY <1>5, <2>1
<1>7. ASSUME NEW v \in Vms, r \in FolderRequests(v) PROVE Fits(r.url)
  <2>1. \/ r.url = Of(v, "shared-folders")
        \/ \E name \in Tags \cup {<<"form">>, <<"automount">>} :
              r.url = OfOne(v, "shared-folders", name)
        \/ \E t \in Tags : \E action \in {"mount", "unmount"} :
              r.url = Do(v, "shared-folders", t, action)
    <3>1. CASE r \in {Ask("folders", "GET", Of(v, "shared-folders")),
                      Ask("add", "POST", Of(v, "shared-folders")),
                      Ask("folder form", "GET", OfOne(v, "shared-folders", <<"form">>)),
                      Ask("automount", "POST", OfOne(v, "shared-folders", <<"automount">>))}
      <4>1. \A op, method : r = Ask(op, method, Of(v, "shared-folders"))
                              => r.url = Of(v, "shared-folders")
        BY AskFields
      <4>2. \A op, method, name : r = Ask(op, method, OfOne(v, "shared-folders", name))
                                    => r.url = OfOne(v, "shared-folders", name)
        BY AskFields
      <4> QED BY <3>1, <4>1, <4>2
    <3>2. ASSUME NEW t \in Tags,
                 r \in {Ask("remove", "DELETE", OfOne(v, "shared-folders", t)),
                        Ask("mount", "POST", Do(v, "shared-folders", t, "mount")),
                        Ask("unmount", "POST", Do(v, "shared-folders", t, "unmount"))}
          PROVE  \/ r.url = OfOne(v, "shared-folders", t)
                 \/ \E action \in {"mount", "unmount"} :
                       r.url = Do(v, "shared-folders", t, action)
      BY <3>2, AskFields
    <3> QED BY <1>7, <3>1, <3>2 DEF FolderRequests
  <2> QED BY <1>5, <2>1
<1> QED BY <1>3, <1>4, <1>6, <1>7 DEF Requested, AllRequests

(* A URL of plain texts arrives as it was written: the browser and the     *)
(* library leave it as it is, and path_segment() cuts it where it was      *)
(* joined.                                                                 *)
LEMMA PlainArrives ==
    ASSUME NEW r \in Requested, \A k \in DOMAIN r.url : Plain(r.url[k])
    PROVE  Received[r.url] = r.url
<1> DEFINE C == {c \in Letters : c \notin Ends \cup {"/"} /\ Arrives(c) = c}
           B == C \cup {"/"}
           url == r.url
           n == Len(url)
           path == Joined(url)
<1>1. url \in Seq(Seq(Letters)) /\ n \in 0 .. 5
  BY UrlsFit DEF Fits
<1>2. \A i \in 1 .. n :
         /\ url[i] \in Seq(C) /\ url[i] # <<>>
         /\ \A k \in 1 .. Len(url[i]) : url[i][k] # "/"
  <2> TAKE i \in 1 .. n
  <2>1. url[i] \in Seq(Letters) /\ Plain(url[i])
    BY <1>1
  <2>2. ASSUME NEW k \in 1 .. Len(url[i]) PROVE url[i][k] \in C /\ url[i][k] # "/"
    <3>1. PICK text, c : text = url[i] /\ c = text[k]
      OBVIOUS
    <3>2. text \in Seq(Letters) /\ Plain(text) /\ k \in 1 .. Len(text)
      BY <2>1, <3>1
    <3>3. c \in Letters /\ c \notin Ends \cup {"/"} /\ Arrives(c) = c
      <4>1. \A j \in DOMAIN text : text[j] \notin Ends \cup {"/"} /\ Arrives(text[j]) = text[j]
        BY <3>2, Zenon DEF Plain
      <4>2. k \in DOMAIN text /\ text[k] \in Letters
        BY <3>2
      <4> QED BY <3>1, <4>1, <4>2
    <3> QED BY <3>1, <3>3
  <2> HIDE DEF C
  <2>3. url[i] \in Seq(C)
    BY <2>1, <2>2
  <2> QED BY <2>1, <2>2, <2>3 DEF Plain
<1>3. url \in Seq(Seq(C))
  <2>1. \A S, T : \A q \in Seq(T) : (\A i \in 1 .. Len(q) : q[i] \in S) => q \in Seq(S)
    OBVIOUS
  <2>2. \A i \in 1 .. Len(url) : url[i] \in Seq(C)
    BY <1>2
  <2> HIDE DEF C, url
  <2> QED BY <1>1, <2>1, <2>2
<1>4. /\ path \in Seq(B)
      /\ \A i \in 1 .. n : PathSegment(path, i - 1) = url[i]
      /\ PathSegment(path, n) = TextNull
  <2> HIDE DEF C, url
  <2> QED BY <1>2, <1>3, AllSegments DEF n
<1>5. \A c \in B : c \notin Ends /\ Arrives(c) = c
  BY DEF Ends, Arrives
<1> HIDE DEF C, B, path, n, url
<1>6. OnWire(path) = path
  <2>1. {e \in DOMAIN path : path[e] \in Ends} = {}
    BY <1>4, <1>5
  <2>2. First({e \in DOMAIN path : path[e] \in Ends}, Len(path) + 1) = Len(path) + 1
    BY <2>1 DEF First
  <2>3. OnWire(path) = [i \in 1 .. (Len(path) + 1) - 1 |-> Arrives(path[i])]
    BY <2>2 DEF OnWire
  <2>4. (Len(path) + 1) - 1 = Len(path) /\ path = [i \in 1 .. Len(path) |-> path[i]]
    BY <1>4
  <2>5. \A i \in 1 .. Len(path) : Arrives(path[i]) = path[i]
    BY <1>4, <1>5
  <2> QED BY <2>3, <2>4, <2>5
<1>7. First({k \in 1 .. 5 : PathSegment(path, k - 1) = TextNull}, 6) = n + 1
  <2> DEFINE S == {k \in 1 .. 5 : PathSegment(path, k - 1) = TextNull}
  <2>1. S \in SUBSET Nat
    OBVIOUS
  <2>2. \A k \in 1 .. n : k \notin S
    <3> TAKE k \in 1 .. n
    <3>1. url[k] # TextNull
      BY <1>1, NullAssumption DEF Requested, n, url
    <3> QED BY <1>4, <3>1
  <2>3. CASE n = 5
    <3>1. S = {}
      BY <2>2, <2>3
    <3> HIDE DEF S
    <3> QED BY <2>3, <3>1 DEF First, S
  <2>4. CASE n # 5
    <3>1. (n + 1) - 1 = n /\ n + 1 \in 1 .. 5
      BY <1>1, <2>4
    <3>2. n + 1 \in S
      BY <1>4, <3>1
    <3>3. \A q \in S : n + 1 <= q
      BY <1>1, <2>2
    <3> HIDE DEF S
    <3>4. \A p \in S : (\A q \in S : p <= q) => First(S, 6) = p
      BY <2>1, FirstIsLeast
    <3>5. First(S, 6) = n + 1
      BY <3>2, <3>3, <3>4
    <3> QED BY <3>5 DEF S
  <2> QED BY <2>3, <2>4
<1>8. Segments(path) = url
  <2>1. Segments(path) = [k \in 1 .. (n + 1) - 1 |-> PathSegment(path, k - 1)]
    BY <1>7 DEF Segments
  <2>2. (n + 1) - 1 = n /\ url = [k \in 1 .. n |-> url[k]]
    BY <1>1 DEF n
  <2> QED BY <1>4, <2>1, <2>2
<1>9. Received[url] = Segments(OnWire(Joined(url)))
  BY DEF Received, url
<1> QED BY <1>6, <1>8, <1>9 DEF path, url

LEMMA SnapshotsRouted ==
    ASSUME NEW v, NEW r \in SnapshotRequests(v), Snaps \subseteq Seq(STRING), ~Hidden(r)
    PROVE  ServedBy(r, Words(r.url)) = r.op
<1>0. AsWord(<<"form">>) = "form"
  BY DEF AsWord
<1>r. ASSUME NEW words, NEW op, NEW method, NEW url, url # <<>>,
             r = Ask(op, method, url), Words(url) = words,
             Len(words) # 1, Len(words) # 2, words[1] = "vms", words[3] = "snapshots",
             SnapshotRoute(method, words) = op
      PROVE  ServedBy(r, Words(r.url)) = r.op
  <2>1. r.op = op /\ r.method = method /\ r.url = url
    BY <1>r, AskFields
  <2> QED BY <1>r, <2>1 DEF ServedBy, Route
<1>1. CASE r = Ask("tree", "GET", Of(v, "snapshots"))
  <2> DEFINE words == <<"vms", AsWord(v), "snapshots">>
  <2>1. Words(Of(v, "snapshots")) = words /\ Of(v, "snapshots") # <<>>
    BY WordsAre, <1>0 DEF Of
  <2>2. /\ Len(words) = 3 /\ words[1] = "vms" /\ words[3] = "snapshots"
        /\ Len(words) = 4 => words[4] = "form"
    OBVIOUS
  <2> HIDE DEF words
  <2>3. SnapshotRoute("GET", words) = "tree"
    BY <2>2 DEF SnapshotRoute, Listed
  <2> QED BY <1>1, <1>r, <2>1, <2>2, <2>3
<1>2. CASE r = Ask("create", "POST", Of(v, "snapshots"))
  <2> DEFINE words == <<"vms", AsWord(v), "snapshots">>
  <2>1. Words(Of(v, "snapshots")) = words /\ Of(v, "snapshots") # <<>>
    BY WordsAre, <1>0 DEF Of
  <2>2. /\ Len(words) = 3 /\ words[1] = "vms" /\ words[3] = "snapshots"
        /\ Len(words) = 4 => words[4] = "form"
    OBVIOUS
  <2> HIDE DEF words
  <2>3. SnapshotRoute("POST", words) = "create"
    BY <2>2 DEF SnapshotRoute, Listed
  <2> QED BY <1>2, <1>r, <2>1, <2>2, <2>3
<1>3. CASE r = Ask("form", "GET", OfOne(v, "snapshots", <<"form">>))
  <2> DEFINE words == <<"vms", AsWord(v), "snapshots", "form">>
  <2>1. Words(OfOne(v, "snapshots", <<"form">>)) = words /\ OfOne(v, "snapshots", <<"form">>) # <<>>
    BY WordsAre, <1>0 DEF OfOne
  <2>2. /\ Len(words) = 4 /\ words[1] = "vms" /\ words[3] = "snapshots"
        /\ Len(words) = 4 => words[4] = "form"
    OBVIOUS
  <2> HIDE DEF words
  <2>3. SnapshotRoute("GET", words) = "form"
    BY <2>2 DEF SnapshotRoute, Listed
  <2> QED BY <1>3, <1>r, <2>1, <2>2, <2>3
<1>4. ASSUME NEW s \in Snaps, AsWord(s) = "form" PROVE s = <<"form">>
  <2>1. s \in Seq(STRING) /\ Len(s) = 1 /\ s[1] = "form"
    BY <1>4 DEF AsWord
  <2> QED BY <2>1
<1>5. ASSUME NEW s \in Snaps,
             r \in {Ask("detail", "GET", OfOne(v, "snapshots", s)),
                    Ask("edit", "PUT", OfOne(v, "snapshots", s)),
                    Ask("delete", "DELETE", OfOne(v, "snapshots", s))}
      PROVE  ServedBy(r, Words(r.url)) = r.op
  <2> DEFINE words == <<"vms", AsWord(v), "snapshots", AsWord(s)>>
  <2>1. /\ Words(r.url) = words /\ r.url # <<>>
        /\ r.method \in {"GET", "PUT", "DELETE"}
        /\ Listed([GET |-> "detail", PUT |-> "edit", DELETE |-> "delete"], r.method) = r.op
    <3>1. /\ r.url = OfOne(v, "snapshots", s)
          /\ \/ r.method = "GET" /\ r.op = "detail"
             \/ r.method = "PUT" /\ r.op = "edit"
             \/ r.method = "DELETE" /\ r.op = "delete"
      BY <1>5, AskFields
    <3>2. OfOne(v, "snapshots", s) # <<>>
      BY DEF OfOne
    <3>3. Listed([GET |-> "detail", PUT |-> "edit", DELETE |-> "delete"], r.method) = r.op
      BY <3>1 DEF Listed
    <3> QED BY <3>1, <3>2, <3>3, WordsAre
  <2>2. s # <<"form">>
    BY <1>5 DEF Hidden, Ask, OfOne
  <2>3. /\ Len(words) = 4 /\ words[4] # "form"
        /\ words[1] = "vms" /\ words[3] = "snapshots"
    BY <1>4, <2>2
  <2> HIDE DEF words
  <2>4. SnapshotRoute(r.method, words)
          = Listed([GET |-> "detail", PUT |-> "edit", DELETE |-> "delete"], r.method)
    BY <2>3 DEF SnapshotRoute
  <2> QED BY <2>1, <2>3, <2>4 DEF ServedBy, Route
<1>6. ASSUME NEW s \in Snaps, NEW a \in Actions,
             r = Ask(a[3], a[2], Do(v, "snapshots", s, a[1]))
      PROVE  ServedBy(r, Words(r.url)) = r.op
  <2> DEFINE words == <<"vms", AsWord(v), "snapshots", AsWord(s), a[1]>>
  <2>1. r.url = Do(v, "snapshots", s, a[1]) /\ r.method = a[2] /\ r.op = a[3] /\ r.op # "form"
    <3>1. a[3] # "form"
      <4>1. CASE a = <<"edit", "GET", "edit form">>
        BY <4>1
      <4>2. CASE a = <<"revert", "POST", "revert">>
        BY <4>2
      <4>3. CASE a = <<"revert-confirm", "GET", "revert-confirm">>
        BY <4>3
      <4>4. CASE a = <<"merge", "POST", "merge">>
        BY <4>4
      <4> QED BY <4>1, <4>2, <4>3, <4>4 DEF Actions
    <3> QED BY <1>6, <3>1, AskFields
  <2>2. Words(r.url) = words /\ r.url # <<>>
    BY <2>1, WordsAre DEF Do
  <2>3. s # <<"form">>
    BY <2>1 DEF Hidden, Do
  <2>4. SnapshotRoute(a[2], words) = a[3]
    BY <1>4, <2>3, ActionRoute
  <2>5. Len(words) # 2 /\ Len(words) # 1 /\ words[1] = "vms" /\ words[3] = "snapshots"
    OBVIOUS
  <2> HIDE DEF words
  <2> QED BY <2>1, <2>2, <2>4, <2>5 DEF ServedBy, Route
<1>7. ASSUME NEW s \in Snaps,
             r \in {Ask("edit form", "GET", Do(v, "snapshots", s, "edit")),
                    Ask("revert-confirm", "GET", Do(v, "snapshots", s, "revert-confirm")),
                    Ask("revert", "POST", Do(v, "snapshots", s, "revert")),
                    Ask("merge", "POST", Do(v, "snapshots", s, "merge"))}
      PROVE  ServedBy(r, Words(r.url)) = r.op
  <2>1. PICK a \in Actions : r = Ask(a[3], a[2], Do(v, "snapshots", s, a[1]))
    BY <1>7 DEF Actions
  <2> QED BY <1>6, <2>1
<1> QED BY <1>1, <1>2, <1>3, <1>5, <1>7 DEF SnapshotRequests

LEMMA FoldersRouted ==
    ASSUME NEW v, NEW r \in FolderRequests(v)
    PROVE  ServedBy(r, Words(r.url)) = r.op
<1> DEFINE Served(words, op, method) ==
               /\ words[1] = "vms" /\ words[3] = "shared-folders"
               /\ Len(words) # 1 /\ Len(words) # 2
               /\ FolderRoute(method, words) = op
<1>1. ASSUME NEW words, NEW op, NEW method, NEW url, url # <<>>,
             r = Ask(op, method, url), Words(url) = words, Served(words, op, method)
      PROVE  ServedBy(r, Words(r.url)) = r.op
  <2>1. r.op = op /\ r.method = method /\ r.url = url
    BY <1>1 DEF Ask
  <2> QED BY <1>1, <2>1 DEF ServedBy, Route
<1>2. CASE r = Ask("folders", "GET", Of(v, "shared-folders"))
  <2>1. Words(Of(v, "shared-folders")) = <<"vms", AsWord(v), "shared-folders">>
    BY WordsAre
  <2>2. Served(<<"vms", AsWord(v), "shared-folders">>, "folders", "GET")
    BY DEF FolderRoute, Listed
  <2>3. Of(v, "shared-folders") # <<>>
    BY DEF Of
  <2> QED BY <1>1, <1>2, <2>1, <2>2, <2>3
<1>3. CASE r = Ask("add", "POST", Of(v, "shared-folders"))
  <2>1. Words(Of(v, "shared-folders")) = <<"vms", AsWord(v), "shared-folders">>
    BY WordsAre
  <2>2. Served(<<"vms", AsWord(v), "shared-folders">>, "add", "POST")
    BY DEF FolderRoute, Listed
  <2>3. Of(v, "shared-folders") # <<>>
    BY DEF Of
  <2> QED BY <1>1, <1>3, <2>1, <2>2, <2>3
<1>4. ASSUME NEW name, NEW op, NEW method,
             r = Ask(op, method, OfOne(v, "shared-folders", name)),
             \/ op = "folder form" /\ method = "GET" /\ name = <<"form">>
             \/ op = "automount" /\ method = "POST" /\ name = <<"automount">>
             \/ op = "remove" /\ method = "DELETE"
      PROVE  ServedBy(r, Words(r.url)) = r.op
  <2> DEFINE words == <<"vms", AsWord(v), "shared-folders", AsWord(name)>>
  <2>1. Words(OfOne(v, "shared-folders", name)) = words
    BY WordsAre
  <2>2. /\ Len(words) = 4 /\ words[1] = "vms" /\ words[3] = "shared-folders"
        /\ words[4] = AsWord(name)
    OBVIOUS
  <2>3. AsWord(<<"form">>) = "form" /\ AsWord(<<"automount">>) = "automount"
    BY DEF AsWord
  <2> HIDE DEF words
  <2>4. Served(words, op, method)
    <3> DEFINE table == [GET |-> IF words[4] = "form" THEN "folder form" ELSE "405",
                         POST |-> IF words[4] = "automount" THEN "automount" ELSE "405",
                         DELETE |-> "remove"]
    <3>1. FolderRoute(method, words) = Listed(table, method)
      BY <2>2 DEF FolderRoute
    <3>2. method \in DOMAIN table /\ table[method] = op
      <4>1. /\ {"GET", "POST", "DELETE"} \subseteq DOMAIN table
            /\ table["GET"] = IF words[4] = "form" THEN "folder form" ELSE "405"
            /\ table["POST"] = IF words[4] = "automount" THEN "automount" ELSE "405"
            /\ table["DELETE"] = "remove"
        OBVIOUS
      <4> HIDE DEF table
      <4> QED BY <1>4, <2>2, <2>3, <4>1
    <3> HIDE DEF table
    <3> QED BY <2>2, <3>1, <3>2 DEF Listed
  <2>5. OfOne(v, "shared-folders", name) # <<>>
    BY DEF OfOne
  <2> HIDE DEF Served
  <2> QED BY <1>1, <1>4, <2>1, <2>4, <2>5
<1>5. ASSUME NEW name, NEW action \in {"mount", "unmount"},
             r = Ask(action, "POST", Do(v, "shared-folders", name, action))
      PROVE  ServedBy(r, Words(r.url)) = r.op
  <2> DEFINE words == <<"vms", AsWord(v), "shared-folders", AsWord(name), action>>
  <2>1. Words(Do(v, "shared-folders", name, action)) = words
    BY WordsAre
  <2>2. /\ Len(words) = 5 /\ words[1] = "vms" /\ words[3] = "shared-folders"
        /\ words[5] = action
    OBVIOUS
  <2> HIDE DEF words
  <2>3. Served(words, action, "POST")
    BY <2>2 DEF FolderRoute
  <2>4. Do(v, "shared-folders", name, action) # <<>>
    BY DEF Do
  <2> HIDE DEF Served
  <2> QED BY <1>1, <1>5, <2>1, <2>3, <2>4
<1>6. CASE \E t \in Tags :
              r \in {Ask("remove", "DELETE", OfOne(v, "shared-folders", t)),
                     Ask("mount", "POST", Do(v, "shared-folders", t, "mount")),
                     Ask("unmount", "POST", Do(v, "shared-folders", t, "unmount"))}
  BY <1>4, <1>5, <1>6
<1>7. CASE r \in {Ask("folder form", "GET", OfOne(v, "shared-folders", <<"form">>)),
                  Ask("automount", "POST", OfOne(v, "shared-folders", <<"automount">>))}
  BY <1>4, <1>7
<1> QED BY <1>2, <1>3, <1>6, <1>7 DEF FolderRequests

LEMMA MachinesRouted ==
    ASSUME NEW v, NEW r \in MachineRequests(v)
    PROVE  ServedBy(r, Words(r.url)) = r.op
<1>1. PICK op, method :
         /\ r = Ask(op, method, Of(v, op))
         /\ \/ method = "GET" /\ op = "orphan-check"
            \/ method = "POST" /\ op \in {"start", "stop", "pause", "resume", "force-stop",
                                          "convert-nvram", "orphan-cleanup"}
  BY DEF MachineRequests
<1>2. Words(r.url) = <<"vms", AsWord(v), op>> /\ r.url # <<>> /\ r.op = op /\ r.method = method
  BY <1>1, WordsAre DEF Ask, Of
<1> QED BY <1>1, <1>2 DEF ServedBy, Route, MachineRoute, HasBody

LEMMA PagesRouted ==
    ASSUME NEW r \in PageRequests
    PROVE  ServedBy(r, Words(r.url)) = r.op
<1>1. CASE r = Ask("static", "GET", <<>>)
  BY <1>1 DEF Ask, ServedBy
<1>2. ASSUME NEW w, r.url = <<<<w>>>> PROVE Words(r.url) = <<w>> /\ r.url # <<>>
  BY <1>2 DEF Words, AsWord
<1>3. CASE r \in {Ask("ping", "GET", <<<<"ping">>>>),
                  Ask("idle-check", "GET", <<<<"idle-check">>>>),
                  Ask("browse", "GET", <<<<"browse">>>>), Ask("list", "GET", <<<<"vms">>>>)}
  <2>1. PICK w \in {"ping", "idle-check", "browse", "vms"} :
           /\ r.url = <<<<w>>>> /\ r.method = "GET"
           /\ r.op = IF w = "vms" THEN "list" ELSE w
    BY <1>3 DEF Ask
  <2> QED BY <1>2, <2>1 DEF ServedBy, HasBody, Route, Listed
<1> QED BY <1>1, <1>3 DEF PageRequests

(* Every request of the page whose texts are plain is dispatched to the    *)
(* operation it is for, unless the form hides its snapshot.                *)
LEMMA Dispatch ==
    ASSUME NEW r \in Requested, \A k \in DOMAIN r.url : Plain(r.url[k]), ~Hidden(r)
    PROVE  ServedBy(r, Words(Received[r.url])) = r.op /\ Received[r.url] = r.url
<1>1. Received[r.url] = r.url
  BY PlainArrives
<1>2. Snaps \subseteq Seq(STRING)
  BY NameAssumption
<1> QED
  BY <1>1, <1>2, SnapshotsRouted, FoldersRouted, MachinesRouted, PagesRouted
     DEF Requested, AllRequests

(* A request stays open after its first call if it has a body or is for a  *)
(* static file: only then is the dispatch of the last call the same as     *)
(* that of the first would have been.                                      *)
Opened ==
    /\ DOMAIN handled = Conns
    /\ \A c \in Conns :
           phase[c] = "open" => request[c].url = <<>> \/ HasBody(request[c])

LEMMA StepReaches ==
    ASSUME Inv, Opened, ReachesHandler, [Next]_vars
    PROVE  Opened' /\ ReachesHandler'
<1> USE DEF Opened, ReachesHandler
<1>0. /\ phase \in [Conns -> {"idle", "new", "open", "answered", "closed"}]
      /\ request \in [Conns -> Requested]
  BY DEF Inv, TypeOK
<1>1. ASSUME NEW c \in Conns, Arrive(c) PROVE Opened' /\ ReachesHandler'
  BY <1>0, <1>1 DEF Arrive
<1>2. ASSUME NEW c \in Conns, NEW handler, Serve(c, handler),
             handler = ServedBy(request[c], Words(Received[request[c].url]))
      PROVE  Opened' /\ ReachesHandler'
  <2>1. /\ request[c] \in Requested /\ request' = request
        /\ phase' = [phase EXCEPT ![c] = "answered"]
        /\ handled' = [handled EXCEPT ![c] = handler]
    BY <1>0, <1>2 DEF Serve
  <2>2. (\A k \in DOMAIN request[c].url : Plain(request[c].url[k])) /\ ~Hidden(request[c])
           => handler = request[c].op /\ Received[request[c].url] = request[c].url
    BY <1>2, <2>1, Dispatch
  <2> QED BY <1>0, <2>1, <2>2
<1>3. ASSUME NEW c \in Conns, FirstServes(c) PROVE Opened' /\ ReachesHandler'
  BY <1>2, <1>3 DEF FirstServes, ServedBy
<1>4. ASSUME NEW c \in Conns, FirstMarks(c) PROVE Opened' /\ ReachesHandler'
  BY <1>0, <1>4 DEF FirstMarks
<1>5. ASSUME NEW c \in Conns, FirstAllocates(c) PROVE Opened' /\ ReachesHandler'
  BY <1>0, <1>5 DEF FirstAllocates
<1>6. ASSUME NEW c \in Conns, NEW n \in Pieces, AppendPiece(c, n)
      PROVE  Opened' /\ ReachesHandler'
  BY <1>0, <1>6 DEF AppendPiece
<1>7. ASSUME NEW c \in Conns, Last(c) PROVE Opened' /\ ReachesHandler'
  BY <1>2, <1>7 DEF Last, ServedBy
<1>8. ASSUME NEW c \in Conns, Close(c) PROVE Opened' /\ ReachesHandler'
  BY <1>0, <1>8 DEF Close
<1>9. ASSUME NEW c \in Conns, Completed(c) PROVE Opened' /\ ReachesHandler'
  BY <1>0, <1>9 DEF Completed
<1>10. CASE UNCHANGED vars
  BY <1>10 DEF vars
<1> QED BY <1>1, <1>3, <1>4, <1>5, <1>6, <1>7, <1>8, <1>9, <1>10 DEF Next

(* Each request of the page whose names are plain texts is answered by the *)
(* handler it is for, with these names: the way of the URL, the cutting by *)
(* path_segment() and the dispatch of routes.c:1386-1568, for every such   *)
(* name.  Names that HTML-escaping leaves with a meaning in a URL, and a   *)
(* snapshot called "form", are outside (README, 6).                        *)
THEOREM HandlersReached == Spec => []ReachesHandler
<1>1. Init => Opened /\ ReachesHandler
  BY DEF Init, Opened, ReachesHandler
<1>2. Inv /\ Opened /\ ReachesHandler /\ [Next]_vars => Opened' /\ ReachesHandler'
  BY StepReaches
<1> QED BY <1>1, <1>2, Invariance, PTL DEF Spec

-----------------------------------------------------------------------------
(* A window of the page.                                                   *)

(* What the user does stays what it was at the start.                      *)
UserKept == user \in {s.user : s \in Starts}

WindowInv == PageTypeOK /\ UserKept /\ StartGuarded

(* What is said of a machine is one of the texts, and is one without       *)
(* "Current State".                                                        *)
LEMMA TextTyped ==
    ASSUME PageTypeOK, NEW m \in Machines
    PROVE  Text(m) \in Texts /\ Stateless(Text(m)) \in Texts
<1> DEFINE tree == [of |-> m, ids |-> trees[m].ids, cur |-> trees[m].cur,
                    dirty |-> trees[m].dirty, power |-> power[m]]
<1>1. trees[m] \in Trees /\ trees[m].dirty \in BOOLEAN /\ power[m] \in Powers
  BY PageAssumption DEF PageTypeOK
<1>2. /\ Empty \in Texts /\ Stateless(Empty) = Empty
  <2>1. Empty \in Texts
    BY DEF Texts
  <2>2. Stateless(Empty) = Empty
    <3>1. /\ Empty.dirty = FALSE /\ Empty.power = Nothing
          /\ DOMAIN Empty = {"of", "ids", "cur", "dirty", "power"}
      BY DEF Empty
    <3>2. Empty = [field \in {"of", "ids", "cur", "dirty", "power"} |-> Empty[field]]
      BY DEF Empty
    <3> QED BY <3>1, <3>2 DEF Stateless
  <2> QED BY <2>1, <2>2
<1>3. CASE trees[m].ids = {}
  BY <1>2, <1>3 DEF Text
<1>4. CASE trees[m].ids # {}
  <2>1. Text(m) \in {tree, Stateless(tree)}
    BY <1>4, Zenon DEF Text
  <2>2. tree \in Texts
    BY <1>1, <1>4 DEF Texts
  <2>3. Stateless(tree) \in Texts
    BY <1>1, <1>4 DEF Texts, Stateless
  <2>4. Stateless(Stateless(tree)) = Stateless(tree)
    BY DEF Stateless
  <2> HIDE DEF tree
  <2> QED BY <2>1, <2>2, <2>3, <2>4
<1> QED BY <1>3, <1>4

(* updateStartButton() leaves the rows as they are, and disables the Start *)
(* of the selected machine unless the selected snapshot is the current one.*)
LEMMA StartSetGuards ==
    ASSUME NEW l \in Lists, NEW m, NEW current \in BOOLEAN
    PROVE  LET s == StartSet(l, m, current)
           IN  /\ s \in Lists
               /\ s.rows = l.rows
               /\ ~current /\ HasStart(s, m) => m \in s.off
BY DEF StartSet, HasStart, HasRow, Lists

(* The list that the listener of htmx:afterSwap leaves.                    *)
LEMMA SwappedGuards ==
    ASSUME PageTypeOK, NEW rows \in Rows
    PROVE  /\ Swapped(rows) \in Lists
           /\ page.sel # Nothing /\ ~page.selCur
                 /\ HasStart(Swapped(rows), page.vm)
              => page.vm \in Swapped(rows).off
<1> DEFINE fresh == [rows |-> rows, off |-> {},
                     active |-> IF rows = Failed THEN Nothing ELSE page.vm]
<1>1. page.selCur \in BOOLEAN /\ page.vm \in Machines \cup {Nothing}
  BY DEF PageTypeOK
<1>2. fresh \in Lists
  BY <1>1 DEF Lists
<1>3. Swapped(rows) = IF page.sel = Nothing THEN fresh
                             ELSE StartSet(fresh, page.vm, page.selCur)
  BY DEF Swapped
<1> HIDE DEF fresh
<1> QED BY <1>1, <1>2, <1>3, StartSetGuards

(* The types of the page, of a request for a tree, of those for the list.  *)
Pages ==
    [vm : Machines \cup {Nothing}, sel : Nodes \cup {Nothing},
     shown : Texts \cup {Nothing, Loading, Failed},
     last : Texts \cup {Nothing}, selCur : BOOLEAN, createOff : BOOLEAN]

Fetches == [of : Machines, force : BOOLEAN, answer : Texts \cup {Asked}]

Asking == [{"list", "button"} -> {Idle, Asked, Failed} \cup [Machines -> Powers]]

(* The selection survives loadSnapshotTree() unless the machine changes.   *)
LEMMA LoadedKeeps ==
    ASSUME NEW p \in Pages, NEW m \in Machines, NEW force \in BOOLEAN
    PROVE  LET q == Loaded(p, m, force)
           IN  /\ q \in Pages /\ q.vm = m
               /\ m = p.vm => q.sel = p.sel /\ q.selCur = p.selCur
               /\ m # p.vm => q.sel = Nothing
BY DEF Loaded, Pages

LEMMA FetchTyped ==
    ASSUME PageTypeOK, NEW p, NEW m \in Machines, NEW force \in BOOLEAN,
           Fetch(p, m, force)
    PROVE  fetches' \in [Slots -> {Nothing} \cup Fetches]
<1>1. fetches \in [Slots -> {Nothing} \cup Fetches]
  BY DEF PageTypeOK, Fetches
<1>2. [of |-> m, force |-> force \/ m # p.vm, answer |-> Asked] \in Fetches
  BY DEF Fetches
<1> QED BY <1>1, <1>2 DEF Fetch, Free

(* The answers of vmStateChanged's listeners leave the selection alone.    *)
LEMMA ChangedKeeps ==
    ASSUME PageTypeOK, NEW a \in Asking, NEW w \in BOOLEAN,
           VmStateChanged(a, w)
    PROVE  /\ page' \in Pages
           /\ page'.vm = page.vm /\ page'.sel = page.sel /\ page'.selCur = page.selCur
           /\ fetches' \in [Slots -> {Nothing} \cup Fetches]
           /\ asks' \in Asking
           /\ again' \in BOOLEAN
<1> USE DEF Asking
<1>1. page \in Pages /\ fetches \in [Slots -> {Nothing} \cup Fetches]
  BY DEF PageTypeOK, Pages, Fetches
<1>2. CASE page.vm = Nothing
  BY <1>1, <1>2 DEF VmStateChanged
<1>3. CASE page.vm # Nothing
  <2> DEFINE p == [page EXCEPT !.last = Nothing]
  <2>1. /\ p \in Pages /\ p.vm = page.vm /\ p.sel = page.sel /\ p.selCur = page.selCur
        /\ page.vm \in Machines
    BY <1>1, <1>3 DEF Pages
  <2>2. page' = Loaded(p, page.vm, TRUE) /\ Fetch(page, page.vm, TRUE)
    BY <1>3 DEF VmStateChanged
  <2> HIDE DEF p
  <2>3. /\ page' \in Pages
        /\ page'.vm = page.vm /\ page'.sel = page.sel /\ page'.selCur = page.selCur
    BY <2>1, <2>2, LoadedKeeps
  <2>4. fetches' \in [Slots -> {Nothing} \cup Fetches]
    BY <2>1, <2>2, FetchTyped
  <2> QED BY <2>3, <2>4 DEF VmStateChanged
<1> QED BY <1>2, <1>3

LEMMA WindowInit == PageInit => WindowInv
<1> SUFFICES ASSUME PageInit PROVE WindowInv
  OBVIOUS
<1> USE DEF Asking
<1>1. PICK s \in Starts : power = s.power /\ trees = s.trees /\ user = s.user
  BY DEF PageInit
<1>2. /\ power \in [Machines -> Powers] /\ trees \in [Machines -> Trees]
      /\ MaxChanges \in Nat /\ user.most \in Nat
  BY <1>1, PageAssumption
<1>3. /\ page \in Pages
      /\ list \in Lists
  BY DEF PageInit, Lists, Rows, Pages
<1>4. /\ fetches \in [Slots -> {Nothing} \cup Fetches]
      /\ asks \in Asking
  BY DEF PageInit
<1>5. /\ lastList \in Lists \cup {Nothing} /\ again \in BOOLEAN /\ post = Nothing
      /\ changes \in 0 .. MaxChanges /\ acts \in 0 .. user.most
  <2>1. lastList = Nothing /\ again = FALSE /\ post = Nothing /\ changes = 0 /\ acts = 0
    BY DEF PageInit
  <2>2. again \in BOOLEAN
    BY <2>1, Zenon
  <2>3. changes \in 0 .. MaxChanges /\ acts \in 0 .. user.most
    BY <1>2, <2>1
  <2> QED BY <2>1, <2>2, <2>3
<1>6. PageTypeOK
  BY <1>2, <1>3, <1>4, <1>5, Zenon DEF PageTypeOK, Pages, Fetches
<1>7. UserKept
  BY <1>1 DEF UserKept
<1>8. StartGuarded
  BY DEF PageInit, StartGuarded
<1> QED BY <1>6, <1>7, <1>8 DEF WindowInv

(* No step takes a selection without its mark on the Start button: what    *)
(* draws rows or trees sets it again, and the rest leaves both alone.      *)
LEMMA WindowStep ==
    ASSUME WindowInv, [PageNext]_pageVars
    PROVE  WindowInv'
<1> USE DEF WindowInv, Asking
<1>0. /\ page \in Pages /\ fetches \in [Slots -> {Nothing} \cup Fetches]
      /\ list \in Lists
  BY DEF PageTypeOK, Pages, Fetches
<1> DEFINE Selects ==
             /\ page' \in Pages /\ page'.vm = page.vm
             /\ page'.sel = page.sel /\ page'.selCur = page.selCur
<1>1. ASSUME NEW m \in Machines, Change(m) PROVE WindowInv'
  <2>1. /\ power' \in [Machines -> Powers] /\ trees' \in [Machines -> Trees]
        /\ changes' \in 0 .. MaxChanges
    BY <1>1, PageAssumption DEF Change, PageTypeOK
  <2>2. UNCHANGED <<user, page, fetches, list, lastList, asks, again, post, acts>>
    BY <1>1 DEF Change
  <2>3. PageTypeOK'
    BY <2>1, <2>2 DEF PageTypeOK
  <2> QED BY <2>2, <2>3 DEF StartGuarded, HasStart, HasRow, Buttons, UserKept
<1>2. ASSUME NEW m \in Machines, SelectVm(m) PROVE WindowInv'
  <2>1. /\ page' = Loaded(page, m, FALSE)
        /\ fetches' \in [Slots -> {Nothing} \cup Fetches]
    BY <1>2, FetchTyped DEF SelectVm
  <2>2. /\ page' \in Pages /\ page'.vm = m
        /\ m = page.vm => page'.sel = page.sel /\ page'.selCur = page.selCur
        /\ m # page.vm => page'.sel = Nothing
    BY <1>0, <2>1, LoadedKeeps
  <2>3. list' \in Lists /\ list'.rows = list.rows /\ list'.off = list.off
    BY <1>0, <1>2 DEF SelectVm, Lists
  <2>4. acts' \in 0 .. user.most
    BY <1>2, PageAssumption DEF SelectVm, Act, PageTypeOK, UserKept
  <2>5. PageTypeOK' /\ UserKept'
    BY <1>2, <2>1, <2>2, <2>3, <2>4
       DEF SelectVm, PageTypeOK, world, Pages, Fetches, UserKept
  <2>6. StartGuarded'
    BY <2>2, <2>3 DEF StartGuarded, HasStart, HasRow, Buttons
  <2> QED BY <2>5, <2>6
<1>3. ASSUME NEW s \in Nodes, Click(s) PROVE WindowInv'
  <2> DEFINE now == page.shown.cur = s
  <2>1. /\ page' = [page EXCEPT !.sel = s, !.selCur = now]
        /\ list' = StartSet(list, page.vm, now)
        /\ now \in BOOLEAN
    BY <1>3 DEF Click
  <2> HIDE DEF now
  <2>2. page' \in Pages /\ page'.vm = page.vm /\ page'.selCur = now
    BY <1>0, <2>1 DEF Pages
  <2>3. /\ list' \in Lists
        /\ ~now /\ HasStart(list', page.vm) => page.vm \in list'.off
    BY <1>0, <2>1, StartSetGuards
  <2>4. acts' \in 0 .. user.most
    BY <1>3, PageAssumption DEF Click, Act, PageTypeOK, UserKept
  <2>5. PageTypeOK' /\ UserKept'
    BY <1>3, <2>2, <2>3, <2>4 DEF Click, PageTypeOK, world, Pages, UserKept
  <2>6. StartGuarded'
    BY <2>2, <2>3 DEF StartGuarded, HasStart, HasRow, Buttons
  <2> QED BY <2>5, <2>6
<1>4. CASE Refresh
  <2>1. acts' \in 0 .. user.most
    BY <1>4, PageAssumption DEF Refresh, Act, PageTypeOK, UserKept
  <2>2. asks' \in Asking
    BY <1>4 DEF Refresh, PageTypeOK
  <2> QED
    BY <1>4, <2>1, <2>2 DEF Refresh, PageTypeOK, world, UserKept, StartGuarded,
           HasStart, HasRow, Buttons
<1>5. ASSUME NEW m \in Machines,
             NEW op \in {"start", "stop", "pause", "resume", "force-stop"}, Press(m, op)
      PROVE  WindowInv'
  <2>1. acts' \in 0 .. user.most
    BY <1>5, PageAssumption DEF Press, Act, PageTypeOK, UserKept
  <2> QED
    BY <1>5, <2>1 DEF Press, PageTypeOK, world, UserKept, StartGuarded,
           HasStart, HasRow, Buttons
<1>6. CASE PollTree
  <2>1. /\ page' = Loaded(page, page.vm, FALSE) /\ page.vm \in Machines
        /\ Fetch(page, page.vm, FALSE)
    BY <1>0, <1>6 DEF PollTree, Pages
  <2>2. Selects /\ fetches' \in [Slots -> {Nothing} \cup Fetches]
    BY <1>0, <2>1, LoadedKeeps, FetchTyped
  <2>3. PageTypeOK' /\ UserKept'
    BY <1>6, <2>2 DEF PollTree, PageTypeOK, world, Pages, Fetches, UserKept
  <2>4. StartGuarded'
    BY <1>6, <2>2 DEF PollTree, StartGuarded, HasStart, HasRow,
           Buttons
  <2> QED BY <2>3, <2>4
<1>7. CASE PollList
  BY <1>7 DEF PollList, PageTypeOK, world, UserKept, StartGuarded,
         HasStart, HasRow, Buttons
<1>8. ASSUME NEW k \in Slots, AnswerTree(k) PROVE WindowInv'
  <2>1. fetches[k] \in Fetches
    BY <1>0, <1>8 DEF AnswerTree
  <2>2. Text(fetches[k].of) \in Texts
    BY <2>1, TextTyped DEF Fetches
  <2>3. fetches' \in [Slots -> {Nothing} \cup Fetches]
    BY <1>0, <1>8, <2>1, <2>2 DEF AnswerTree, Fetches
  <2> QED
    BY <1>8, <2>3 DEF AnswerTree, PageTypeOK, world, Fetches, UserKept,
           StartGuarded, HasStart, HasRow, Buttons
<1>9. ASSUME NEW k \in Slots, TreeFails(k) PROVE WindowInv'
  <2>1. PICK text \in {Error, Stateless(Text(fetches[k].of))} :
           fetches' = [fetches EXCEPT ![k].answer = text]
    BY <1>9 DEF TreeFails
  <2>2. fetches[k] \in Fetches
    BY <1>0, <1>9 DEF TreeFails
  <2>3. text \in Texts
    BY <2>2, TextTyped DEF Fetches, Texts
  <2>4. fetches' \in [Slots -> {Nothing} \cup Fetches]
    BY <1>0, <2>1, <2>2, <2>3 DEF Fetches
  <2>5. changes' \in 0 .. MaxChanges
    BY <1>9, PageAssumption DEF TreeFails, PageTypeOK
  <2> QED
    BY <1>9, <2>4, <2>5 DEF TreeFails, PageTypeOK, Fetches, UserKept,
           StartGuarded, HasStart, HasRow, Buttons
<1>10. ASSUME NEW k \in Slots, FetchFails(k) PROVE WindowInv'
  <2>1. Selects
    BY <1>0, <1>10 DEF FetchFails, Pages
  <2>2. fetches' \in [Slots -> {Nothing} \cup Fetches] /\ changes' \in 0 .. MaxChanges
    BY <1>0, <1>10, PageAssumption DEF FetchFails, PageTypeOK
  <2>3. PageTypeOK' /\ UserKept'
    BY <1>10, <2>1, <2>2 DEF FetchFails, PageTypeOK, Pages, Fetches, UserKept
  <2>4. StartGuarded'
    BY <1>10, <2>1 DEF FetchFails, StartGuarded, HasStart, HasRow,
           Buttons
  <2> QED BY <2>3, <2>4
<1>11. ASSUME NEW k \in Slots, TreeArrives(k) PROVE WindowInv'
  <2>1. fetches[k].answer \in Texts /\ fetches' \in [Slots -> {Nothing} \cup Fetches]
    BY <1>0, <1>11 DEF TreeArrives, Fetches
  <2>2. CASE Same(page, fetches[k])
    BY <1>11, <2>1, <2>2 DEF TreeArrives, PageTypeOK, world, Fetches, UserKept,
           StartGuarded, HasStart, HasRow, Buttons
  <2>3. CASE ~Same(page, fetches[k])
    <3> DEFINE text == fetches[k].answer
    <3>1. /\ page' = Rendered(page, text)
          /\ list' = IF page.sel \in text.ids
                     THEN StartSet(list, page.vm, page'.selCur) ELSE list
      BY <1>11, <2>3 DEF TreeArrives
    <3>2. text \in Texts
      BY <2>1
    <3> HIDE DEF text
    <3>3. /\ page' \in Pages /\ page'.vm = page.vm /\ page'.sel = page.sel
          /\ page.sel \notin text.ids => page'.selCur = page.selCur
      <4>1. text.dirty \in BOOLEAN
        <5>1. Empty.dirty \in BOOLEAN
          BY DEF Empty
        <5>2. Error.dirty \in BOOLEAN
          BY DEF Empty, Error
        <5> QED BY <3>2, <5>1, <5>2 DEF Texts
      <4> USE DEF Rendered, Pages
      <4>2. page' \in Pages
        BY <1>0, <3>1, <3>2, <4>1, ZenonT(20)
      <4>3. /\ page'.vm = page.vm /\ page'.sel = page.sel
            /\ page.sel \notin text.ids => page'.selCur = page.selCur
        BY <1>0, <3>1, <3>2, <4>1
      <4> QED BY <4>2, <4>3
    <3>4. list' \in Lists /\ StartGuarded'
      <4>1. CASE page.sel \in text.ids
        <5>1. page'.selCur \in BOOLEAN
          BY <3>3 DEF Pages
        <5>2. /\ list' \in Lists
              /\ ~page'.selCur /\ HasStart(list', page.vm) => page.vm \in list'.off
          BY <1>0, <3>1, <4>1, <5>1, StartSetGuards
        <5> QED BY <3>3, <5>2 DEF StartGuarded, HasStart, HasRow, Buttons
      <4>2. CASE page.sel \notin text.ids
        BY <1>0, <3>1, <3>3, <4>2 DEF StartGuarded, HasStart, HasRow,
               Buttons
      <4> QED BY <4>1, <4>2
    <3>5. PageTypeOK' /\ UserKept'
      BY <1>11, <2>1, <3>3, <3>4 DEF TreeArrives, PageTypeOK, world, Pages, Fetches,
             UserKept
    <3> QED BY <3>4, <3>5
  <2> QED BY <2>2, <2>3
<1>12. ASSUME NEW by \in {"list", "button"}, AnswerList(by) \/ ListFails(by)
       PROVE  WindowInv'
  <2>1. /\ asks' \in Asking
        /\ changes' \in 0 .. MaxChanges
    BY <1>12, PageAssumption DEF AnswerList, ListFails, PageTypeOK, world
  <2> QED
    BY <1>12, <2>1 DEF AnswerList, ListFails, PageTypeOK, world, UserKept,
           StartGuarded, HasStart, HasRow, Buttons
<1>13. ASSUME NEW by \in {"list", "button"}, ListArrives(by) PROVE WindowInv'
  <2> DEFINE left == [asks EXCEPT ![by] = IF by = "list" /\ again THEN Asked ELSE Idle]
             wait == again /\ by # "list"
  <2>1. /\ asks[by] \in Rows
        /\ list' = Swapped(asks[by]) /\ lastList' = list'
    BY <1>13 DEF ListArrives, PageTypeOK, Rows
  <2>2. /\ list' \in Lists
        /\ page.sel # Nothing /\ ~page.selCur /\ HasStart(list', page.vm)
              => page.vm \in list'.off
    BY <2>1, SwappedGuards
  <2>3. /\ left \in Asking
        /\ [left EXCEPT ![by] = Idle] \in Asking
        /\ wait \in BOOLEAN
    BY DEF PageTypeOK
  <2>4. \/ VmStateChanged([left EXCEPT ![by] = Idle], wait)
        \/ asks' = left /\ again' = wait /\ UNCHANGED <<page, fetches>>
    BY <1>13 DEF ListArrives
  <2> HIDE DEF left, wait
  <2>5. /\ Selects /\ fetches' \in [Slots -> {Nothing} \cup Fetches]
        /\ asks' \in Asking
        /\ again' \in BOOLEAN
    BY <1>0, <2>3, <2>4, ChangedKeeps
  <2>6. PageTypeOK' /\ UserKept'
    BY <1>13, <2>1, <2>2, <2>5 DEF ListArrives, PageTypeOK, world, Pages, Fetches,
           UserKept
  <2>7. StartGuarded'
    BY <2>2, <2>5 DEF StartGuarded, HasStart, HasRow, Buttons
  <2> QED BY <2>6, <2>7
<1>14. CASE AnswerPost
  <2>1. post \in [of : Machines, done : BOOLEAN,
                  op : {"start", "stop", "pause", "resume", "force-stop"}]
    BY <1>14 DEF AnswerPost, PageTypeOK
  <2>2. Taken(post.op, power[post.of]) \in Powers
    BY <2>1, PageAssumption DEF Taken, PageTypeOK
  <2>3. power' \in [Machines -> Powers]
    BY <1>14, <2>2 DEF AnswerPost, PageTypeOK
  <2>4. post' \in [of : Machines, done : BOOLEAN,
                   op : {"start", "stop", "pause", "resume", "force-stop"}]
    BY <1>14, <2>1 DEF AnswerPost
  <2> QED
    BY <1>14, <2>3, <2>4 DEF AnswerPost, PageTypeOK, UserKept, StartGuarded,
           HasStart, HasRow, Buttons
<1>15. CASE PostArrives
  <2>1. VmStateChanged(asks, again)
    BY <1>15 DEF PostArrives
  <2>2. /\ Selects /\ fetches' \in [Slots -> {Nothing} \cup Fetches]
        /\ asks' \in Asking
        /\ again' \in BOOLEAN
    BY <2>1, ChangedKeeps DEF PageTypeOK
  <2>3. PageTypeOK' /\ UserKept'
    BY <1>15, <2>2 DEF PostArrives, PageTypeOK, world, Pages, Fetches, UserKept
  <2>4. StartGuarded'
    BY <1>15, <2>2 DEF PostArrives, StartGuarded, HasStart, HasRow,
           Buttons
  <2> QED BY <2>3, <2>4
<1>16. CASE UNCHANGED pageVars
  BY <1>16 DEF pageVars, PageTypeOK, UserKept, StartGuarded, HasStart,
         HasRow, Buttons
<1> QED
  BY <1>1, <1>2, <1>3, <1>4, <1>5, <1>6, <1>7, <1>8, <1>9, <1>10, <1>11, <1>12, <1>13, <1>14, <1>15, <1>16
     DEF PageNext

LEMMA WindowInvariance == PageSpec => []WindowInv
<1>1. PageInit => WindowInv
  BY WindowInit
<1>2. WindowInv /\ [PageNext]_pageVars => WindowInv'
  BY WindowStep
<1> QED BY <1>1, <1>2, PTL DEF PageSpec

(* The variables of a window keep their types, for any machines, trees and *)
(* numbers of requests and clicks.                                         *)
THEOREM WindowTypeCorrect ==
    PageSpec => []PageTypeOK
BY WindowInvariance, PTL DEF WindowInv

(* While a snapshot is selected that is not the current one, the machine   *)
(* has no enabled Start button, in whatever order lists and trees arrive   *)
(* and however many are under way.                                         *)
THEOREM StartIsGuarded ==
    PageSpec => []StartGuarded
BY WindowInvariance, PTL DEF WindowInv

-----------------------------------------------------------------------------
(* A handler that is reached has the names of its path, the texts of its   *)
(* form, its command in the guest and the output of the guest as they were.*)
THEOREM TextsKept == Spec => []TextKept
<1>1. TextKept
  BY PathsAreSplit, FormsAreKept, CommandsAreKept, OutputIsKept DEF TextKept
<1> QED BY <1>1, PTL

-----------------------------------------------------------------------------
(* Files of settings: config_parse_buffer() (src/config.c:37-79).          *)

(* The last of a set of places is the greatest one.                        *)
LEMMA LastIsGreatest ==
    ASSUME NEW n \in Nat, NEW S \in SUBSET (0 .. n), NEW other
    PROVE  /\ S = {} => LastIn(S, other) = other
           /\ S # {} => LastIn(S, other) \in S /\ \A q \in S : q <= LastIn(S, other)
           /\ \A p \in S : (\A q \in S : q <= p) => LastIn(S, other) = p
<1>1. S = {} => LastIn(S, other) = other
  BY DEF LastIn
<1>2. ASSUME S # {} PROVE LastIn(S, other) \in S /\ \A q \in S : q <= LastIn(S, other)
  <2> DEFINE T == {n - q : q \in S}
  <2>1. T \in SUBSET Nat /\ T # {}
    <3>1. \A q \in S : q \in 0 .. n
      OBVIOUS
    <3>2. \A q \in S : n - q \in Nat
      BY <3>1
    <3> QED BY <1>2, <3>2
  <2>2. PICK x \in T : \A y \in T : x <= y
    <3> HIDE DEF T
    <3>1. First(T, 0) \in T /\ \A y \in T : First(T, 0) <= y
      BY <2>1, FirstIsLeast
    <3> QED BY <3>1
  <2>3. PICK p \in S : x = n - p
    OBVIOUS
  <2>4. ASSUME NEW q \in S PROVE q <= p
    <3>1. n - q \in T
      OBVIOUS
    <3>2. n - p <= n - q
      BY <2>2, <2>3, <3>1
    <3> QED BY <3>2
  <2>5. LastIn(S, other) = CHOOSE r \in S : \A q \in S : q <= r
    BY <1>2 DEF LastIn
  <2>6. \E r \in S : \A q \in S : q <= r
    BY <2>4
  <2> QED BY <2>5, <2>6, Zenon
<1>3. ASSUME NEW p \in S, \A q \in S : q <= p PROVE LastIn(S, other) = p
  <2>1. LastIn(S, other) \in S /\ p <= LastIn(S, other)
    BY <1>2
  <2>2. LastIn(S, other) <= p
    BY <1>3, <2>1
  <2>3. p \in 0 .. n /\ LastIn(S, other) \in 0 .. n
    BY <2>1
  <2> QED BY <2>1, <2>2, <2>3
<1> QED BY <1>1, <1>2, <1>3

(* A part of a text is a text.                                             *)
LEMMA PartOfText ==
    ASSUME NEW C, NEW s \in Seq(C), NEW p \in Nat \ {0}, NEW e \in Nat, e <= Len(s)
    PROVE  /\ SubSeq(s, p, e) \in Seq(C)
           /\ Len(SubSeq(s, p, e)) = IF p <= e THEN e - p + 1 ELSE 0
           /\ \A i \in 1 .. e - p + 1 : SubSeq(s, p, e)[i] = s[p + i - 1]
<1>1. \A i \in p .. e : s[i] \in C
  OBVIOUS
<1> QED BY <1>1, SubSeqProperties

(* A text with blanks around it is the text when it is trimmed.            *)
Around(text, p, part) ==
    /\ p + Len(part) <= Len(text)
    /\ \A k \in 1 .. Len(part) : text[p + k] = part[k]
    /\ \A i \in 1 .. Len(text) : i <= p \/ i > p + Len(part) => text[i] \in Blank

(* Trim() takes the blanks away, and nothing else.                         *)
LEMMA TrimIs ==
    ASSUME NEW C, NEW part \in Seq(C), Tight(part), NEW text \in Seq(C), NEW p \in Nat,
           Around(text, p, part)
    PROVE  Trim(text) = part
<1> DEFINE said == {i \in DOMAIN text : text[i] \notin Blank}
           m == Len(part)
<1>0. m \in Nat /\ Len(text) \in Nat /\ DOMAIN text = 1 .. Len(text)
  OBVIOUS
<1>1. said \in SUBSET (0 .. Len(text)) /\ said \in SUBSET Nat
  BY <1>0
<1>2. Trim(text) = SubSeq(text, First(said, 1), LastIn(said, 0))
  BY DEF Trim
<1>3. CASE m = 0
  <2>1. said = {} /\ part = <<>>
    BY <1>0, <1>3 DEF Around
  <2>2. First(said, 1) = 1 /\ LastIn(said, 0) = 0
    BY <2>1 DEF First, LastIn
  <2>3. SubSeq(text, 1, 0) = <<>>
    BY SubSeqEmpty
  <2> QED BY <1>2, <2>1, <2>2, <2>3
<1>4. CASE m # 0
  <2>1. part[1] \notin Blank /\ part[m] \notin Blank /\ 1 \in 1 .. m /\ m \in 1 .. m
    BY <1>0, <1>4 DEF Tight
  <2>2. /\ p + 1 \in said /\ p + m \in said
    BY <1>0, <2>1 DEF Around
  <2>3. \A i \in said : p + 1 <= i /\ i <= p + m
    BY <1>0 DEF Around
  <2> HIDE DEF said
  <2>4. First(said, 1) = p + 1
    <3>1. \A q \in said : (\A i \in said : q <= i) => First(said, 1) = q
      BY <1>1, FirstIsLeast
    <3> QED BY <2>2, <2>3, <3>1
  <2>5. LastIn(said, 0) = p + m
    <3>1. \A q \in said : (\A i \in said : i <= q) => LastIn(said, 0) = q
      BY <1>0, <1>1, LastIsGreatest
    <3> QED BY <2>2, <2>3, <3>1
  <2>6. SubSeq(text, p + 1, p + m) = part
    <3>1. p + m = (p + 1) + Len(part) - 1
      BY <1>0
    <3>2. \A k \in 1 .. Len(part) : text[(p + 1) - 1 + k] = part[k]
      BY <1>0 DEF Around
    <3> QED BY <1>0, <3>1, <3>2, PartIs
  <2> QED BY <1>2, <2>4, <2>5, <2>6
<1> QED BY <1>3, <1>4

(* What is trimmed of a text is a part of it.                              *)
LEMMA TrimTyped ==
    ASSUME NEW C, NEW text \in Seq(C)
    PROVE  Trim(text) \in Seq(C)
<1> DEFINE said == {i \in DOMAIN text : text[i] \notin Blank}
<1>1. Len(text) \in Nat /\ said \in SUBSET (1 .. Len(text))
  OBVIOUS
<1>2. Trim(text) = SubSeq(text, First(said, 1), LastIn(said, 0))
  BY DEF Trim
<1> HIDE DEF said
<1>3. said \in SUBSET Nat /\ said \in SUBSET (0 .. Len(text))
  BY <1>1
<1>4. First(said, 1) \in Nat \ {0} /\ LastIn(said, 0) \in 0 .. Len(text)
  <2>1. CASE said = {}
    BY <1>1, <2>1 DEF First, LastIn
  <2>2. CASE said # {}
    <3>1. First(said, 1) \in said
      BY <1>3, <2>2, FirstIsLeast
    <3>2. LastIn(said, 0) \in said
      BY <1>1, <1>3, <2>2, LastIsGreatest
    <3>3. \A i \in said : i \in 1 .. Len(text)
      BY <1>1
    <3>4. First(said, 1) \in 1 .. Len(text) /\ LastIn(said, 0) \in 1 .. Len(text)
      BY <3>1, <3>2, <3>3
    <3> QED BY <1>1, <3>4
  <2> QED BY <2>1, <2>2
<1> QED BY <1>2, <1>4, PartOfText

(* A line is no longer than its buffer.                                    *)
LEMMA CutText ==
    ASSUME NEW C, NEW text \in Seq(C), NEW n \in Nat
    PROVE  /\ Cut(text, n) \in Seq(C)
           /\ Len(Cut(text, n)) = IF Len(text) <= n THEN Len(text) ELSE n
           /\ \A i \in 1 .. Len(Cut(text, n)) : Cut(text, n)[i] = text[i]
<1>1. CASE Len(text) <= n
  BY <1>1 DEF Cut
<1>2. CASE ~(Len(text) <= n)
  <2>1. /\ SubSeq(text, 1, n) \in Seq(C)
        /\ Len(SubSeq(text, 1, n)) = IF 1 <= n THEN n - 1 + 1 ELSE 0
        /\ \A i \in 1 .. n - 1 + 1 : SubSeq(text, 1, n)[i] = text[1 + i - 1]
    <3>1. 1 \in Nat \ {0} /\ n <= Len(text)
      BY <1>2
    <3> QED BY <3>1, PartOfText
  <2>2. Cut(text, n) = SubSeq(text, 1, n)
    BY <1>2 DEF Cut
  <2> QED BY <1>2, <2>1, <2>2
<1> QED BY <1>1, <1>2

(* A line makes a setting however blanks lie around the key and the value. *)
Spaced(line, key, value, a, e, b) ==
    /\ a + Len(key) < e /\ e <= b /\ b + Len(value) <= Len(line)
    /\ line[e] = "="
    /\ \A k \in 1 .. Len(key) : line[a + k] = key[k]
    /\ \A k \in 1 .. Len(value) : line[b + k] = value[k]
    /\ \A i \in 1 .. Len(line) :
          \/ i <= a
          \/ a + Len(key) < i /\ i < e
          \/ e < i /\ i <= b
          \/ b + Len(value) < i
          => line[i] \in Blank

(* What config_parse_buffer() reads from such a line.                      *)
LEMMA SettingRead ==
    ASSUME NEW C, Chars \subseteq C, NEW line \in Seq(C), NEW key, Naming(key), NEW value, Settable(value),
           NEW a \in Nat, NEW e \in Nat, NEW b \in Nat, Spaced(line, key, value, a, e, b),
           NEW cfg
    PROVE  ReadLine(cfg, line) = ParseLine(cfg, key, value)
<1> DEFINE kn == Len(key)
           vn == Len(value)
           z == IF vn = 0 THEN e ELSE b + vn
           s == SubSeq(line, a + 1, z)
           equals == {i \in DOMAIN s : s[i] = "="}
           eq == First(equals, 0)
<1>0. /\ key \in Seq(C) /\ value \in Seq(C) /\ Len(line) \in Nat
      /\ kn \in Nat \ {0} /\ vn \in Nat /\ DOMAIN key = 1 .. kn
  <2>1. key \in Seq(Chars) /\ value \in Seq(Chars) /\ key # <<>>
    BY DEF Naming, Settable
  <2>2. key \in Seq(C) /\ value \in Seq(C)
    BY <2>1, SeqMonotonic
  <2> QED BY <2>1, <2>2
<1>1. /\ a + kn < e /\ e <= b /\ b + vn <= Len(line) /\ line[e] = "="
      /\ \A k \in 1 .. kn : line[a + k] = key[k]
      /\ \A k \in 1 .. vn : line[b + k] = value[k]
  BY DEF Spaced
<1>2. \A i \in 1 .. Len(line) :
          i <= a \/ (a + kn < i /\ i < e) \/ (e < i /\ i <= b) \/ b + vn < i
          => line[i] \in Blank
  BY DEF Spaced
<1>3. z \in Nat /\ e <= z /\ z <= Len(line) /\ a < z
  BY <1>0, <1>1
<1>4. /\ s \in Seq(C) /\ Len(s) = z - a /\ Len(s) \in Nat
      /\ \A i \in 1 .. z - a : s[i] = line[a + i]
  <2>1. /\ s \in Seq(C) /\ Len(s) = IF a + 1 <= z THEN z - (a + 1) + 1 ELSE 0
        /\ \A i \in 1 .. z - (a + 1) + 1 : s[i] = line[a + 1 + i - 1]
    <3> HIDE DEF z
    <3> QED BY <1>3, PartOfText
  <2> HIDE DEF z, s
  <2> QED BY <1>3, <2>1
<1>5. key[1] \notin Blank /\ key[kn] \notin Blank /\ key[1] \notin Marks
      /\ \A k \in 1 .. kn : key[k] # "="
  BY <1>0 DEF Naming, Settable, Tight
<1>6. vn # 0 => value[1] \notin Blank /\ value[vn] \notin Blank
  BY <1>0 DEF Settable, Tight
<1>7. Tight(s)
  <2>1. s[1] = key[1]
    BY <1>0, <1>1, <1>3, <1>4
  <2>2. CASE vn = 0
    <3>1. z = e /\ s[z - a] = "="
      BY <1>1, <1>3, <1>4, <2>2
    <3>2. "=" \notin Blank
      BY DEF Blank
    <3> HIDE DEF s, z
    <3> QED BY <1>4, <1>5, <2>1, <3>1, <3>2 DEF Tight
  <2>3. CASE vn # 0
    <3>1. s[z - a] = value[vn]
      BY <1>0, <1>1, <1>3, <1>4, <2>3
    <3> HIDE DEF s, z
    <3> QED BY <1>4, <1>5, <1>6, <2>1, <2>3, <3>1 DEF Tight
  <2> QED BY <2>2, <2>3
<1>8. Trim(line) = s
  <2>1. Around(line, a, s)
    <3>1. \A i \in 1 .. Len(line) : i <= a \/ i > z => line[i] \in Blank
      BY <1>0, <1>1, <1>2, <1>3
    <3> HIDE DEF s, z
    <3> QED BY <1>3, <1>4, <3>1 DEF Around
  <2> HIDE DEF s, z
  <2> QED BY <1>4, <1>7, <2>1, TrimIs
<1>9. eq = e - a /\ equals # {} /\ eq \in Nat
  <2>1. equals \in SUBSET Nat /\ e - a \in equals
    BY <1>0, <1>1, <1>3, <1>4
  <2>2. ASSUME NEW i \in equals PROVE e - a <= i
    <3>0. i \in DOMAIN s /\ s[i] = "="
      OBVIOUS
    <3>1. i \in 1 .. z - a /\ line[a + i] = "="
      <4> HIDE DEF s, z
      <4>1. DOMAIN s = 1 .. Len(s)
        BY <1>4
      <4>2. i \in 1 .. z - a
        BY <1>4, <3>0, <4>1
      <4> QED BY <1>4, <3>0, <4>2
    <3>2. SUFFICES ASSUME i < e - a PROVE FALSE
      BY <1>3, <3>1
    <3>3. CASE i <= kn
      BY <1>0, <1>1, <1>5, <3>1, <3>3
    <3>4. CASE ~(i <= kn)
      <4>1. a + i \in 1 .. Len(line) /\ a + kn < a + i /\ a + i < e
        BY <1>0, <1>1, <1>3, <3>1, <3>2, <3>4
      <4>2. "=" \in Blank
        BY <1>2, <3>1, <4>1
      <4> QED BY <4>2 DEF Blank
    <3> QED BY <3>3, <3>4
  <2> HIDE DEF equals
  <2>3. \A q \in equals : (\A i \in equals : q <= i) => First(equals, 0) = q
    BY <2>1, FirstIsLeast
  <2> QED BY <2>1, <2>2, <2>3
<1>10. s[1] \notin Marks
  BY <1>0, <1>1, <1>3, <1>4, <1>5
<1>11. Trim(SubSeq(s, 1, eq - 1)) = key
  <2> DEFINE t == SubSeq(s, 1, e - a - 1)
  <2>1. /\ t \in Seq(C) /\ Len(t) = e - a - 1
        /\ \A i \in 1 .. e - a - 1 : t[i] = s[i]
    <3>1. e - a - 1 \in Nat /\ e - a - 1 <= Len(s)
      BY <1>0, <1>1, <1>3, <1>4
    <3>2. /\ t \in Seq(C) /\ Len(t) = IF 1 <= e - a - 1 THEN e - a - 1 - 1 + 1 ELSE 0
          /\ \A i \in 1 .. e - a - 1 - 1 + 1 : t[i] = s[1 + i - 1]
      <4> HIDE DEF s
      <4>1. PICK y : y = e - a - 1
        OBVIOUS
      <4>2. y \in Nat /\ y <= Len(s) /\ 1 \in Nat \ {0}
        BY <3>1, <4>1
      <4> HIDE DEF t
      <4>3. t = SubSeq(s, 1, y)
        BY <4>1 DEF t
      <4> QED BY <1>4, <4>1, <4>2, <4>3, PartOfText
    <3> HIDE DEF t, s
    <3> QED BY <3>1, <3>2
  <2>2. Around(t, 0, key)
    <3>1. \A k \in 1 .. kn : t[0 + k] = key[k]
      BY <1>0, <1>1, <1>3, <1>4, <2>1
    <3>2. ASSUME NEW i \in 1 .. Len(t), i <= 0 \/ i > 0 + kn PROVE t[i] \in Blank
      <4>1. i \in Nat /\ kn < i /\ i < e - a
        BY <1>0, <1>1, <1>3, <2>1, <3>2
      <4>2. t[i] = line[a + i]
        <5>1. i \in 1 .. e - a - 1 /\ i \in 1 .. z - a
          BY <1>0, <1>1, <1>3, <2>1, <4>1
        <5> HIDE DEF t, s, z
        <5> QED BY <1>4, <2>1, <5>1
      <4>3. a + i \in 1 .. Len(line) /\ a + kn < a + i /\ a + i < e
        BY <1>0, <1>1, <4>1
      <4> QED BY <1>2, <4>2, <4>3
    <3>3. 0 + kn <= Len(t)
      BY <1>0, <1>1, <2>1
    <3> HIDE DEF t
    <3> QED BY <3>1, <3>2, <3>3 DEF Around
  <2>3. Tight(key)
    BY DEF Naming, Settable
  <2>4. SubSeq(s, 1, eq - 1) = t
    BY <1>9
  <2> HIDE DEF t
  <2>5. Trim(t) = key
    BY <1>0, <2>1, <2>2, <2>3, TrimIs
  <2> QED BY <2>4, <2>5
<1>12. Trim(SubSeq(s, eq + 1, Len(s))) = value
  <2> DEFINE t == SubSeq(s, e - a + 1, z - a)
  <2>1. /\ t \in Seq(C) /\ Len(t) = z - e
        /\ \A i \in 1 .. z - e : t[i] = line[e + i]
    <3>1. PICK p : p = e - a + 1
      OBVIOUS
    <3>2. PICK y : y = z - a
      OBVIOUS
    <3>3. p \in Nat \ {0} /\ y \in Nat /\ y <= Len(s)
      BY <1>0, <1>1, <1>3, <1>4, <3>1, <3>2
    <3>4. t = SubSeq(s, p, y)
      BY <3>1, <3>2
    <3> HIDE DEF t, s, z
    <3>5. /\ t \in Seq(C) /\ Len(t) = IF p <= y THEN y - p + 1 ELSE 0
          /\ \A i \in 1 .. y - p + 1 : t[i] = s[p + i - 1]
      <4>1. /\ SubSeq(s, p, y) \in Seq(C)
            /\ Len(SubSeq(s, p, y)) = IF p <= y THEN y - p + 1 ELSE 0
            /\ \A i \in 1 .. y - p + 1 : SubSeq(s, p, y)[i] = s[p + i - 1]
        <5>1. s \in Seq(C)
          BY <1>4
        <5> QED BY <3>3, <5>1, PartOfText
      <4> QED BY <3>4, <4>1
    <3>6. y - p + 1 = z - e /\ Len(t) = z - e
      BY <1>3, <3>1, <3>2, <3>5
    <3>7. ASSUME NEW i \in 1 .. z - e PROVE t[i] = line[e + i]
      <4>1. t[i] = s[p + i - 1]
        BY <3>5, <3>6
      <4>2. p + i - 1 \in 1 .. z - a /\ a + (p + i - 1) = e + i
        BY <1>1, <1>0, <1>3, <3>1
      <4> QED BY <1>4, <4>1, <4>2
    <3> QED BY <3>5, <3>6, <3>7
  <2>2. \E p \in Nat : Around(t, p, value)
    <3>1. CASE vn = 0
      <4>1. Len(t) = 0
        BY <1>3, <2>1, <3>1
      <4> HIDE DEF t
      <4>2. Around(t, 0, value)
        BY <3>1, <4>1 DEF Around
      <4> QED BY <4>2
    <3>2. CASE vn # 0
      <4>0. z = b + vn /\ b - e \in Nat
        BY <1>1, <3>2
      <4>1. \A k \in 1 .. vn : t[b - e + k] = value[k]
        <5> TAKE k \in 1 .. vn
        <5>1. b - e + k \in 1 .. z - e /\ e + (b - e + k) = b + k
          BY <1>0, <1>1, <1>3, <4>0
        <5> HIDE DEF t, z
        <5> QED BY <1>1, <2>1, <5>1
      <4>2. ASSUME NEW i \in 1 .. Len(t), i <= b - e \/ i > b - e + vn
            PROVE  t[i] \in Blank
        <5>1. i \in 1 .. z - e /\ i <= b - e
          BY <1>0, <1>1, <2>1, <4>0, <4>2
        <5>2. e + i \in 1 .. Len(line) /\ e < e + i /\ e + i <= b
          BY <1>0, <1>1, <5>1
        <5>3. line[e + i] \in Blank
          BY <1>2, <5>2
        <5> HIDE DEF t, z
        <5> QED BY <2>1, <5>1, <5>3
      <4>3. b - e + vn <= Len(t)
        BY <1>0, <1>1, <2>1, <4>0
      <4> HIDE DEF t
      <4>4. Around(t, b - e, value)
        BY <4>1, <4>2, <4>3 DEF Around
      <4> QED BY <4>0, <4>4
    <3> QED BY <3>1, <3>2
  <2>3. Tight(value)
    BY DEF Settable
  <2>4. SubSeq(s, eq + 1, Len(s)) = t
    BY <1>4, <1>9
  <2> HIDE DEF t
  <2>5. Trim(t) = value
    BY <1>0, <2>1, <2>2, <2>3, TrimIs
  <2> QED BY <2>4, <2>5
<1>13. ReadLine(cfg, line) =
          IF equals = {} \/ s[1] \in Marks THEN cfg
          ELSE ParseLine(cfg, Trim(SubSeq(s, 1, eq - 1)), Trim(SubSeq(s, eq + 1, Len(s))))
  <2> HIDE DEF s
  <2> QED BY <1>8 DEF ReadLine
<1> HIDE DEF s, equals, eq
<1> QED BY <1>9, <1>10, <1>11, <1>12, <1>13

(* A line with a mark before everything but blanks is passed over.         *)
LEMMA MarkedRead ==
    ASSUME NEW C, NEW line \in Seq(C), NEW c \in 1 .. Len(line), line[c] \in Marks,
           \A i \in 1 .. c - 1 : line[i] \in Blank, NEW cfg
    PROVE  ReadLine(cfg, line) = cfg
<1> DEFINE said == {i \in DOMAIN line : line[i] \notin Blank}
           z == LastIn(said, 0)
           s == SubSeq(line, c, z)
<1>0. Len(line) \in Nat /\ c \in Nat \ {0} /\ DOMAIN line = 1 .. Len(line)
  OBVIOUS
<1>1. c \in said
  BY <1>0 DEF Marks, Blank
<1>2. said \in SUBSET Nat /\ said \in SUBSET (0 .. Len(line)) /\ \A i \in said : c <= i
  BY <1>0
<1>3. First(said, 1) = c /\ z \in said /\ c <= z
  <2> HIDE DEF said
  <2>1. \A q \in said : (\A i \in said : q <= i) => First(said, 1) = q
    BY <1>2, FirstIsLeast
  <2>2. LastIn(said, 0) \in said
    BY <1>0, <1>1, <1>2, LastIsGreatest
  <2> QED BY <1>1, <1>2, <2>1, <2>2
<1>4. z \in Nat /\ z <= Len(line)
  BY <1>3, <1>0
<1>5. Trim(line) = s
  BY <1>3 DEF Trim
<1>6. s[1] = line[c]
  <2> HIDE DEF z
  <2>1. \A i \in 1 .. z - c + 1 : s[i] = line[c + i - 1]
    BY <1>0, <1>4, PartOfText
  <2> QED BY <1>0, <1>3, <1>4, <2>1
<1> HIDE DEF s
<1> QED BY <1>5, <1>6 DEF ReadLine

(* What a line may consist of.                                             *)
OnLine == Chars \cup {"space", "tab", "return", "=", "#", "[", "]"}

(* What keys and values are, and "x".                                      *)
LEMMA ItemTexts ==
    ASSUME NEW item \in Items
    PROVE  /\ Naming(item.key) /\ Settable(item.value) /\ Len(item.value) <= MaxValue
           /\ item.key \in Seq(OnLine) /\ item.value \in Seq(OnLine)
           /\ Len(item.key) \in Nat \ {0} /\ Len(item.value) \in Nat
           /\ item.value \in Values
           /\ item.as \in {"plain", "blanks", "comment", "heading"}
<1>1. /\ item.key \in Keys \cup {<<"x">>} /\ item.value \in Values
      /\ item.as \in {"plain", "blanks", "comment", "heading"}
  BY DEF Items
<1>2. Naming(<<"x">>)
  <2> DEFINE x == <<"x">>
  <2>1. x \in Seq(Chars) /\ Len(x) = 1 /\ x[1] = "x" /\ DOMAIN x = 1 .. 1 /\ x # <<>>
    BY CharAssumption
  <2>2. x[1] \notin Blank /\ x[1] \notin Marks
    BY <2>1 DEF Blank, Marks
  <2> HIDE DEF x
  <2>3. \A i \in DOMAIN x : x[i] # "="
    <3>1. \A i \in 1 .. 1 : i = 1
      OBVIOUS
    <3> QED BY <2>1, <3>1
  <2>4. Naming(x)
    BY <2>1, <2>2, <2>3 DEF Naming, Settable, Tight
  <2> QED BY <2>4 DEF x
<1>3. Naming(item.key)
  BY <1>1, <1>2, KeyAssumption
<1>4. Settable(item.value) /\ Len(item.value) <= MaxValue
  BY <1>1, ValueAssumption
<1>5. /\ item.key \in Seq(Chars) /\ item.value \in Seq(Chars) /\ item.key # <<>>
      /\ Chars \subseteq OnLine
  BY <1>3, <1>4 DEF Naming, Settable, OnLine
<1>6. item.key \in Seq(OnLine) /\ item.value \in Seq(OnLine)
  BY <1>5, SeqMonotonic
<1>7. Len(item.key) \in Nat /\ Len(item.value) \in Nat /\ Len(item.key) # 0
  BY <1>5
<1> QED BY <1>1, <1>3, <1>4, <1>6, <1>7

(* A text that is made of two.                                             *)
JointOf(w, s, t, C) ==
    /\ w \in Seq(C) /\ Len(w) = Len(s) + Len(t)
    /\ \A k \in 1 .. Len(s) : w[k] = s[k]
    /\ \A k \in 1 .. Len(t) : w[Len(s) + k] = t[k]

(* The concatenation is such a text.                                       *)
LEMMA Joining ==
    ASSUME NEW C, NEW s, s \in Seq(C), NEW t, t \in Seq(C), NEW w, w = s \o t
    PROVE  JointOf(w, s, t, C)
BY Joint DEF JointOf

(* The places of a key and a value with a "=" between them.                *)
LEMMA PlainPlaces ==
    ASSUME NEW C, "=" \in C, NEW key \in Seq(C), NEW value \in Seq(C),
           NEW w, w = key \o <<"=">> \o value
    PROVE  /\ w \in Seq(C) /\ Len(w) = Len(key) + 1 + Len(value)
           /\ \A k \in 1 .. Len(key) : w[k] = key[k]
           /\ w[Len(key) + 1] = "="
           /\ \A k \in 1 .. Len(value) : w[Len(key) + 1 + k] = value[k]
<1> DEFINE mid == <<"=">>
           u == key \o mid
<1>1. mid \in Seq(C) /\ Len(mid) = 1 /\ mid[1] = "="
  OBVIOUS
<1>2. Len(key) \in Nat /\ Len(value) \in Nat
  OBVIOUS
<1> HIDE DEF mid
<1>a. key \in Seq(C) /\ value \in Seq(C)
  OBVIOUS
<1>b. JointOf(u, key, mid, C)
  BY <1>a, <1>1, Joining
<1>3. /\ u \in Seq(C) /\ Len(u) = Len(key) + Len(mid)
      /\ \A k \in 1 .. Len(key) : u[k] = key[k]
      /\ \A k \in 1 .. Len(mid) : u[Len(key) + k] = mid[k]
  BY <1>b DEF JointOf
<1> HIDE DEF u
<1>5. w = u \o value
  BY DEF u, mid
<1>c. JointOf(w, u, value, C)
  BY <1>a, <1>3, <1>5, Joining
<1>4. /\ w \in Seq(C) /\ Len(w) = Len(u) + Len(value)
      /\ \A k \in 1 .. Len(u) : w[k] = u[k]
      /\ \A k \in 1 .. Len(value) : w[Len(u) + k] = value[k]
  BY <1>c DEF JointOf
<1>6. w[Len(key) + 1] = "="
  BY <1>1, <1>2, <1>3, <1>4, <1>5
<1>7. \A k \in 1 .. Len(key) : w[k] = key[k]
  BY <1>1, <1>2, <1>3, <1>4, <1>5
<1> QED BY <1>1, <1>2, <1>3, <1>4, <1>5, <1>6, <1>7

(* The same with blanks.                                                   *)
LEMMA BlanksPlaces ==
    ASSUME NEW C, {"space", "tab", "=", "return"} \subseteq C,
           NEW key \in Seq(C), NEW value \in Seq(C),
           NEW w, w = <<"space">> \o key \o <<"tab", "=", "space">> \o value \o <<"space", "return">>
    PROVE  /\ w \in Seq(C) /\ Len(w) = Len(key) + 6 + Len(value)
           /\ w[1] = "space"
           /\ \A k \in 1 .. Len(key) : w[1 + k] = key[k]
           /\ w[Len(key) + 2] = "tab" /\ w[Len(key) + 3] = "=" /\ w[Len(key) + 4] = "space"
           /\ \A k \in 1 .. Len(value) : w[Len(key) + 4 + k] = value[k]
           /\ w[Len(key) + Len(value) + 5] = "space" /\ w[Len(key) + Len(value) + 6] = "return"
<1> DEFINE b1 == <<"space">>
           b2 == <<"tab", "=", "space">>
           b3 == <<"space", "return">>
           u == b1 \o key
           v == u \o b2
           x == v \o value
<1>0. Len(key) \in Nat /\ Len(value) \in Nat
  OBVIOUS
<1>1. b1 \in Seq(C) /\ Len(b1) = 1 /\ b1[1] = "space"
  OBVIOUS
<1>2. b2 \in Seq(C) /\ Len(b2) = 3 /\ b2[1] = "tab" /\ b2[2] = "=" /\ b2[3] = "space"
  OBVIOUS
<1>3. b3 \in Seq(C) /\ Len(b3) = 2 /\ b3[1] = "space" /\ b3[2] = "return"
  OBVIOUS
<1>a. w = x \o b3 /\ key \in Seq(C) /\ value \in Seq(C)
  OBVIOUS
<1> HIDE DEF b1, b2, b3
<1>4j. JointOf(u, b1, key, C)
  BY <1>a, <1>1, Joining
<1>4. /\ u \in Seq(C) /\ Len(u) = Len(b1) + Len(key)
      /\ \A k \in 1 .. Len(b1) : u[k] = b1[k]
      /\ \A k \in 1 .. Len(key) : u[Len(b1) + k] = key[k]
  BY <1>4j DEF JointOf
<1> HIDE DEF u
<1>5j. JointOf(v, u, b2, C)
  BY <1>2, <1>4, Joining
<1>5. /\ v \in Seq(C) /\ Len(v) = Len(u) + Len(b2)
      /\ \A k \in 1 .. Len(u) : v[k] = u[k]
      /\ \A k \in 1 .. Len(b2) : v[Len(u) + k] = b2[k]
  BY <1>5j DEF JointOf
<1> HIDE DEF v
<1>6j. JointOf(x, v, value, C)
  BY <1>a, <1>5, Joining
<1>6. /\ x \in Seq(C) /\ Len(x) = Len(v) + Len(value)
      /\ \A k \in 1 .. Len(v) : x[k] = v[k]
      /\ \A k \in 1 .. Len(value) : x[Len(v) + k] = value[k]
  BY <1>6j DEF JointOf
<1> HIDE DEF x
<1>7j. JointOf(w, x, b3, C)
  BY <1>3, <1>6, <1>a, Joining
<1>7. /\ w \in Seq(C) /\ Len(w) = Len(x) + Len(b3)
      /\ \A k \in 1 .. Len(x) : w[k] = x[k]
      /\ \A k \in 1 .. Len(b3) : w[Len(x) + k] = b3[k]
  BY <1>7j DEF JointOf
<1>8. /\ Len(u) = Len(key) + 1 /\ Len(v) = Len(key) + 4 /\ Len(x) = Len(key) + 4 + Len(value)
      /\ Len(w) = Len(key) + 6 + Len(value)
  BY <1>0, <1>1, <1>2, <1>3, <1>4, <1>5, <1>6, <1>7
<1>9. w[1] = "space"
  BY <1>0, <1>1, <1>4, <1>5, <1>6, <1>7, <1>8
<1>10. ASSUME NEW k \in 1 .. Len(key) PROVE w[1 + k] = key[k]
  <2>1. /\ 1 + k \in 1 .. Len(u) /\ 1 + k \in 1 .. Len(v) /\ 1 + k \in 1 .. Len(x)
    BY <1>0, <1>8
  <2> QED BY <1>1, <1>4, <1>5, <1>6, <1>7, <2>1
<1>11. w[Len(key) + 2] = "tab" /\ w[Len(key) + 3] = "=" /\ w[Len(key) + 4] = "space"
  <2>1. \A k \in 1 .. 3 : v[Len(key) + 1 + k] = b2[k]
    BY <1>2, <1>5, <1>8
  <2>2. \A k \in 1 .. Len(key) + 4 : w[k] = v[k]
    <3>1. \A k \in 1 .. Len(v) : k \in 1 .. Len(x)
      BY <1>0, <1>8
    <3>2. \A k \in 1 .. Len(v) : w[k] = v[k]
      BY <1>6, <1>7, <3>1
    <3> QED BY <1>8, <3>2
  <2>3. v[Len(key) + 2] = "tab" /\ v[Len(key) + 3] = "=" /\ v[Len(key) + 4] = "space"
    <3>1. v[Len(key) + 1 + 1] = "tab" /\ v[Len(key) + 1 + 2] = "=" /\ v[Len(key) + 1 + 3] = "space"
      BY <1>2, <2>1
    <3>2. Len(key) + 1 + 1 = Len(key) + 2 /\ Len(key) + 1 + 2 = Len(key) + 3
          /\ Len(key) + 1 + 3 = Len(key) + 4
      BY <1>0
    <3> QED BY <3>1, <3>2
  <2> QED BY <1>0, <2>2, <2>3
<1>12. ASSUME NEW k \in 1 .. Len(value) PROVE w[Len(key) + 4 + k] = value[k]
  <2>1. Len(key) + 4 + k \in 1 .. Len(x)
    BY <1>0, <1>8
  <2>2. x[Len(key) + 4 + k] = value[k]
    BY <1>6, <1>8
  <2> QED BY <1>7, <2>1, <2>2
<1>13. w[Len(key) + Len(value) + 5] = "space" /\ w[Len(key) + Len(value) + 6] = "return"
  <2>1. w[Len(x) + 1] = "space" /\ w[Len(x) + 2] = "return"
    BY <1>3, <1>7
  <2>2. Len(x) + 1 = Len(key) + Len(value) + 5 /\ Len(x) + 2 = Len(key) + Len(value) + 6
    BY <1>0, <1>8
  <2> QED BY <2>1, <2>2
<1> QED BY <1>7, <1>8, <1>9, <1>10, <1>11, <1>12, <1>13

(* What the settings are after an item of a file.                          *)
Made(cfg, item) ==
    IF IsSetting(item) /\ item.key \in Keys THEN [cfg EXCEPT ![item.key] = item.value] ELSE cfg

(* What was written for an item is a line.                                 *)
LEMMA ItemWritten ==
    ASSUME NEW item \in Items, NEW w, w = Written(item)
    PROVE  /\ w \in Seq(OnLine) /\ Len(w) \in Nat \ {0}
           /\ item.as = "plain" => Spaced(w, item.key, item.value, 0, Len(item.key) + 1, Len(item.key) + 1)
           /\ item.as = "blanks" => Spaced(w, item.key, item.value, 1, Len(item.key) + 3, Len(item.key) + 4)
           /\ item.as = "comment" => Len(w) >= 2 /\ w[1] \in Blank /\ w[2] \in Marks
           /\ item.as = "heading" => w[1] \in Marks
<1> DEFINE key == item.key
           value == item.value
           setting == key \o <<"=">> \o value
<1>1. /\ key \in Seq(OnLine) /\ value \in Seq(OnLine) /\ Len(key) \in Nat \ {0}
      /\ Len(value) \in Nat /\ item.as \in {"plain", "blanks", "comment", "heading"}
  BY ItemTexts
<1>2. {"space", "tab", "=", "return", "#", "[", "]"} \subseteq OnLine
  BY DEF OnLine
<1>3. Blank = {"space", "tab", "return", "newline"} /\ Marks = {"#", "semicolon", "["}
  BY DEF Blank, Marks
<1> HIDE DEF key, value
<1>4. /\ setting \in Seq(OnLine) /\ Len(setting) = Len(key) + 1 + Len(value)
      /\ \A k \in 1 .. Len(key) : setting[k] = key[k]
      /\ setting[Len(key) + 1] = "="
      /\ \A k \in 1 .. Len(value) : setting[Len(key) + 1 + k] = value[k]
  BY <1>1, <1>2, PlainPlaces
<1>5. CASE item.as = "plain"
  <2>1. w = setting
    BY <1>5 DEF Written, key, value
  <2>2. \A i \in 1 .. Len(w) :
          ~(i <= 0) /\ ~(0 + Len(key) < i /\ i < Len(key) + 1)
          /\ ~(Len(key) + 1 < i /\ i <= Len(key) + 1) /\ ~(Len(key) + 1 + Len(value) < i)
    <3> HIDE DEF setting
    <3> QED BY <1>1, <1>4, <2>1
  <2>3. Spaced(w, key, value, 0, Len(key) + 1, Len(key) + 1)
    <3> HIDE DEF setting
    <3>1. \A k \in 1 .. Len(key) : w[0 + k] = key[k]
      BY <1>1, <1>4, <2>1
    <3> QED BY <1>1, <1>4, <2>1, <2>2, <3>1 DEF Spaced
  <2>4. Len(w) \in Nat \ {0} /\ w \in Seq(OnLine)
    BY <1>1, <1>4, <2>1
  <2> QED BY <1>5, <2>3, <2>4 DEF key, value
<1>6. CASE item.as = "blanks"
  <2>1. w = <<"space">> \o key \o <<"tab", "=", "space">> \o value \o <<"space", "return">>
    BY <1>6 DEF Written, key, value
  <2>2. /\ w \in Seq(OnLine) /\ Len(w) = Len(key) + 6 + Len(value)
        /\ w[1] = "space"
        /\ \A k \in 1 .. Len(key) : w[1 + k] = key[k]
        /\ w[Len(key) + 2] = "tab" /\ w[Len(key) + 3] = "=" /\ w[Len(key) + 4] = "space"
        /\ \A k \in 1 .. Len(value) : w[Len(key) + 4 + k] = value[k]
        /\ w[Len(key) + Len(value) + 5] = "space" /\ w[Len(key) + Len(value) + 6] = "return"
    <3>1. {"space", "tab", "=", "return"} \subseteq OnLine
      BY <1>2
    <3> QED BY <1>1, <2>1, <3>1, BlanksPlaces
  <2>3. ASSUME NEW i \in 1 .. Len(w),
               \/ i <= 1
               \/ 1 + Len(key) < i /\ i < Len(key) + 3
               \/ Len(key) + 3 < i /\ i <= Len(key) + 4
               \/ Len(key) + 4 + Len(value) < i
        PROVE  w[i] \in Blank
    <3>1. \/ i = 1 \/ i = Len(key) + 2 \/ i = Len(key) + 4
          \/ i = Len(key) + Len(value) + 5 \/ i = Len(key) + Len(value) + 6
      <4>1. PICK kn, vn : kn = Len(key) /\ vn = Len(value)
        OBVIOUS
      <4>2. kn \in Nat /\ vn \in Nat /\ i \in 1 .. kn + 6 + vn
        BY <1>1, <2>2, <4>1
      <4>3. \/ i <= 1
            \/ 1 + kn < i /\ i < kn + 3
            \/ kn + 3 < i /\ i <= kn + 4
            \/ kn + 4 + vn < i
        BY <2>3, <4>1
      <4>4. i = 1 \/ i = kn + 2 \/ i = kn + 4 \/ i = kn + vn + 5 \/ i = kn + vn + 6
        BY <4>2, <4>3
      <4> QED BY <4>1, <4>4
    <3>2. w[i] \in {"space", "tab", "return"}
      BY <2>2, <3>1
    <3> QED BY <1>3, <3>2
  <2>4. Spaced(w, key, value, 1, Len(key) + 3, Len(key) + 4)
    <3>1. 1 + Len(key) < Len(key) + 3 /\ Len(key) + 3 <= Len(key) + 4
          /\ Len(key) + 4 + Len(value) <= Len(w)
      BY <1>1, <2>2
    <3> QED BY <2>2, <2>3, <3>1 DEF Spaced
  <2>5. Len(w) \in Nat \ {0}
    BY <1>1, <2>2
  <2> QED BY <1>6, <2>2, <2>4, <2>5 DEF key, value
<1>7. CASE item.as = "comment"
  <2> DEFINE pre == <<"space", "#", "=", "space", "space">>
             u == pre \o setting
  <2>1. pre \in Seq(OnLine) /\ Len(pre) = 5 /\ pre[1] = "space" /\ pre[2] = "#"
    BY <1>2
  <2>2. w = u \o setting
    BY <1>7 DEF Written, key, value
  <2>3. setting \in Seq(OnLine) /\ Len(setting) \in Nat
    BY <1>1, <1>4
  <2> HIDE DEF pre, setting
  <2>4. JointOf(u, pre, setting, OnLine)
    BY <2>1, <2>3, Joining
  <2>5. u \in Seq(OnLine) /\ Len(u) = 5 + Len(setting) /\ u[1] = "space" /\ u[2] = "#"
    BY <2>1, <2>3, <2>4 DEF JointOf
  <2> HIDE DEF u
  <2>6. JointOf(w, u, setting, OnLine)
    BY <2>2, <2>3, <2>5, Joining
  <2>7. /\ w \in Seq(OnLine) /\ Len(w) = 5 + Len(setting) + Len(setting)
        /\ w[1] = "space" /\ w[2] = "#"
    <3>1. 1 \in 1 .. Len(u) /\ 2 \in 1 .. Len(u)
      BY <2>3, <2>5
    <3> QED BY <2>3, <2>5, <2>6, <3>1 DEF JointOf
  <2>8. Len(w) \in Nat \ {0} /\ Len(w) >= 2
    BY <2>3, <2>7
  <2>9. w[1] \in Blank /\ w[2] \in Marks
    BY <1>3, <2>7
  <2> QED BY <1>7, <2>7, <2>8, <2>9
<1>8. CASE item.as = "heading"
  <2> DEFINE pre == <<"[">>
             behind == <<"]">>
             u == pre \o setting
  <2>1. pre \in Seq(OnLine) /\ Len(pre) = 1 /\ pre[1] = "["
    BY <1>2
  <2>2. w = u \o behind
    BY <1>8 DEF Written, key, value
  <2>3. setting \in Seq(OnLine) /\ Len(setting) \in Nat /\ behind \in Seq(OnLine) /\ Len(behind) = 1
    BY <1>1, <1>2, <1>4
  <2> HIDE DEF pre, setting, behind
  <2>4. JointOf(u, pre, setting, OnLine)
    BY <2>1, <2>3, Joining
  <2>5. u \in Seq(OnLine) /\ Len(u) = 1 + Len(setting) /\ u[1] = "["
    BY <2>1, <2>3, <2>4 DEF JointOf
  <2> HIDE DEF u
  <2>6. JointOf(w, u, behind, OnLine)
    BY <2>2, <2>3, <2>5, Joining
  <2>7. /\ w \in Seq(OnLine) /\ Len(w) = 1 + Len(setting) + 1 /\ w[1] = "["
    <3>1. 1 \in 1 .. Len(u)
      BY <2>3, <2>5
    <3> QED BY <2>3, <2>5, <2>6, <3>1 DEF JointOf
  <2>8. Len(w) \in Nat \ {0}
    BY <2>3, <2>7
  <2>9. w[1] \in Marks
    BY <1>3, <2>7
  <2> QED BY <1>8, <2>7, <2>8, <2>9
<1> QED BY <1>1, <1>5, <1>6, <1>7, <1>8

(* A line is read as the item it was written for.                          *)
LEMMA ItemRead ==
    ASSUME NEW item \in Items, IsSetting(item) => Len(Written(item)) <= MaxLine, NEW cfg
    PROVE  ReadLine(cfg, Cut(Written(item), MaxLine)) = Made(cfg, item)
<1> DEFINE w == Written(item)
           line == Cut(w, MaxLine)
<1>1. /\ w \in Seq(OnLine) /\ Len(w) \in Nat \ {0}
      /\ item.as = "plain" => Spaced(w, item.key, item.value, 0, Len(item.key) + 1, Len(item.key) + 1)
      /\ item.as = "blanks" => Spaced(w, item.key, item.value, 1, Len(item.key) + 3, Len(item.key) + 4)
      /\ item.as = "comment" => Len(w) >= 2 /\ w[1] \in Blank /\ w[2] \in Marks
      /\ item.as = "heading" => w[1] \in Marks
  BY ItemWritten
<1>2. /\ Naming(item.key) /\ Settable(item.value) /\ Len(item.value) <= MaxValue
      /\ Len(item.key) \in Nat \ {0}
      /\ item.as \in {"plain", "blanks", "comment", "heading"}
  BY ItemTexts
<1>3. Chars \subseteq OnLine /\ MaxLine \in Nat /\ MaxLine >= 2
  BY BufferAssumption DEF OnLine
<1> HIDE DEF w
<1>4. /\ line \in Seq(OnLine)
      /\ Len(line) = IF Len(w) <= MaxLine THEN Len(w) ELSE MaxLine
      /\ \A i \in 1 .. Len(line) : line[i] = w[i]
  BY <1>1, <1>3, CutText
<1>5. CASE IsSetting(item)
  <2>1. line = w
    <3>1. Len(w) <= MaxLine
      BY <1>5 DEF w
    <3> QED BY <3>1 DEF Cut
  <2> HIDE DEF line
  <2>2. ReadLine(cfg, line) = ParseLine(cfg, item.key, item.value)
    <3>1. CASE item.as = "plain"
      <4>1. 0 \in Nat /\ Len(item.key) + 1 \in Nat
        BY <1>2
      <4> QED BY <1>1, <1>2, <1>3, <1>4, <2>1, <3>1, <4>1, SettingRead
    <3>2. CASE item.as = "blanks"
      <4>1. 1 \in Nat /\ Len(item.key) + 3 \in Nat /\ Len(item.key) + 4 \in Nat
        BY <1>2
      <4> QED BY <1>1, <1>2, <1>3, <1>4, <2>1, <3>2, <4>1, SettingRead
    <3> QED BY <1>5, <3>1, <3>2 DEF IsSetting
  <2>3. Cut(item.value, MaxValue) = item.value
    BY <1>2 DEF Cut
  <2> QED BY <1>5, <2>2, <2>3 DEF ParseLine, Made, line, w
<1>6. CASE ~IsSetting(item)
  <2>1. ReadLine(cfg, line) = cfg
    <3> HIDE DEF line
    <3>1. CASE item.as = "comment"
      <4>1. 2 \in 1 .. Len(line) /\ 1 \in 1 .. Len(line)
        BY <1>1, <1>3, <1>4, <3>1
      <4>2. line[2] \in Marks /\ line[1] \in Blank
        BY <1>1, <1>4, <3>1, <4>1
      <4>3. \A i \in 1 .. 2 - 1 : line[i] \in Blank
        <5>1. \A i \in 1 .. 2 - 1 : i = 1
          OBVIOUS
        <5> QED BY <4>2, <5>1
      <4> QED BY <1>4, <4>1, <4>2, <4>3, MarkedRead
    <3>2. CASE item.as = "heading"
      <4>1. 1 \in 1 .. Len(line)
        BY <1>1, <1>3, <1>4, <3>2
      <4>2. line[1] \in Marks
        BY <1>1, <1>4, <3>2, <4>1
      <4>3. \A i \in 1 .. 1 - 1 : line[i] \in Blank
        OBVIOUS
      <4> QED BY <1>4, <4>1, <4>2, <4>3, MarkedRead
    <3> QED BY <1>2, <1>6, <3>1, <3>2 DEF IsSetting
  <2> QED BY <1>6, <2>1 DEF Made, line, w
<1> QED BY <1>5, <1>6

(* The loop of config_parse_buffer(): where the line at p ends, what it is,  *)
(* and where the next begins.                                              *)
EndOfLine(buf, p) == First({q \in p .. Len(buf) : buf[q] = "newline"}, Len(buf) + 1)
LineAt(buf, p) == Cut(SubSeq(buf, p, EndOfLine(buf, p) - 1), MaxLine)
NextLine(buf, p) ==
    IF EndOfLine(buf, p) <= Len(buf) THEN EndOfLine(buf, p) + 1 ELSE p + Len(LineAt(buf, p))

Parsing(cfg, buf, begin, after) ==
    /\ begin[0] = 1 /\ after[0] = cfg
    /\ \A k \in 1 .. Len(buf) : /\ begin[k] = NextLine(buf, begin[k - 1])
                                /\ after[k] = ReadLine(after[k - 1], LineAt(buf, begin[k - 1]))

(* Settings whose values are texts.                                        *)
Settings(C) == [Keys -> Seq(C) \cup {Default}]

(* A line keeps them so.                                                   *)
LEMMA ReadLineTyped ==
    ASSUME NEW C, NEW cfg \in Settings(C), NEW line \in Seq(C)
    PROVE  ReadLine(cfg, line) \in Settings(C)
<1> DEFINE s == Trim(line)
           equals == {i \in DOMAIN s : s[i] = "="}
           eq == First(equals, 0)
           key == Trim(SubSeq(s, 1, eq - 1))
           value == Trim(SubSeq(s, eq + 1, Len(s)))
<1>1. s \in Seq(C)
  BY TrimTyped
<1>2. ReadLine(cfg, line) = IF equals = {} \/ s[1] \in Marks THEN cfg ELSE ParseLine(cfg, key, value)
  BY DEF ReadLine
<1>3. CASE equals = {} \/ s[1] \in Marks
  <2> HIDE DEF s, equals, key, value
  <2> QED BY <1>2, <1>3
<1>4. CASE ~(equals = {} \/ s[1] \in Marks)
  <2> HIDE DEF s
  <2>1. equals \in SUBSET Nat /\ equals # {} /\ \A i \in equals : i <= Len(s)
    BY <1>1, <1>4
  <2> HIDE DEF equals
  <2>2. eq \in Nat
    <3>1. eq \in equals
      BY <2>1, FirstIsLeast
    <3> QED BY <2>1, <3>1
  <2>3. SubSeq(s, eq + 1, Len(s)) \in Seq(C)
    <3> HIDE DEF eq
    <3>1. eq + 1 \in Nat \ {0} /\ Len(s) \in Nat /\ Len(s) <= Len(s)
      BY <1>1, <2>2
    <3> QED BY <1>1, <3>1, PartOfText
  <2>4. value \in Seq(C)
    BY <2>3, TrimTyped
  <2>5. Cut(value, MaxValue) \in Seq(C)
    <3> HIDE DEF value
    <3> QED BY <2>4, CutText, BufferAssumption
  <2>6. ParseLine(cfg, key, value) \in Settings(C)
    <3> HIDE DEF key, value
    <3> QED BY <2>5 DEF ParseLine, Settings
  <2> HIDE DEF key, value
  <2> QED BY <1>2, <1>4, <2>6
<1> QED BY <1>3, <1>4

(* Where a line lies.                                                      *)
LEMMA LineTyped ==
    ASSUME NEW C, NEW buf \in Seq(C), NEW p \in Nat \ {0}
    PROVE  LineAt(buf, p) \in Seq(C) /\ NextLine(buf, p) \in Nat \ {0}
<1> DEFINE S == {q \in p .. Len(buf) : buf[q] = "newline"}
           e == EndOfLine(buf, p)
<1>1. Len(buf) \in Nat /\ S \in SUBSET Nat /\ \A q \in S : q <= Len(buf) /\ q >= 1
  OBVIOUS
<1>2. e \in Nat \ {0} /\ e <= Len(buf) + 1
  <2>0. e = First(S, Len(buf) + 1)
    BY DEF EndOfLine
  <2> HIDE DEF S, e
  <2>1. CASE S = {}
    BY <1>1, <2>0, <2>1 DEF First
  <2>2. CASE S # {}
    <3>1. e \in S
      BY <1>1, <2>0, <2>2, FirstIsLeast
    <3> QED BY <1>1, <3>1
  <2> QED BY <2>1, <2>2
<1> HIDE DEF e
<1>3. SubSeq(buf, p, e - 1) \in Seq(C)
  <2>1. PICK y : y = e - 1
    OBVIOUS
  <2>2. y \in Nat /\ y <= Len(buf)
    BY <1>1, <1>2, <2>1
  <2>3. SubSeq(buf, p, y) \in Seq(C)
    BY <2>2, PartOfText
  <2> QED BY <2>1, <2>3
<1>4. LineAt(buf, p) = Cut(SubSeq(buf, p, e - 1), MaxLine)
  BY DEF LineAt, e
<1>5. LineAt(buf, p) \in Seq(C)
  <2>1. PICK t : t = SubSeq(buf, p, e - 1)
    OBVIOUS
  <2>2. t \in Seq(C) /\ LineAt(buf, p) = Cut(t, MaxLine) /\ MaxLine \in Nat
    BY <1>3, <1>4, <2>1, BufferAssumption
  <2>3. Cut(t, MaxLine) \in Seq(C)
    BY <2>2, CutText
  <2> QED BY <2>2, <2>3
<1>6. NextLine(buf, p) = IF e <= Len(buf) THEN e + 1 ELSE p + Len(LineAt(buf, p))
  BY DEF NextLine, e
<1>7. Len(LineAt(buf, p)) \in Nat
  BY <1>5
<1> QED BY <1>1, <1>2, <1>5, <1>6, <1>7

(* The loop has these values.                                              *)
LEMMA ParseLoops ==
    ASSUME NEW C, NEW buf \in Seq(C), NEW cfg \in Settings(C)
    PROVE  \E begin, after :
              /\ Parsing(cfg, buf, begin, after)
              /\ ParseBuffer(cfg, buf) = after[Len(buf)]
<1> DEFINE L == Len(buf)
           beginOf(f, k) == IF k = 0 THEN 1 ELSE NextLine(buf, f[k - 1])
           begin == CHOOSE f : f = [k \in 0 .. Len(buf) |-> beginOf(f, k)]
           afterOf(f, k) == IF k = 0 THEN cfg ELSE ReadLine(f[k - 1], LineAt(buf, begin[k - 1]))
           after == CHOOSE f : f = [k \in 0 .. Len(buf) |-> afterOf(f, k)]
           N == Nat \ {0}
           V == Settings(C)
<1>0. L \in Nat
  OBVIOUS
<1>1. begin = [k \in 0 .. L |-> beginOf(begin, k)] /\ begin \in [0 .. L -> N]
  <2> HIDE DEF begin, after
  <2> DEFINE step == [i \in 1 .. L |-> [x \in N |-> NextLine(buf, x)]]
  <2>1. step \in [1 .. L -> [N -> N]]
    BY LineTyped
  <2>2. \A i \in 1 .. L, x \in N : step[i][x] = NextLine(buf, x)
    OBVIOUS
  <2>3. LoopOf(L, N, 1, step)
    <3> HIDE DEF step
    <3> QED BY <1>0, <2>1 DEF LoopOf
  <2> HIDE DEF step, L, beginOf, afterOf, N
  <2>4. PICK g : ValuesOf(g, L, N, 1, step)
    BY <2>3, LoopHasValues
  <2>5. g \in [0 .. L -> N] /\ g[0] = 1 /\ \A i \in 1 .. L : g[i] = step[i][g[i - 1]]
    BY <2>4 DEF ValuesOf
  <2>6. ASSUME NEW i \in 0 .. L PROVE g[i] = beginOf(g, i)
    <3>1. CASE i = 0
      BY <2>5, <3>1 DEF beginOf
    <3>2. CASE i # 0
      <4>1. i \in 1 .. L /\ i - 1 \in 0 .. L /\ g[i - 1] \in N
        BY <1>0, <2>5, <3>2
      <4>2. g[i] = NextLine(buf, g[i - 1])
        BY <2>2, <2>5, <4>1
      <4> QED BY <3>2, <4>2 DEF beginOf
    <3> QED BY <3>1, <3>2
  <2>7. g = [i \in 0 .. L |-> beginOf(g, i)]
    BY <2>5, <2>6
  <2>8. begin = [k \in 0 .. L |-> beginOf(begin, k)]
    BY <2>7, Zenon DEF L, begin
  <2>9. DOMAIN begin = 0 .. L /\ \A i \in 0 .. L : begin[i] = beginOf(begin, i)
    BY <2>8, Zenon
  <2>10. begin = g
    <3> DEFINE S == {m \in Nat : m \in 0 .. L => begin[m] = g[m]}
    <3>1. 0 \in S
      BY <1>0, <2>5, <2>9 DEF beginOf
    <3>2. ASSUME NEW m \in Nat, m \in S PROVE m + 1 \in S
      <4>1. SUFFICES ASSUME m + 1 \in 0 .. L PROVE begin[m + 1] = g[m + 1]
        OBVIOUS
      <4>2. m \in 0 .. L /\ (m + 1) - 1 = m /\ m + 1 # 0
        BY <1>0, <4>1
      <4>3. begin[m] = g[m]
        BY <3>2, <4>2
      <4>4. begin[m + 1] = NextLine(buf, begin[m])
        BY <2>9, <4>1, <4>2 DEF beginOf
      <4>5. g[m + 1] = NextLine(buf, g[m])
        BY <2>6, <4>1, <4>2 DEF beginOf
      <4> QED BY <4>3, <4>4, <4>5
    <3>3. Nat \subseteq S
      <4> HIDE DEF S
      <4> QED BY <3>1, <3>2, NatsInSet
    <3>4. \A m \in 0 .. L : begin[m] = g[m]
      BY <1>0, <3>3
    <3>5. begin = [i \in 0 .. L |-> begin[i]] /\ g = [i \in 0 .. L |-> g[i]]
      BY <2>5, <2>8, Zenon
    <3> QED BY <3>4, <3>5
  <2> QED BY <2>5, <2>8, <2>10
<1>2. after = [k \in 0 .. L |-> afterOf(after, k)]
  <2> HIDE DEF begin, after
  <2> DEFINE line(i) == LineAt(buf, begin[i - 1])
             step == [i \in 1 .. L |-> [x \in V |-> ReadLine(x, line(i))]]
  <2>1. step \in [1 .. L -> [V -> V]]
    <3>1. ASSUME NEW i \in 1 .. L PROVE line(i) \in Seq(C)
      <4>1. i - 1 \in 0 .. L
        BY <1>0
      <4>2. begin[i - 1] \in N
        BY <1>1, <4>1
      <4> QED BY <4>2, LineTyped
    <3> HIDE DEF line
    <3>2. \A i \in 1 .. L, x \in V : ReadLine(x, line(i)) \in V
      BY <3>1, ReadLineTyped
    <3> HIDE DEF V
    <3> QED BY <3>2
  <2> HIDE DEF line
  <2>2. \A i \in 1 .. L, x \in V : step[i][x] = ReadLine(x, line(i))
    OBVIOUS
  <2>3. LoopOf(L, V, cfg, step)
    <3> HIDE DEF step
    <3> QED BY <1>0, <2>1 DEF LoopOf
  <2> HIDE DEF step, L, beginOf, afterOf, V
  <2>4. PICK g : ValuesOf(g, L, V, cfg, step)
    BY <2>3, LoopHasValues
  <2>5. g \in [0 .. L -> V] /\ g[0] = cfg /\ \A i \in 1 .. L : g[i] = step[i][g[i - 1]]
    BY <2>4 DEF ValuesOf
  <2>6. ASSUME NEW i \in 0 .. L PROVE g[i] = afterOf(g, i)
    <3>1. CASE i = 0
      BY <2>5, <3>1 DEF afterOf
    <3>2. CASE i # 0
      <4>1. i \in 1 .. L /\ i - 1 \in 0 .. L /\ g[i - 1] \in V
        BY <1>0, <2>5, <3>2
      <4>2. g[i] = ReadLine(g[i - 1], line(i))
        BY <2>2, <2>5, <4>1
      <4> QED BY <3>2, <4>2 DEF afterOf, line
    <3> QED BY <3>1, <3>2
  <2>7. g = [i \in 0 .. L |-> afterOf(g, i)]
    BY <2>5, <2>6
  <2> QED BY <2>7, Zenon DEF L, after
<1>3. ParseBuffer(cfg, buf) = after[L]
  BY DEF ParseBuffer, NextLine, LineAt, EndOfLine
<1>4. Parsing(cfg, buf, begin, after)
  <2> HIDE DEF begin, after
  <2>1. begin[0] = 1 /\ after[0] = cfg
    <3>1. 0 \in 0 .. L
      BY <1>0
    <3>2. begin[0] = beginOf(begin, 0) /\ after[0] = afterOf(after, 0)
      <4> HIDE DEF beginOf, afterOf
      <4> QED BY <1>1, <1>2, <3>1, Zenon
    <3> QED BY <3>2
  <2>2. ASSUME NEW k \in 1 .. L
        PROVE  /\ begin[k] = NextLine(buf, begin[k - 1])
               /\ after[k] = ReadLine(after[k - 1], LineAt(buf, begin[k - 1]))
    <3>1. k \in 0 .. L /\ k # 0
      BY <1>0
    <3>2. begin[k] = beginOf(begin, k) /\ after[k] = afterOf(after, k)
      <4> HIDE DEF beginOf, afterOf
      <4> QED BY <1>1, <1>2, <3>1, Zenon
    <3> QED BY <3>1, <3>2
  <2> QED BY <2>1, <2>2 DEF Parsing
<1> HIDE DEF begin, after
<1> QED BY <1>3, <1>4

(* What a file is made of.                                                 *)
InFile == OnLine \cup {"newline"}
Mark(items, ended, i) == IF ended \/ i < Len(items) THEN <<"newline">> ELSE <<>>
Lines(items, ended) == [i \in DOMAIN items |-> Written(items[i]) \o Mark(items, ended, i)]

(* A line has no newline but at its end, and is not empty.                 *)
LEMMA LinesTyped ==
    ASSUME NEW items \in Seq(Items), NEW ended \in BOOLEAN, NEW i \in 1 .. Len(items),
           NEW w, w = Written(items[i])
    PROVE  /\ items[i] \in Items /\ w \in Seq(OnLine) /\ Len(w) \in Nat \ {0}
           /\ \A j \in 1 .. Len(w) : w[j] # "newline"
           /\ Lines(items, ended)[i] \in Seq(InFile)
           /\ Len(Lines(items, ended)[i]) = Len(w) + Len(Mark(items, ended, i))
           /\ \A k \in 1 .. Len(w) : Lines(items, ended)[i][k] = w[k]
           /\ \A k \in 1 .. Len(Mark(items, ended, i)) :
                 Lines(items, ended)[i][Len(w) + k] = Mark(items, ended, i)[k]
<1>1. items[i] \in Items
  OBVIOUS
<1>2. w \in Seq(OnLine) /\ Len(w) \in Nat \ {0}
  <2>1. PICK item \in Items : item = items[i]
    BY <1>1
  <2> QED BY <2>1, ItemWritten
<1>3. "newline" \notin OnLine
  BY CharAssumption DEF OnLine
<1>4. \A j \in 1 .. Len(w) : w[j] # "newline"
  <2>1. \A j \in 1 .. Len(w) : w[j] \in OnLine
    BY <1>2
  <2> QED BY <1>3, <2>1
<1>5. w \in Seq(InFile) /\ Mark(items, ended, i) \in Seq(InFile)
  <2>1. OnLine \subseteq InFile /\ "newline" \in InFile
    BY DEF InFile
  <2>2. w \in Seq(InFile)
    BY <1>2, <2>1, SeqMonotonic
  <2>3. <<"newline">> \in Seq(InFile) /\ <<>> \in Seq(InFile)
    BY <2>1
  <2> QED BY <2>2, <2>3 DEF Mark
<1>6. Lines(items, ended)[i] = w \o Mark(items, ended, i)
  <2>1. i \in DOMAIN items
    OBVIOUS
  <2> QED BY <2>1 DEF Lines
<1>7. PICK m, s : m = Mark(items, ended, i) /\ s = Lines(items, ended)[i]
  OBVIOUS
<1>8. JointOf(s, w, m, InFile)
  <2>1. w \in Seq(InFile) /\ m \in Seq(InFile) /\ s = w \o m
    BY <1>5, <1>6, <1>7
  <2> QED BY <2>1, Joining
<1>9. /\ s \in Seq(InFile) /\ Len(s) = Len(w) + Len(m)
      /\ \A k \in 1 .. Len(w) : s[k] = w[k]
      /\ \A k \in 1 .. Len(m) : s[Len(w) + k] = m[k]
  BY <1>8 DEF JointOf
<1> QED BY <1>1, <1>2, <1>4, <1>7, <1>9

(* Where the lines of a file lie.                                          *)
Laid(buf, items, ended, off) ==
    buf \in Seq(InFile) /\ PiecesOf(buf, Lines(items, ended), Len(items), off)

(* The lines lie in the file one behind the other.                         *)
LEMMA FileLaid ==
    ASSUME NEW items \in Seq(Items), NEW ended \in BOOLEAN
    PROVE  \E off : Laid(FileOf(items, ended), items, ended, off)
<1>1. FileOf(items, ended) = Seqs!FlattenSeq(Lines(items, ended))
  BY DEF FileOf, Lines, Mark
<1>2. Lines(items, ended) \in Seq(Seq(InFile)) /\ Len(Lines(items, ended)) = Len(items)
  <2>1. \A i \in 1 .. Len(items) : Lines(items, ended)[i] \in Seq(InFile)
    BY LinesTyped
  <2>2. DOMAIN items = 1 .. Len(items) /\ Len(items) \in Nat
    OBVIOUS
  <2>3. Lines(items, ended) = [i \in 1 .. Len(items) |-> Lines(items, ended)[i]]
    BY <2>2 DEF Lines
  <2>4. PICK f : f = Lines(items, ended)
    OBVIOUS
  <2>5. PICK n \in Nat : n = Len(items)
    BY <2>2
  <2>6. f = [i \in 1 .. n |-> f[i]] /\ \A i \in 1 .. n : f[i] \in Seq(InFile)
    BY <2>1, <2>3, <2>4, <2>5
  <2>7. f \in Seq(Seq(InFile)) /\ Len(f) = n
    <3>1. f \in [1 .. n -> Seq(InFile)]
      BY <2>6
    <3> QED BY <3>1
  <2> QED BY <2>4, <2>5, <2>7
<1>3. PICK f : f = Lines(items, ended)
  OBVIOUS
<1>4. /\ Seqs!FlattenSeq(f) \in Seq(InFile)
      /\ \E off : PiecesOf(Seqs!FlattenSeq(f), f, Len(f), off)
  BY <1>2, <1>3, Flattened
<1> QED BY <1>1, <1>2, <1>3, <1>4 DEF Laid

(* The loop sees each of the lines, and then the next.                     *)
LEMMA LineSeen ==
    ASSUME NEW items \in Seq(Items), NEW ended \in BOOLEAN, WellFormed(items, ended),
           NEW buf, NEW off, Laid(buf, items, ended, off), NEW i \in 1 .. Len(items)
    PROVE  /\ off[i - 1] \in Nat /\ off[i] \in Nat /\ off[i - 1] < off[i] /\ off[i] <= Len(buf)
           /\ LineAt(buf, off[i - 1] + 1) = Cut(Written(items[i]), MaxLine)
           /\ NextLine(buf, off[i - 1] + 1) = off[i] + 1
<1> DEFINE w == Written(items[i])
           n == Len(items)
           m == Mark(items, ended, i)
           s == Lines(items, ended)[i]
           p == off[i - 1] + 1
           e == p + Len(w)
<1>1. /\ w \in Seq(OnLine) /\ Len(w) \in Nat \ {0}
      /\ \A j \in 1 .. Len(w) : w[j] # "newline"
      /\ Len(s) = Len(w) + Len(m)
      /\ \A k \in 1 .. Len(w) : s[k] = w[k]
      /\ \A k \in 1 .. Len(m) : s[Len(w) + k] = m[k]
  BY LinesTyped
<1>2. n \in Nat /\ i \in 1 .. n /\ i - 1 \in 0 .. n /\ i \in 0 .. n
  OBVIOUS
<1>3. /\ buf \in Seq(InFile) /\ Len(buf) \in Nat
      /\ off \in [0 .. n -> Nat] /\ off[n] = Len(buf)
      /\ off[i] = off[i - 1] + Len(s)
      /\ \A k \in 1 .. Len(s) : off[i - 1] + k \in 1 .. Len(buf) /\ buf[off[i - 1] + k] = s[k]
  <2>1. PICK d : d = Lines(items, ended)
    OBVIOUS
  <2>2. buf \in Seq(InFile) /\ PiecesOf(buf, d, n, off)
    BY <2>1 DEF Laid
  <2> HIDE DEF n
  <2>3. /\ off \in [0 .. n -> Nat] /\ off[n] = Len(buf)
        /\ off[i] = off[i - 1] + Len(d[i])
        /\ \A k \in 1 .. Len(d[i]) :
              off[i - 1] + k \in 1 .. Len(buf) /\ buf[off[i - 1] + k] = d[i][k]
    BY <1>2, <2>2 DEF PiecesOf
  <2>4. Len(buf) \in Nat
    BY <2>2
  <2> QED BY <2>1, <2>2, <2>3, <2>4
<1>4. off[i - 1] \in Nat /\ off[i] \in Nat
  BY <1>2, <1>3
<1> HIDE DEF w, s
<1>5. Len(m) \in {0, 1} /\ (Len(m) = 1 => m[1] = "newline") /\ (Len(m) = 0 => i = n /\ ~ended)
  BY <1>2 DEF Mark
<1> HIDE DEF m, n
<1>6. off[i - 1] < off[i] /\ off[i] <= Len(buf)
  <2>1. Len(s) \in Nat \ {0} /\ Len(s) \in 1 .. Len(s)
    BY <1>1, <1>5
  <2>2. off[i - 1] + Len(s) \in 1 .. Len(buf)
    BY <1>3, <2>1
  <2> QED BY <1>3, <1>4, <2>1, <2>2
<1>a. PICK o, lw : o = off[i - 1] /\ lw = Len(w)
  OBVIOUS
<1>b. o \in Nat /\ lw \in Nat /\ p = o + 1 /\ e = o + 1 + lw
  BY <1>1, <1>4, <1>a
<1>7. \A k \in 1 .. Len(w) : off[i - 1] + k \in 1 .. Len(buf) /\ buf[off[i - 1] + k] = w[k]
  <2> TAKE k \in 1 .. Len(w)
  <2>1. k \in 1 .. Len(s)
    BY <1>1, <1>5
  <2> QED BY <1>1, <1>3, <2>1
<1>c. ASSUME Len(m) = 0 PROVE e = Len(buf) + 1 /\ e = off[i] + 1
  <2>1. off[i] = o + lw /\ off[i] = Len(buf)
    BY <1>1, <1>3, <1>5, <1>a, <1>b, <1>c
  <2> QED BY <1>b, <2>1
<1>8. EndOfLine(buf, p) = e /\ e \in Nat
  <2>1. Unmarked(buf, "newline", p, e)
    <3>1. ASSUME NEW q \in p .. e - 1 PROVE buf[q] # "newline"
      <4>1. q - o \in 1 .. lw /\ o + (q - o) = q
        BY <1>b
      <4>2. w[q - o] # "newline" /\ buf[o + (q - o)] = w[q - o]
        BY <1>1, <1>7, <1>a, <4>1
      <4> QED BY <4>1, <4>2
    <3> QED BY <3>1 DEF Unmarked
  <2>2. e = Len(buf) + 1 \/ (e <= Len(buf) /\ buf[e] = "newline")
    <3>1. CASE Len(m) = 0
      BY <1>c, <3>1
    <3>2. CASE Len(m) = 1
      <4>1. Len(w) + 1 \in 1 .. Len(s) /\ s[Len(w) + 1] = "newline"
        BY <1>1, <1>5, <3>2
      <4>2. off[i - 1] + (Len(w) + 1) \in 1 .. Len(buf) /\ buf[off[i - 1] + (Len(w) + 1)] = "newline"
        BY <1>3, <4>1
      <4>3. off[i - 1] + (Len(w) + 1) = e
        <5>1. o + (lw + 1) = o + 1 + lw
          BY <1>b
        <5> QED BY <1>a, <1>b, <5>1
      <4> QED BY <1>3, <4>2, <4>3
    <3> QED BY <1>5, <3>1, <3>2
  <2>3. p \in Nat /\ e \in Nat /\ p <= e
    BY <1>1, <1>4
  <2>4. PICK x, y : x = p /\ y = e
    OBVIOUS
  <2> HIDE DEF p, e
  <2>5. First({q \in x .. Len(buf) : buf[q] = "newline"}, Len(buf) + 1) = y
    <3>1. x \in Nat /\ y \in Nat /\ x <= y /\ Unmarked(buf, "newline", x, y)
      BY <2>1, <2>3, <2>4
    <3>2. y = Len(buf) + 1 \/ (y <= Len(buf) /\ buf[y] = "newline")
      BY <2>2, <2>4
    <3>3. PICK mark : mark = "newline"
      OBVIOUS
    <3>4. First({q \in x .. Len(buf) : buf[q] = mark}, Len(buf) + 1) = y
      BY <1>3, <3>1, <3>2, <3>3, FirstMark
    <3> QED BY <3>3, <3>4
  <2> QED BY <2>3, <2>4, <2>5 DEF EndOfLine
<1>9. SubSeq(buf, p, e - 1) = w
  <2>1. PICK x, y : x = p /\ y = e - 1
    OBVIOUS
  <2>2. x \in Nat /\ y \in Int /\ y = x + Len(w) - 1
    <3> HIDE DEF p, e
    <3>1. x = o + 1 /\ y = o + 1 + lw - 1
      BY <1>b, <2>1
    <3>2. x \in Nat /\ y \in Int /\ y = x + lw - 1
      BY <1>b, <3>1
    <3> QED BY <1>a, <3>2
  <2>3. \A k \in 1 .. Len(w) : buf[x - 1 + k] = w[k]
    <3>1. x - 1 = off[i - 1]
      BY <1>4, <2>1
    <3> QED BY <1>7, <3>1
  <2>4. SubSeq(buf, x, y) = w
    BY <1>1, <2>2, <2>3, PartIs
  <2> QED BY <2>1, <2>4
<1>10. LineAt(buf, p) = Cut(w, MaxLine)
  BY <1>8, <1>9 DEF LineAt
<1>11. NextLine(buf, p) = off[i] + 1
  <2>1. CASE Len(m) = 1
    <3>1. e <= Len(buf) /\ e + 1 = off[i] + 1
      <4>1. off[i] = o + (lw + 1)
        BY <1>1, <1>3, <1>a, <2>1
      <4>2. off[i] = e
        BY <1>b, <4>1
      <4> QED BY <1>6, <4>2
    <3> HIDE DEF p, e
    <3> QED BY <1>8, <3>1 DEF NextLine
  <2>2. CASE Len(m) = 0
    <3>1. i = n /\ ~ended
      BY <1>5, <2>2
    <3>2. e = Len(buf) + 1 /\ ~(e <= Len(buf)) /\ e = off[i] + 1
      BY <1>3, <1>c, <2>2
    <3>3. Len(w) <= MaxLine
      <4>1. items # <<>>
        BY <1>2 DEF n
      <4> QED BY <3>1, <4>1 DEF WellFormed, n, w
    <3>4. Len(LineAt(buf, p)) = Len(w)
      BY <1>10, <3>3 DEF Cut
    <3> HIDE DEF p
    <3>5. NextLine(buf, p) = p + Len(w)
      BY <1>8, <3>2, <3>4 DEF NextLine
    <3> QED BY <3>2, <3>5
  <2> QED BY <1>5, <2>1, <2>2
<1> QED BY <1>4, <1>6, <1>10, <1>11 DEF w

(* What the settings are after the first m items of a file.                *)
SetBy(items, m, k) == {i \in 1 .. m : IsSetting(items[i]) /\ items[i].key = k}
UpTo(items, m, cfg) ==
    [k \in Keys |-> IF SetBy(items, m, k) = {} THEN cfg[k]
                    ELSE items[LastIn(SetBy(items, m, k), 0)].value]

(* One more item makes its setting, or nothing.                            *)
LEMMA NextMade ==
    ASSUME NEW items \in Seq(Items), NEW cfg, NEW m \in Nat, m + 1 \in 1 .. Len(items)
    PROVE  UpTo(items, m + 1, cfg) = Made(UpTo(items, m, cfg), items[m + 1])
<1> DEFINE item == items[m + 1]
<1>1. ASSUME NEW k \in Keys
      PROVE  UpTo(items, m + 1, cfg)[k] =
                IF IsSetting(item) /\ item.key = k THEN item.value ELSE UpTo(items, m, cfg)[k]
  <2> DEFINE S == SetBy(items, m, k)
             T == SetBy(items, m + 1, k)
  <2>1. /\ UpTo(items, m, cfg)[k] = IF S = {} THEN cfg[k] ELSE items[LastIn(S, 0)].value
        /\ UpTo(items, m + 1, cfg)[k] = IF T = {} THEN cfg[k] ELSE items[LastIn(T, 0)].value
    BY DEF UpTo
  <2>2. CASE IsSetting(item) /\ item.key = k
    <3>1. m + 1 \in T /\ T \in SUBSET (0 .. m + 1) /\ m + 1 \in Nat /\ \A q \in T : q <= m + 1
      BY <2>2 DEF SetBy
    <3> HIDE DEF T, S
    <3>2. LastIn(T, 0) = m + 1
      <4>1. PICK n : n = m + 1
        OBVIOUS
      <4>2. n \in Nat /\ T \in SUBSET (0 .. n) /\ n \in T /\ \A q \in T : q <= n
        BY <3>1, <4>1
      <4>3. LastIn(T, 0) = n
        BY <4>2, LastIsGreatest
      <4> QED BY <4>1, <4>3
    <3> QED BY <2>1, <2>2, <3>1, <3>2
  <2>3. CASE ~(IsSetting(item) /\ item.key = k)
    <3>1. \A i \in 1 .. m + 1 : i \in 1 .. m \/ i = m + 1
      OBVIOUS
    <3>2. \A i \in 1 .. m : i \in 1 .. m + 1
      OBVIOUS
    <3>3. S = T
      BY <2>3, <3>1, <3>2 DEF SetBy
    <3> HIDE DEF S, T
    <3> QED BY <2>1, <2>3, <3>3
  <2> QED BY <2>2, <2>3
<1>2. UpTo(items, m + 1, cfg) = [k \in Keys |-> UpTo(items, m + 1, cfg)[k]]
      /\ UpTo(items, m, cfg) = [k \in Keys |-> UpTo(items, m, cfg)[k]]
  BY DEF UpTo
<1> HIDE DEF item
<1>3. PICK f, g : f = UpTo(items, m + 1, cfg) /\ g = UpTo(items, m, cfg)
  OBVIOUS
<1>4. /\ f = [k \in Keys |-> f[k]] /\ g = [k \in Keys |-> g[k]]
      /\ \A k \in Keys : f[k] = IF IsSetting(item) /\ item.key = k THEN item.value ELSE g[k]
  BY <1>1, <1>2, <1>3
<1>5. f = Made(g, item)
  <2>1. CASE IsSetting(item) /\ item.key \in Keys
    <3>1. DOMAIN g = Keys /\ DOMAIN f = Keys
      BY <1>4
    <3>2. Made(g, item) = [k \in Keys |-> IF k = item.key THEN item.value ELSE g[k]]
      <4>1. Made(g, item) = [g EXCEPT ![item.key] = item.value]
        BY <2>1 DEF Made
      <4> QED BY <3>1, <4>1
    <3>3. \A k \in Keys : f[k] = IF k = item.key THEN item.value ELSE g[k]
      BY <1>4, <2>1
    <3> QED BY <1>4, <3>2, <3>3
  <2>2. CASE ~(IsSetting(item) /\ item.key \in Keys)
    <3>1. \A k \in Keys : f[k] = g[k]
      BY <1>4, <2>2
    <3>2. f = g
      BY <1>4, <3>1
    <3> QED BY <2>2, <3>2 DEF Made
  <2> QED BY <2>1, <2>2
<1> QED BY <1>3, <1>5 DEF item

(* Before the first, and after the last.                                   *)
LEMMA AllMade ==
    ASSUME NEW items \in Seq(Items), NEW cfg
    PROVE  /\ cfg = [k \in Keys |-> cfg[k]] => UpTo(items, 0, cfg) = cfg
           /\ UpTo(items, Len(items), cfg) = [k \in Keys |-> LastOf(items, k, cfg[k])]
<1>1. UpTo(items, 0, cfg) = [k \in Keys |-> cfg[k]]
  <2>1. \A k \in Keys : SetBy(items, 0, k) = {}
    BY DEF SetBy
  <2> QED BY <2>1 DEF UpTo
<1>2. \A k \in Keys :
         SetBy(items, Len(items), k) = {i \in DOMAIN items : IsSetting(items[i]) /\ items[i].key = k}
  BY DEF SetBy
<1>3. \A k \in Keys : LastOf(items, k, cfg[k]) =
         IF SetBy(items, Len(items), k) = {} THEN cfg[k]
         ELSE items[LastIn(SetBy(items, Len(items), k), 0)].value
  BY <1>2 DEF LastOf
<1>4. UpTo(items, Len(items), cfg) = [k \in Keys |-> LastOf(items, k, cfg[k])]
  BY <1>3 DEF UpTo
<1> QED BY <1>1, <1>4

(* At the end of a file there is no line.                                  *)
LEMMA NothingRead ==
    ASSUME NEW C, NEW buf \in Seq(C), NEW cfg
    PROVE  /\ NextLine(buf, Len(buf) + 1) = Len(buf) + 1
           /\ ReadLine(cfg, LineAt(buf, Len(buf) + 1)) = cfg
<1>1. Len(buf) \in Nat
  OBVIOUS
<1>2. PICK L, p : L = Len(buf) /\ p = Len(buf) + 1
  OBVIOUS
<1>3. L \in Nat /\ p \in Nat /\ p = L + 1
  BY <1>1, <1>2
<1>4. EndOfLine(buf, p) = p
  <2>1. {q \in p .. Len(buf) : buf[q] = "newline"} = {}
    BY <1>2, <1>3
  <2> QED BY <1>2, <2>1 DEF EndOfLine, First
<1>5. LineAt(buf, p) = <<>>
  <2>1. SubSeq(buf, p, p - 1) = <<>>
    BY <1>3, SubSeqEmpty
  <2>2. Cut(<<>>, MaxLine) = <<>>
    <3>1. Len(<<>>) = 0 /\ Len(<<>>) <= MaxLine
      BY BufferAssumption
    <3> QED BY <3>1 DEF Cut
  <2> QED BY <1>4, <2>1, <2>2 DEF LineAt
<1>6. NextLine(buf, p) = p
  <2>1. ~(p <= Len(buf)) /\ p + Len(<<>>) = p
    BY <1>2, <1>3
  <2> QED BY <1>4, <1>5, <2>1 DEF NextLine
<1>7. ReadLine(cfg, <<>>) = cfg
  <2> DEFINE nothing == <<>>
  <2>1. nothing \in Seq(C) /\ DOMAIN nothing = {} /\ Len(nothing) = 0
    OBVIOUS
  <2>2. Trim(nothing) = nothing
    <3>1. Tight(nothing) /\ Around(nothing, 0, nothing)
      BY DEF Tight, Around
    <3> HIDE DEF nothing
    <3>2. 0 \in Nat
      OBVIOUS
    <3> QED BY <2>1, <3>1, <3>2, TrimIs
  <2> HIDE DEF nothing
  <2>3. {i \in DOMAIN Trim(nothing) : Trim(nothing)[i] = "="} = {}
    BY <2>1, <2>2
  <2>4. ReadLine(cfg, nothing) = cfg
    BY <2>3 DEF ReadLine
  <2> QED BY <2>4 DEF nothing
<1> QED BY <1>2, <1>5, <1>6, <1>7

(* Values are texts.                                                       *)
LEMMA ValuesTyped == [Keys -> Values \cup {Default}] \subseteq Settings(InFile)
<1>1. Chars \subseteq InFile
  BY DEF InFile, OnLine
<1>2. \A v \in Values : v \in Seq(Chars)
  BY ValueAssumption DEF Settable
<1>3. \A v \in Values : v \in Seq(InFile)
  <2> TAKE v \in Values
  <2>1. v \in Seq(Chars)
    BY <1>2
  <2> QED BY <1>1, <2>1, SeqMonotonic
<1> QED BY <1>3 DEF Settings

(* config_parse_buffer() (src/config.c:37-79): whatever a file of settings,  *)
(* comments and headings is, and however it is laid out, it leaves each    *)
(* setting with the value of the last line that makes it, and the others   *)
(* as they were.                                                           *)
THEOREM FileParsed ==
    ASSUME NEW items \in Seq(Items), NEW ended \in BOOLEAN, WellFormed(items, ended),
           NEW cfg \in [Keys -> Values \cup {Default}]
    PROVE  ParseBuffer(cfg, FileOf(items, ended)) = [k \in Keys |-> LastOf(items, k, cfg[k])]
<1> DEFINE n == Len(items)
<1>0. PICK buf : buf = FileOf(items, ended)
  OBVIOUS
<1>1. PICK off : Laid(buf, items, ended, off)
  BY <1>0, FileLaid
<1>2. /\ buf \in Seq(InFile) /\ Len(buf) \in Nat /\ n \in Nat
      /\ off \in [0 .. n -> Nat] /\ off[0] = 0 /\ off[n] = Len(buf)
  BY <1>1 DEF Laid, PiecesOf
<1>3. cfg \in Settings(InFile)
  BY ValuesTyped
<1>4. PICK begin, after : Parsing(cfg, buf, begin, after) /\ ParseBuffer(cfg, buf) = after[Len(buf)]
  BY <1>2, <1>3, ParseLoops
<1>5. /\ begin[0] = 1 /\ after[0] = cfg
      /\ \A k \in 1 .. Len(buf) :
            /\ begin[k] = NextLine(buf, begin[k - 1])
            /\ after[k] = ReadLine(after[k - 1], LineAt(buf, begin[k - 1]))
  BY <1>4 DEF Parsing
<1>6. \A i \in 1 .. n :
         /\ off[i - 1] \in Nat /\ off[i] \in Nat /\ off[i - 1] < off[i] /\ off[i] <= Len(buf)
         /\ LineAt(buf, off[i - 1] + 1) = Cut(Written(items[i]), MaxLine)
         /\ NextLine(buf, off[i - 1] + 1) = off[i] + 1
  BY <1>1, LineSeen
<1>7. UpTo(items, 0, cfg) = cfg
  <2>1. cfg = [k \in Keys |-> cfg[k]]
    OBVIOUS
  <2> QED BY <2>1, AllMade
<1> HIDE DEF n
<1>8. n <= Len(buf) /\ begin[n] = Len(buf) + 1 /\ after[n] = UpTo(items, n, cfg)
  <2> DEFINE S == {m \in Nat : m <= n =>
                     m <= off[m] /\ begin[m] = off[m] + 1 /\ after[m] = UpTo(items, m, cfg)}
  <2>1. 0 \in S
    BY <1>2, <1>5, <1>7
  <2>2. ASSUME NEW m \in Nat, m \in S PROVE m + 1 \in S
    <3>1. SUFFICES ASSUME m + 1 <= n
                   PROVE  /\ m + 1 <= off[m + 1] /\ begin[m + 1] = off[m + 1] + 1
                          /\ after[m + 1] = UpTo(items, m + 1, cfg)
      OBVIOUS
    <3>2. m <= off[m] /\ begin[m] = off[m] + 1 /\ after[m] = UpTo(items, m, cfg)
      BY <1>2, <2>2, <3>1
    <3>3. m + 1 \in 1 .. n /\ (m + 1) - 1 = m
      BY <1>2, <3>1
    <3>4. /\ off[m] \in Nat /\ off[m + 1] \in Nat /\ off[m] < off[m + 1] /\ off[m + 1] <= Len(buf)
          /\ LineAt(buf, off[m] + 1) = Cut(Written(items[m + 1]), MaxLine)
          /\ NextLine(buf, off[m] + 1) = off[m + 1] + 1
      BY <1>6, <3>3
    <3>5. m + 1 <= off[m + 1] /\ m + 1 \in 1 .. Len(buf)
      BY <1>2, <3>2, <3>4
    <3>6. /\ begin[m + 1] = NextLine(buf, begin[m])
          /\ after[m + 1] = ReadLine(after[m], LineAt(buf, begin[m]))
      BY <1>5, <3>3, <3>5
    <3>7. after[m + 1] = ReadLine(UpTo(items, m, cfg), Cut(Written(items[m + 1]), MaxLine))
      BY <3>2, <3>4, <3>6
    <3>8. PICK item : item = items[m + 1]
      OBVIOUS
    <3>9. item \in Items /\ (IsSetting(item) => Len(Written(item)) <= MaxLine)
      BY <3>3, <3>8 DEF WellFormed, n
    <3>10. ReadLine(UpTo(items, m, cfg), Cut(Written(item), MaxLine)) = Made(UpTo(items, m, cfg), item)
      BY <3>9, ItemRead
    <3>11. UpTo(items, m + 1, cfg) = Made(UpTo(items, m, cfg), items[m + 1])
      BY <3>3, NextMade DEF n
    <3> QED BY <3>2, <3>4, <3>5, <3>6, <3>7, <3>8, <3>10, <3>11
  <2>3. Nat \subseteq S
    <3> HIDE DEF S
    <3> QED BY <2>1, <2>2, NatsInSet
  <2>4. n \in S
    BY <1>2, <2>3
  <2>5. n <= off[n] /\ begin[n] = off[n] + 1 /\ after[n] = UpTo(items, n, cfg)
    BY <1>2, <2>4
  <2> QED BY <1>2, <2>5
<1>9. after[Len(buf)] = after[n]
  <2> DEFINE S == {d \in Nat : n + d <= Len(buf) =>
                      begin[n + d] = Len(buf) + 1 /\ after[n + d] = after[n]}
  <2>1. 0 \in S
    BY <1>2, <1>8
  <2>2. ASSUME NEW d \in Nat, d \in S PROVE d + 1 \in S
    <3>1. SUFFICES ASSUME n + (d + 1) <= Len(buf)
                   PROVE  begin[n + (d + 1)] = Len(buf) + 1 /\ after[n + (d + 1)] = after[n]
      OBVIOUS
    <3>2. begin[n + d] = Len(buf) + 1 /\ after[n + d] = after[n]
      BY <1>2, <2>2, <3>1
    <3>3. n + (d + 1) \in 1 .. Len(buf) /\ n + (d + 1) - 1 = n + d
      BY <1>2, <3>1
    <3>4. /\ begin[n + (d + 1)] = NextLine(buf, Len(buf) + 1)
          /\ after[n + (d + 1)] = ReadLine(after[n], LineAt(buf, Len(buf) + 1))
      <4>1. PICK j : j = n + (d + 1)
        OBVIOUS
      <4>2. j \in 1 .. Len(buf) /\ j - 1 = n + d
        BY <1>2, <3>3, <4>1
      <4>3. begin[j] = NextLine(buf, begin[j - 1]) /\ after[j] = ReadLine(after[j - 1], LineAt(buf, begin[j - 1]))
        BY <1>5, <4>2
      <4> QED BY <3>2, <4>1, <4>2, <4>3
    <3> QED BY <1>2, <3>4, NothingRead
  <2>3. Nat \subseteq S
    <3> HIDE DEF S
    <3> QED BY <2>1, <2>2, NatsInSet
  <2>4. PICK d \in Nat : n + d = Len(buf)
    <3>1. Len(buf) - n \in Nat /\ n + (Len(buf) - n) = Len(buf)
      BY <1>2, <1>8
    <3> QED BY <3>1
  <2>5. d \in S
    BY <2>3
  <2> QED BY <1>2, <2>4, <2>5
<1>10. UpTo(items, n, cfg) = [k \in Keys |-> LastOf(items, k, cfg[k])]
  BY AllMade DEF n
<1> QED BY <1>0, <1>4, <1>8, <1>9, <1>10

(* Files of two lines, as TLC checks them.                                 *)
LEMMA FilesAreRead == FilesRead
<1>1. SUFFICES ASSUME NEW items \in Seq(Items), NEW ended \in BOOLEAN, WellFormed(items, ended)
               PROVE  ParseBuffer([k \in Keys |-> Default], FileOf(items, ended)) =
                         [k \in Keys |-> LastOf(items, k, Default)]
  <2>1. Seqs!SeqOf(Items, 2) \subseteq Seq(Items)
    <3>1. ASSUME NEW m \in 0 .. 2, NEW f \in [1 .. m -> Items] PROVE f \in Seq(Items)
      OBVIOUS
    <3> QED BY <3>1 DEF Seqs!SeqOf
  <2> QED BY <2>1 DEF FilesRead
<1> DEFINE cfg == [k \in Keys |-> Default]
<1>2. cfg \in [Keys -> Values \cup {Default}] /\ \A k \in Keys : cfg[k] = Default
  OBVIOUS
<1> HIDE DEF cfg
<1>3. ParseBuffer(cfg, FileOf(items, ended)) = [k \in Keys |-> LastOf(items, k, cfg[k])]
  BY <1>1, <1>2, FileParsed
<1>4. [k \in Keys |-> LastOf(items, k, cfg[k])] = [k \in Keys |-> LastOf(items, k, Default)]
  BY <1>2
<1> QED BY <1>3, <1>4 DEF cfg

-----------------------------------------------------------------------------
(* The files of a directory: config_load_dropins() (src/config.c:81-125).  *)
FileValues == [Keys -> Values \cup {Default}]

(* A file with one setting makes it, if it can be read.                    *)
LEMMA OneLoaded ==
    ASSUME NEW s \in Items, s.as = "plain", s.key \in Keys, NEW cfg \in FileValues,
           NEW f, f.text = FileOf(<<s>>, TRUE)
    PROVE  /\ f.opens => LoadFile(cfg, f) = Made(cfg, s)
           /\ ~f.opens => LoadFile(cfg, f) = cfg
           /\ Made(cfg, s) \in FileValues
<1> DEFINE items == <<s>>
           w == Written(s)
<1>1. items \in Seq(Items) /\ Len(items) = 1 /\ items[1] = s /\ 1 \in 1 .. Len(items)
      /\ DOMAIN items = 1 .. 1 /\ items # <<>>
  OBVIOUS
<1>2. s.key \in Keys /\ s.value \in Values /\ s.as = "plain"
  BY ItemTexts
<1>3. w \in Seq(OnLine) /\ Len(w) = Len(s.key) + 1 + Len(s.value) /\ Len(s.key) \in Nat /\ Len(s.value) \in Nat
  <2>1. s.key \in Seq(OnLine) /\ s.value \in Seq(OnLine) /\ "=" \in OnLine
        /\ Len(s.key) \in Nat /\ Len(s.value) \in Nat
    BY ItemTexts DEF OnLine
  <2>2. w = s.key \o <<"=">> \o s.value
    BY <1>2 DEF Written
  <2>3. PICK key, value : key = s.key /\ value = s.value
    OBVIOUS
  <2>4. key \in Seq(OnLine) /\ value \in Seq(OnLine) /\ w = key \o <<"=">> \o value
    BY <2>1, <2>2, <2>3
  <2>5. w \in Seq(OnLine) /\ Len(w) = Len(key) + 1 + Len(value)
    <3> HIDE DEF w
    <3> QED BY <2>1, <2>4, PlainPlaces
  <2> QED BY <2>1, <2>3, <2>5
<1>4. Len(w) <= MaxLine /\ Len(w) + 1 <= MaxFile /\ Len(w) \in Nat
  <2>1. Len(s.key) + 1 + Len(s.value) <= MaxLine /\ Len(s.key) + 2 + Len(s.value) <= MaxFile
    BY <1>2, BufferAssumption
  <2>2. MaxLine \in Nat /\ MaxFile \in Nat
    BY BufferAssumption
  <2>3. PICK a, b, l : a = Len(s.key) /\ b = Len(s.value) /\ l = Len(w)
    OBVIOUS
  <2> HIDE DEF w
  <2>4. a \in Nat /\ b \in Nat /\ l = a + 1 + b /\ a + 1 + b <= MaxLine /\ a + 2 + b <= MaxFile
    BY <1>3, <2>1, <2>3
  <2>5. l <= MaxLine /\ l + 1 <= MaxFile /\ l \in Nat
    BY <2>2, <2>4
  <2> QED BY <2>3, <2>5
<1>5. WellFormed(items, TRUE)
  <2>1. \A i \in DOMAIN items : i = 1
    BY <1>1
  <2>2. Len(Written(items[1])) <= MaxLine
    BY <1>1, <1>4
  <2> HIDE DEF items
  <2> QED BY <2>1, <2>2 DEF WellFormed
<1> HIDE DEF items, w
<1>6. PICK buf : buf = FileOf(items, TRUE)
  OBVIOUS
<1>7. Len(buf) = Len(w) + 1
  <2>1. PICK off : Laid(buf, items, TRUE, off)
    BY <1>1, <1>6, FileLaid
  <2>2. Len(Lines(items, TRUE)[1]) = Len(w) + Len(Mark(items, TRUE, 1))
    <3>1. w = Written(items[1]) /\ TRUE \in BOOLEAN
      BY <1>1 DEF w
    <3> HIDE DEF w
    <3>2. PICK them \in Seq(Items) : them = items
      BY <1>1
    <3>3. PICK ended \in BOOLEAN : ended = TRUE
      OBVIOUS
    <3>4. PICK i \in 1 .. Len(them) : i = 1
      BY <1>1, <3>2
    <3>5. w = Written(them[i])
      BY <3>1, <3>2, <3>4
    <3>6. Len(Lines(them, ended)[i]) = Len(Written(them[i])) + Len(Mark(them, ended, i))
      BY LinesTyped
    <3> QED BY <3>2, <3>3, <3>4, <3>5, <3>6
  <2>3. Len(Mark(items, TRUE, 1)) = 1
    BY DEF Mark
  <2>4. PICK d : d = Lines(items, TRUE)
    OBVIOUS
  <2>5. /\ off[0] = 0 /\ off[1] = Len(buf)
        /\ \A i \in 1 .. 1 : off[i] = off[i - 1] + Len(d[i])
    BY <1>1, <2>1, <2>4 DEF Laid, PiecesOf
  <2>6. off[1] = off[0] + Len(d[1])
    <3>1. 1 \in 1 .. 1 /\ 1 - 1 = 0
      OBVIOUS
    <3> QED BY <2>5, <3>1
  <2>7. PICK l, m : l = Len(w) /\ m = Len(d[1])
    OBVIOUS
  <2>8. l \in Nat /\ m = l + 1 /\ off[1] = 0 + m
    BY <1>4, <2>2, <2>3, <2>4, <2>5, <2>6, <2>7
  <2>9. off[1] = l + 1
    BY <2>8
  <2> QED BY <2>5, <2>7, <2>9
<1>8. Len(buf) \in 1 .. MaxFile
  <2>1. MaxFile \in Nat
    BY BufferAssumption
  <2> QED BY <1>4, <1>7, <2>1
<1>9. cfg \in [Keys -> Values \cup {Default}] /\ cfg = [k \in Keys |-> cfg[k]]
  BY DEF FileValues
<1>10. ParseBuffer(cfg, buf) = [k \in Keys |-> LastOf(items, k, cfg[k])]
  BY <1>1, <1>5, <1>6, <1>9, FileParsed
<1>11. [k \in Keys |-> LastOf(items, k, cfg[k])] = Made(cfg, s)
  <2>1. UpTo(items, 0, cfg) = cfg /\ UpTo(items, 1, cfg) = [k \in Keys |-> LastOf(items, k, cfg[k])]
    BY <1>1, <1>9, AllMade
  <2>2. 0 \in Nat /\ 0 + 1 \in 1 .. Len(items) /\ 0 + 1 = 1
    BY <1>1
  <2>3. UpTo(items, 0 + 1, cfg) = Made(UpTo(items, 0, cfg), items[0 + 1])
    BY <1>1, <2>2, NextMade
  <2> QED BY <1>1, <2>1, <2>2, <2>3
<1>12. Made(cfg, s) \in FileValues
  BY <1>2, <1>9 DEF Made, FileValues
<1>13. f.text = buf
  BY <1>6 DEF items
<1> QED BY <1>8, <1>10, <1>11, <1>12, <1>13 DEF LoadFile

(* What the loop over the files makes.                                     *)
CanLoad(files, n) ==
    \A i \in 1 .. n, cfg \in FileValues : LoadFile(cfg, files[i]) \in FileValues
LoadedFrom(loaded, dir, files, n, none) ==
    /\ loaded \in [0 .. n -> FileValues] /\ loaded[0] = none
    /\ \A i \in 1 .. n : loaded[i] = LoadFile(loaded[i - 1], files[i])
    /\ \A options : Config(dir, options) =
          [k \in Keys |-> IF k \in DOMAIN options THEN options[k] ELSE loaded[n][k]]

(* The loop over the files.                                                *)
LEMMA FilesLoop ==
    ASSUME NEW dir, NEW files, files = Collected(dir), NEW n \in Nat, Len(files) = n,
           CanLoad(files, n), NEW none, none = [k \in Keys |-> Default]
    PROVE  \E loaded : LoadedFrom(loaded, dir, files, n, none)
<1> DEFINE V == FileValues
           loadedOf(f, i) == IF i = 0 THEN none ELSE LoadFile(f[i - 1], files[i])
           loaded == CHOOSE f : f = [i \in 0 .. Len(files) |-> loadedOf(f, i)]
           step == [i \in 1 .. n |-> [x \in V |-> LoadFile(x, files[i])]]
<1>1. none \in V
  BY DEF FileValues
<1>2. \A options : Config(dir, options) =
         [k \in Keys |-> IF k \in DOMAIN options THEN options[k] ELSE loaded[Len(files)][k]]
  BY DEF Config
<1> HIDE DEF loaded, V
<1>3. \A i \in 1 .. n, x \in V : LoadFile(x, files[i]) \in V
  BY DEF V, CanLoad
<1>4. step \in [1 .. n -> [V -> V]]
  BY <1>3
<1>5. \A i \in 1 .. n, x \in V : step[i][x] = LoadFile(x, files[i])
  OBVIOUS
<1> HIDE DEF step
<1>6. LoopOf(n, V, none, step)
  BY <1>1, <1>4 DEF LoopOf
<1>7. PICK g : ValuesOf(g, n, V, none, step)
  BY <1>6, LoopHasValues
<1>8. g \in [0 .. n -> V] /\ g[0] = none /\ \A i \in 1 .. n : g[i] = step[i][g[i - 1]]
  BY <1>7 DEF ValuesOf
<1>9. \A i \in 1 .. n : g[i] = LoadFile(g[i - 1], files[i])
  <2> TAKE i \in 1 .. n
  <2>1. i - 1 \in 0 .. n
    OBVIOUS
  <2> QED BY <1>5, <1>8, <2>1
<1>10. \A i \in 0 .. n : g[i] = loadedOf(g, i)
  <2> TAKE i \in 0 .. n
  <2>1. CASE i = 0
    BY <1>8, <2>1
  <2>2. CASE i # 0
    <3>1. i \in 1 .. n
      BY <2>2
    <3> QED BY <1>9, <2>2, <3>1
  <2> QED BY <2>1, <2>2
<1>11. Len(files) = n
  OBVIOUS
<1>12. loaded = [i \in 0 .. n |-> loadedOf(loaded, i)]
  <2> HIDE DEF loadedOf
  <2>1. g = [i \in 0 .. n |-> loadedOf(g, i)]
    BY <1>8, <1>10
  <2> QED BY <1>11, <2>1, Zenon DEF loaded
<1>13. \A i \in 0 .. n : loaded[i] = loadedOf(loaded, i)
  <2> HIDE DEF loadedOf
  <2> QED BY <1>12, Zenon
<1>14. \A i \in 0 .. n : loaded[i] = g[i]
  <2> DEFINE S == {m \in Nat : m <= n => loaded[m] = g[m]}
  <2>1. 0 \in S
    BY <1>10, <1>13
  <2>2. ASSUME NEW m \in Nat, m \in S PROVE m + 1 \in S
    <3>1. SUFFICES ASSUME m + 1 <= n PROVE loaded[m + 1] = g[m + 1]
      OBVIOUS
    <3>2. m + 1 \in 0 .. n /\ (m + 1) - 1 = m /\ m + 1 # 0 /\ m <= n
      BY <3>1
    <3>3. loaded[m] = g[m]
      BY <2>2, <3>2
    <3>4. loaded[m + 1] = LoadFile(loaded[m], files[m + 1])
      BY <1>13, <3>2
    <3>5. g[m + 1] = LoadFile(g[m], files[m + 1])
      BY <1>10, <3>2
    <3> QED BY <3>3, <3>4, <3>5
  <2>3. Nat \subseteq S
    <3> HIDE DEF S
    <3> QED BY <2>1, <2>2, NatsInSet
  <2> QED BY <2>3
<1>15. loaded = g
  <2>1. loaded = [i \in 0 .. n |-> loaded[i]]
    <3> HIDE DEF loadedOf
    <3> QED BY <1>12, <1>13
  <2>2. g = [i \in 0 .. n |-> g[i]]
    BY <1>8
  <2> QED BY <1>14, <2>1, <2>2
<1>16. \A options : Config(dir, options) =
          [k \in Keys |-> IF k \in DOMAIN options THEN options[k] ELSE g[n][k]]
  BY <1>2, <1>11, <1>15
<1>17. g \in [0 .. n -> FileValues] /\ g[0] = none
  BY <1>8 DEF V
<1>18. LoadedFrom(g, dir, files, n, none)
  BY <1>9, <1>16, <1>17 DEF LoadedFrom
<1> QED BY <1>18

(* Three files in a directory, in some order.                              *)
Three(dir, a, b, c) ==
    /\ dir \in [1 .. 3 -> {a, b, c}]
    /\ \A i, j \in 1 .. 3 : dir[i] = dir[j] => i = j
    /\ a.stem = 1 /\ b.stem = 2 /\ c.stem = 3
    /\ a.conf /\ c.conf

(* Each of them is somewhere.                                              *)
LEMMA ThreePlaces ==
    ASSUME NEW dir, NEW a, NEW b, NEW c, Three(dir, a, b, c)
    PROVE  /\ a # b /\ b # c /\ a # c
           /\ \E i, j, k \in 1 .. 3 : /\ dir[i] = a /\ dir[j] = b /\ dir[k] = c
                                      /\ i # j /\ j # k /\ i # k /\ 1 .. 3 = {i, j, k}
<1>1. a.stem = 1 /\ b.stem = 2 /\ c.stem = 3
  BY DEF Three
<1>2. a # b /\ b # c /\ a # c
  BY <1>1
<1>3. /\ dir[1] \in {a, b, c} /\ dir[2] \in {a, b, c} /\ dir[3] \in {a, b, c}
      /\ dir[1] # dir[2] /\ dir[2] # dir[3] /\ dir[1] # dir[3]
  <2>1. 1 \in 1 .. 3 /\ 2 \in 1 .. 3 /\ 3 \in 1 .. 3
    OBVIOUS
  <2> QED BY <2>1 DEF Three
<1>4. 1 .. 3 = {1, 2, 3}
  OBVIOUS
<1>5. PICK x, y, z : x = dir[1] /\ y = dir[2] /\ z = dir[3]
  OBVIOUS
<1>6. \/ x = a /\ y = b /\ z = c
      \/ x = a /\ y = c /\ z = b
      \/ x = b /\ y = a /\ z = c
      \/ x = b /\ y = c /\ z = a
      \/ x = c /\ y = a /\ z = b
      \/ x = c /\ y = b /\ z = a
  <2>1. /\ x \in {a, b, c} /\ y \in {a, b, c} /\ z \in {a, b, c}
        /\ x # y /\ y # z /\ x # z
    BY <1>3, <1>5
  <2>2. /\ x = a \/ x = b \/ x = c
        /\ y = a \/ y = b \/ y = c
        /\ z = a \/ z = b \/ z = c
    BY <2>1
  <2> QED BY <2>1, <2>2
<1> HIDE DEF Three
<1>7. \E i, j, k \in {1, 2, 3} : dir[i] = a /\ dir[j] = b /\ dir[k] = c
  BY <1>5, <1>6
<1>8. PICK i, j, k \in {1, 2, 3} : dir[i] = a /\ dir[j] = b /\ dir[k] = c
  BY <1>7
<1>9. i # j /\ j # k /\ i # k
  BY <1>2, <1>8
<1>10. {1, 2, 3} = {i, j, k}
  BY <1>9
<1> QED BY <1>2, <1>4, <1>8, <1>9, <1>10

(* How many there are.                                                     *)
LEMMA TwoCounted ==
    ASSUME NEW i, NEW k, i # k
    PROVE  IsFiniteSet({i, k}) /\ Cardinality({i, k}) = 2
<1>1. IsFiniteSet({i}) /\ Cardinality({i}) = 1
  BY FS_Singleton
<1>2. IsFiniteSet({i} \cup {k}) /\ Cardinality({i} \cup {k}) = 1 + 1
  BY <1>1, FS_AddElement
<1>3. {i} \cup {k} = {i, k}
  OBVIOUS
<1> QED BY <1>2, <1>3

(* Three files are three.                                                  *)
LEMMA ThreeCounted ==
    ASSUME NEW i, NEW j, NEW k, i # j, j # k, i # k
    PROVE  Cardinality({i, j, k}) = 3
<1>1. IsFiniteSet({i, k}) /\ Cardinality({i, k}) = 2 /\ j \notin {i, k}
  BY TwoCounted
<1>2. Cardinality({i, k} \cup {j}) = 2 + 1
  BY <1>1, FS_AddElement
<1>3. {i, k} \cup {j} = {i, j, k}
  OBVIOUS
<1> QED BY <1>2, <1>3

(* Three are not too many.                                                 *)
LEMMA NoneTooMany ==
    ASSUME NEW dir, DOMAIN dir = 1 .. 3
    PROVE  Confs(dir) = {i \in 1 .. 3 : dir[i].conf}
<1>1. ASSUME NEW i \in 1 .. 3 PROVE Cardinality({j \in 1 .. i : dir[j].conf}) <= MaxFiles
  <2> DEFINE T == {j \in 1 .. i : dir[j].conf}
  <2>1. T \in SUBSET (1 .. 3)
    OBVIOUS
  <2>2. IsFiniteSet(1 .. 3) /\ Cardinality(1 .. 3) = 3
    <3>1. 1 \in Int /\ 3 \in Int /\ ~(1 > 3) /\ 3 - 1 + 1 = 3
      OBVIOUS
    <3> QED BY <3>1, FS_Interval
  <2> HIDE DEF T
  <2>3. Cardinality(T) <= 3 /\ Cardinality(T) \in Nat
    <3>1. IsFiniteSet(T) /\ Cardinality(T) <= Cardinality(1 .. 3)
      BY <2>1, <2>2, FS_Subset
    <3> QED BY <2>2, <3>1, FS_CardinalityType
  <2>4. Cardinality(T) <= MaxFiles
    BY <2>3, BufferAssumption
  <2> QED BY <2>4 DEF T
<1> QED BY <1>1 DEF Confs

(* They are read in the order of their names, however readdir() returns    *)
(* them.                                                                   *)
LEMMA SortedFiles ==
    ASSUME NEW dir, NEW a, NEW b, NEW c, Three(dir, a, b, c)
    PROVE  /\ b.conf => /\ Len(Collected(dir)) = 3
                        /\ Collected(dir)[1] = a /\ Collected(dir)[2] = b /\ Collected(dir)[3] = c
           /\ ~b.conf => /\ Len(Collected(dir)) = 2
                         /\ Collected(dir)[1] = a /\ Collected(dir)[2] = c
<1> DEFINE s == Collected(dir)
<1>1. /\ a.stem = 1 /\ b.stem = 2 /\ c.stem = 3 /\ a.conf /\ c.conf
      /\ DOMAIN dir = 1 .. 3
  BY DEF Three
<1>2. PICK i, j, k \in 1 .. 3 : /\ dir[i] = a /\ dir[j] = b /\ dir[k] = c
                                /\ i # j /\ j # k /\ i # k /\ 1 .. 3 = {i, j, k}
  BY ThreePlaces
<1>a. i # j /\ j # k /\ i # k
  BY <1>2
<1>3. Confs(dir) = {q \in {i, j, k} : dir[q].conf}
  BY <1>1, <1>2, NoneTooMany
<1>4. s = CHOOSE t \in [1 .. Cardinality(Confs(dir)) -> {dir[q] : q \in Confs(dir)}] :
             \A p, q \in DOMAIN t : p < q => t[p].stem < t[q].stem
  BY DEF Collected
<1> HIDE DEF s
<1>5. CASE b.conf
  <2>1. Confs(dir) = {i, j, k} /\ Cardinality(Confs(dir)) = 3
    <3>1. Confs(dir) = {i, j, k}
      BY <1>1, <1>2, <1>3, <1>5
    <3>2. Cardinality({i, j, k}) = 3
      <4>1. PICK x, y, z : x = i /\ y = j /\ z = k
        OBVIOUS
      <4>2. x # y /\ y # z /\ x # z
        BY <1>a, <4>1
      <4>3. Cardinality({x, y, z}) = 3
        BY <4>2, ThreeCounted, Zenon
      <4> QED BY <4>1, <4>3
    <3> QED BY <3>1, <3>2
  <2>2. {dir[q] : q \in Confs(dir)} = {a, b, c}
    BY <1>2, <2>1
  <2> DEFINE F == [1 .. 3 -> {a, b, c}]
             Sorted(t) == \A p, q \in DOMAIN t : p < q => t[p].stem < t[q].stem
  <2>3. s = CHOOSE t \in F : Sorted(t)
    BY <1>4, <2>1, <2>2
  <2>4. \E t \in F : Sorted(t)
    <3> DEFINE t == [p \in 1 .. 3 |-> IF p = 1 THEN a ELSE IF p = 2 THEN b ELSE c]
    <3>1. t \in F /\ DOMAIN t = 1 .. 3
      OBVIOUS
    <3>2. \A p \in 1 .. 3 : t[p].stem = p
      <4> TAKE p \in 1 .. 3
      <4>1. p = 1 \/ p = 2 \/ p = 3
        OBVIOUS
      <4>2. t[1] = a /\ t[2] = b /\ t[3] = c
        OBVIOUS
      <4> HIDE DEF t
      <4> QED BY <1>1, <4>1, <4>2
    <3> HIDE DEF t
    <3>3. Sorted(t)
      BY <3>1, <3>2
    <3> QED BY <3>1, <3>3
  <2>5. s \in F /\ Sorted(s)
    <3> HIDE DEF F, Sorted
    <3> QED BY <2>3, <2>4, Zenon
  <2>6. s \in [1 .. 3 -> {a, b, c}] /\ DOMAIN s = 1 .. 3
    BY <2>5
  <2>7. s[1] \in {a, b, c} /\ s[2] \in {a, b, c} /\ s[3] \in {a, b, c}
    BY <2>6
  <2>8. s[1].stem < s[2].stem /\ s[2].stem < s[3].stem
    <3>1. 1 \in DOMAIN s /\ 2 \in DOMAIN s /\ 3 \in DOMAIN s /\ 1 < 2 /\ 2 < 3
      BY <2>6
    <3> QED BY <2>5, <3>1
  <2>9. PICK x, y, z : x = s[1] /\ y = s[2] /\ z = s[3]
    OBVIOUS
  <2>10. x = a /\ y = b /\ z = c
    <3>1. x \in {a, b, c} /\ y \in {a, b, c} /\ z \in {a, b, c} /\ x.stem < y.stem /\ y.stem < z.stem
      BY <2>7, <2>8, <2>9
    <3> QED BY <1>1, <3>1
  <2>11. Len(s) = 3
    BY <2>6
  <2> QED BY <1>5, <2>9, <2>10, <2>11 DEF s
<1>6. CASE ~b.conf
  <2>1. Confs(dir) = {i, k} /\ Cardinality(Confs(dir)) = 2
    <3>1. Confs(dir) = {i, k}
      BY <1>1, <1>2, <1>3, <1>6
    <3>2. Cardinality({i, k}) = 2
      BY <1>a, TwoCounted, Zenon
    <3> QED BY <3>1, <3>2
  <2>2. {dir[q] : q \in Confs(dir)} = {a, c}
    BY <1>2, <2>1
  <2> DEFINE F == [1 .. 2 -> {a, c}]
             Sorted(t) == \A p, q \in DOMAIN t : p < q => t[p].stem < t[q].stem
  <2>3. s = CHOOSE t \in F : Sorted(t)
    BY <1>4, <2>1, <2>2
  <2>4. \E t \in F : Sorted(t)
    <3> DEFINE t == [p \in 1 .. 2 |-> IF p = 1 THEN a ELSE c]
    <3>1. t \in F /\ DOMAIN t = 1 .. 2
      OBVIOUS
    <3>2. ASSUME NEW p \in 1 .. 2, NEW q \in 1 .. 2, p < q PROVE t[p].stem < t[q].stem
      <4>1. p = 1 /\ q = 2
        BY <3>2
      <4>2. t[1] = a /\ t[2] = c
        OBVIOUS
      <4> HIDE DEF t
      <4> QED BY <1>1, <4>1, <4>2
    <3> HIDE DEF t
    <3>3. Sorted(t)
      BY <3>1, <3>2
    <3> QED BY <3>1, <3>3
  <2>5. s \in F /\ Sorted(s)
    <3> HIDE DEF F, Sorted
    <3> QED BY <2>3, <2>4, Zenon
  <2>6. s \in [1 .. 2 -> {a, c}] /\ DOMAIN s = 1 .. 2
    BY <2>5
  <2>7. s[1] \in {a, c} /\ s[2] \in {a, c}
    BY <2>6
  <2>8. s[1].stem < s[2].stem
    <3>1. 1 \in DOMAIN s /\ 2 \in DOMAIN s /\ 1 < 2
      BY <2>6
    <3> QED BY <2>5, <3>1
  <2>9. PICK x, y : x = s[1] /\ y = s[2]
    OBVIOUS
  <2>10. x = a /\ y = c
    <3>1. x \in {a, c} /\ y \in {a, c} /\ x.stem < y.stem
      BY <2>7, <2>8, <2>9
    <3> QED BY <1>1, <3>1
  <2>11. Len(s) = 2
    BY <2>6
  <2> QED BY <1>6, <2>9, <2>10, <2>11 DEF s
<1> QED BY <1>5, <1>6

(* What three files make: b counts if it is a ".conf" that can be opened.  *)
Makes(f, s) == s \in Items /\ s.as = "plain" /\ s.key \in Keys /\ f.text = FileOf(<<s>>, TRUE)

(* What main() has loaded behind the last of them.                         *)
LEMMA ThreeLoaded ==
    ASSUME NEW dir, NEW a, NEW b, NEW c, Three(dir, a, b, c),
           NEW x, NEW y, NEW z, Makes(a, x), Makes(b, y), Makes(c, z), a.opens, c.opens,
           NEW none, none = [k \in Keys |-> Default]
    PROVE  \E all \in FileValues :
              /\ b.conf /\ b.opens => all = Made(Made(Made(none, x), y), z)
              /\ ~(b.conf /\ b.opens) => all = Made(Made(none, x), z)
              /\ \A options : Config(dir, options) =
                    [k \in Keys |-> IF k \in DOMAIN options THEN options[k] ELSE all[k]]
<1>0. none \in FileValues
  BY DEF FileValues
<1>1. ASSUME NEW cfg \in FileValues
      PROVE  /\ LoadFile(cfg, a) = Made(cfg, x) /\ LoadFile(cfg, c) = Made(cfg, z)
             /\ b.opens => LoadFile(cfg, b) = Made(cfg, y)
             /\ ~b.opens => LoadFile(cfg, b) = cfg
             /\ Made(cfg, x) \in FileValues /\ Made(cfg, y) \in FileValues
             /\ Made(cfg, z) \in FileValues
  <2>1. /\ x \in Items /\ x.as = "plain" /\ x.key \in Keys /\ a.text = FileOf(<<x>>, TRUE)
        /\ y \in Items /\ y.as = "plain" /\ y.key \in Keys /\ b.text = FileOf(<<y>>, TRUE)
        /\ z \in Items /\ z.as = "plain" /\ z.key \in Keys /\ c.text = FileOf(<<z>>, TRUE)
    BY DEF Makes
  <2>2. LoadFile(cfg, a) = Made(cfg, x) /\ Made(cfg, x) \in FileValues
    BY <2>1, OneLoaded
  <2>3. /\ b.opens => LoadFile(cfg, b) = Made(cfg, y)
        /\ ~b.opens => LoadFile(cfg, b) = cfg
        /\ Made(cfg, y) \in FileValues
    BY <2>1, OneLoaded
  <2>4. LoadFile(cfg, c) = Made(cfg, z) /\ Made(cfg, z) \in FileValues
    BY <2>1, OneLoaded
  <2> QED BY <2>2, <2>3, <2>4
<1>2. PICK files : files = Collected(dir)
  OBVIOUS
<1>3. /\ b.conf => Len(files) = 3 /\ files[1] = a /\ files[2] = b /\ files[3] = c
      /\ ~b.conf => Len(files) = 2 /\ files[1] = a /\ files[2] = c
  BY <1>2, SortedFiles
<1>5. CASE b.conf
  <2>1. CanLoad(files, 3)
    <3> SUFFICES \A i \in 1 .. 3, cfg \in FileValues : LoadFile(cfg, files[i]) \in FileValues
      BY DEF CanLoad
    <3> TAKE i \in 1 .. 3, cfg \in FileValues
    <3>1. files[i] = a \/ files[i] = b \/ files[i] = c
      BY <1>3, <1>5
    <3>2. LoadFile(cfg, a) \in FileValues /\ LoadFile(cfg, b) \in FileValues
          /\ LoadFile(cfg, c) \in FileValues
      BY <1>1
    <3> QED BY <3>1, <3>2
  <2>p. PICK loaded : LoadedFrom(loaded, dir, files, 3, none)
    <3>1. 3 \in Nat /\ Len(files) = 3
      BY <1>3, <1>5
    <3> QED BY <1>2, <2>1, <3>1, FilesLoop
  <2>2. /\ loaded \in [0 .. 3 -> FileValues] /\ loaded[0] = none
        /\ \A i \in 1 .. 3 : loaded[i] = LoadFile(loaded[i - 1], files[i])
        /\ \A options : Config(dir, options) =
              [k \in Keys |-> IF k \in DOMAIN options THEN options[k] ELSE loaded[3][k]]
    BY <2>p DEF LoadedFrom
  <2>3. /\ loaded[1] = LoadFile(loaded[0], a) /\ loaded[2] = LoadFile(loaded[1], b)
        /\ loaded[3] = LoadFile(loaded[2], c)
    <3>1. /\ 1 \in 1 .. 3 /\ 2 \in 1 .. 3 /\ 3 \in 1 .. 3 /\ 1 - 1 = 0 /\ 2 - 1 = 1 /\ 3 - 1 = 2
      OBVIOUS
    <3> QED BY <1>3, <1>5, <2>2, <3>1
  <2>4. loaded[1] = Made(none, x) /\ loaded[1] \in FileValues
    BY <1>0, <1>1, <2>2, <2>3
  <2>5. /\ b.opens => loaded[2] = Made(Made(none, x), y)
        /\ ~b.opens => loaded[2] = Made(none, x)
        /\ loaded[2] \in FileValues
    BY <1>1, <2>3, <2>4
  <2>6. loaded[3] = Made(loaded[2], z) /\ loaded[3] \in FileValues
    BY <1>1, <2>3, <2>5
  <2> QED BY <1>5, <2>2, <2>5, <2>6
<1>6. CASE ~b.conf
  <2>1. CanLoad(files, 2)
    <3> SUFFICES \A i \in 1 .. 2, cfg \in FileValues : LoadFile(cfg, files[i]) \in FileValues
      BY DEF CanLoad
    <3> TAKE i \in 1 .. 2, cfg \in FileValues
    <3>1. files[i] = a \/ files[i] = c
      BY <1>3, <1>6
    <3>2. LoadFile(cfg, a) \in FileValues /\ LoadFile(cfg, c) \in FileValues
      BY <1>1
    <3> QED BY <3>1, <3>2
  <2>p. PICK loaded : LoadedFrom(loaded, dir, files, 2, none)
    <3>1. 2 \in Nat /\ Len(files) = 2
      BY <1>3, <1>6
    <3> QED BY <1>2, <2>1, <3>1, FilesLoop
  <2>2. /\ loaded \in [0 .. 2 -> FileValues] /\ loaded[0] = none
        /\ \A i \in 1 .. 2 : loaded[i] = LoadFile(loaded[i - 1], files[i])
        /\ \A options : Config(dir, options) =
              [k \in Keys |-> IF k \in DOMAIN options THEN options[k] ELSE loaded[2][k]]
    BY <2>p DEF LoadedFrom
  <2>3. loaded[1] = LoadFile(loaded[0], a) /\ loaded[2] = LoadFile(loaded[1], c)
    <3>1. 1 \in 1 .. 2 /\ 2 \in 1 .. 2 /\ 1 - 1 = 0 /\ 2 - 1 = 1
      OBVIOUS
    <3> QED BY <1>3, <1>6, <2>2, <3>1
  <2>4. loaded[1] = Made(none, x) /\ loaded[1] \in FileValues
    BY <1>0, <1>1, <2>2, <2>3
  <2>5. loaded[2] = Made(Made(none, x), z) /\ loaded[2] \in FileValues
    BY <1>1, <2>3, <2>4
  <2> QED BY <1>6, <2>2, <2>5
<1> QED BY <1>5, <1>6

(* What two or three settings make.                                        *)
LEMMA FewMade ==
    ASSUME NEW items, items \in Seq(Items), NEW cfg, cfg = [k \in Keys |-> cfg[k]]
    PROVE  /\ Len(items) = 2 =>
              [k \in Keys |-> LastOf(items, k, cfg[k])] = Made(Made(cfg, items[1]), items[2])
           /\ Len(items) = 3 =>
              [k \in Keys |-> LastOf(items, k, cfg[k])]
                  = Made(Made(Made(cfg, items[1]), items[2]), items[3])
<1>1. UpTo(items, 0, cfg) = cfg
      /\ UpTo(items, Len(items), cfg) = [k \in Keys |-> LastOf(items, k, cfg[k])]
  BY AllMade
<1>2. ASSUME NEW m \in Nat, NEW n, n = m + 1, n \in 1 .. Len(items)
      PROVE  UpTo(items, n, cfg) = Made(UpTo(items, m, cfg), items[n])
  BY <1>2, NextMade
<1>3. ASSUME Len(items) \in 2 .. 3
      PROVE  UpTo(items, 2, cfg) = Made(Made(cfg, items[1]), items[2])
  <2>1. /\ 0 \in Nat /\ 1 = 0 + 1 /\ 1 \in 1 .. Len(items)
        /\ 1 \in Nat /\ 2 = 1 + 1 /\ 2 \in 1 .. Len(items)
    <3>1. PICK n : n = Len(items)
      OBVIOUS
    <3>2. 1 \in 1 .. n /\ 2 \in 1 .. n
      BY <1>3, <3>1
    <3> QED BY <3>1, <3>2
  <2>2. UpTo(items, 1, cfg) = Made(UpTo(items, 0, cfg), items[1])
    BY <1>2, <2>1
  <2>3. UpTo(items, 2, cfg) = Made(UpTo(items, 1, cfg), items[2])
    BY <1>2, <2>1
  <2> QED BY <1>1, <2>2, <2>3
<1>4. ASSUME Len(items) = 3
      PROVE  UpTo(items, 3, cfg) = Made(Made(Made(cfg, items[1]), items[2]), items[3])
  <2>1. 2 \in Nat /\ 3 = 2 + 1 /\ 3 \in 1 .. Len(items) /\ Len(items) \in 2 .. 3
    BY <1>4
  <2>2. UpTo(items, 3, cfg) = Made(UpTo(items, 2, cfg), items[3])
    BY <1>2, <2>1
  <2> QED BY <1>3, <2>1, <2>2
<1>5. ASSUME Len(items) = 2
      PROVE  [k \in Keys |-> LastOf(items, k, cfg[k])] = Made(Made(cfg, items[1]), items[2])
  <2>1. Len(items) \in 2 .. 3
    BY <1>5
  <2> QED BY <1>1, <1>3, <1>5, <2>1
<1>6. ASSUME Len(items) = 3
      PROVE  [k \in Keys |-> LastOf(items, k, cfg[k])]
                  = Made(Made(Made(cfg, items[1]), items[2]), items[3])
  BY <1>1, <1>4, <1>6
<1> QED BY <1>5, <1>6

(* The last file in alphabetical order counts, and an option before it.    *)
LEMMA FilesOverride == Override
<1> SUFFICES ASSUME NEW key \in Keys, NEW other \in Keys, NEW u \in Values, NEW v \in Values,
                    NEW w \in Values, NEW conf \in BOOLEAN, NEW opens \in BOOLEAN
             PROVE  LET files == {FileWith(1, TRUE, TRUE, Setting(key, u)),
                                  FileWith(2, conf, opens, Setting(key, v)),
                                  FileWith(3, TRUE, TRUE, Setting(other, w))}
                        made == <<Setting(key, u)>>
                                \o (IF conf /\ opens THEN <<Setting(key, v)>> ELSE <<>>)
                                \o <<Setting(other, w)>>
                        read == [k \in Keys |-> LastOf(made, k, Default)]
                    IN  \A dir \in [1 .. 3 -> files] :
                            (\A i, j \in 1 .. 3 : dir[i] = dir[j] => i = j) =>
                                /\ Config(dir, <<>>) = read
                                /\ Config(dir, [k \in {key} |-> u]) = [read EXCEPT ![key] = u]
  BY Zenon DEF Override
<1> DEFINE files == {FileWith(1, TRUE, TRUE, Setting(key, u)),
                     FileWith(2, conf, opens, Setting(key, v)),
                     FileWith(3, TRUE, TRUE, Setting(other, w))}
           made == <<Setting(key, u)>>
                   \o (IF conf /\ opens THEN <<Setting(key, v)>> ELSE <<>>)
                   \o <<Setting(other, w)>>
           read == [k \in Keys |-> LastOf(made, k, Default)]
<1>0. SUFFICES ASSUME NEW dir \in [1 .. 3 -> files],
                      \A i, j \in 1 .. 3 : dir[i] = dir[j] => i = j
               PROVE  /\ Config(dir, <<>>) = read
                      /\ Config(dir, [k \in {key} |-> u]) = [read EXCEPT ![key] = u]
  BY Zenon
<1> HIDE DEF made, files, read
<1>1. PICK x, y, z : x = Setting(key, u) /\ y = Setting(key, v) /\ z = Setting(other, w)
  OBVIOUS
<1>2. PICK a, b, c : /\ a = FileWith(1, TRUE, TRUE, x) /\ b = FileWith(2, conf, opens, y)
                     /\ c = FileWith(3, TRUE, TRUE, z)
  OBVIOUS
<1>3. /\ x \in Items /\ x.as = "plain" /\ x.key \in Keys
      /\ y \in Items /\ y.as = "plain" /\ y.key \in Keys
      /\ z \in Items /\ z.as = "plain" /\ z.key \in Keys
  BY <1>1 DEF Setting, Items
<1>4. /\ a.stem = 1 /\ b.stem = 2 /\ c.stem = 3
      /\ a.conf = TRUE /\ c.conf = TRUE /\ b.conf = conf
      /\ a.opens = TRUE /\ c.opens = TRUE /\ b.opens = opens
      /\ a.text = FileOf(<<x>>, TRUE) /\ b.text = FileOf(<<y>>, TRUE) /\ c.text = FileOf(<<z>>, TRUE)
  BY <1>2 DEF FileWith
<1>5. Makes(a, x) /\ Makes(b, y) /\ Makes(c, z)
  BY <1>3, <1>4 DEF Makes
<1>6. Three(dir, a, b, c)
  <2>1. dir \in [1 .. 3 -> {a, b, c}]
    BY <1>1, <1>2 DEF files
  <2>2. a.conf /\ c.conf
    BY <1>4, Zenon
  <2>3. a.stem = 1 /\ b.stem = 2 /\ c.stem = 3
    BY <1>4, Zenon
  <2> QED BY <1>0, <2>1, <2>2, <2>3, Zenon DEF Three
<1>7. PICK none : none = [k \in Keys |-> Default]
  OBVIOUS
<1>8. PICK all \in FileValues :
          /\ b.conf /\ b.opens => all = Made(Made(Made(none, x), y), z)
          /\ ~(b.conf /\ b.opens) => all = Made(Made(none, x), z)
          /\ \A options : Config(dir, options) =
                [k \in Keys |-> IF k \in DOMAIN options THEN options[k] ELSE all[k]]
  <2>1. a.opens /\ c.opens
    BY <1>4, Zenon
  <2> QED BY <1>5, <1>6, <1>7, <2>1, ThreeLoaded
<1>9. /\ conf /\ opens => all = Made(Made(Made(none, x), y), z)
      /\ ~(conf /\ opens) => all = Made(Made(none, x), z)
  BY <1>4, <1>8, Zenon
<1>10. read = all
  <2>0. none = [k \in Keys |-> none[k]] /\ \A k \in Keys : none[k] = Default
    BY <1>7
  <2>1. read = [k \in Keys |-> LastOf(made, k, none[k])]
    BY <2>0 DEF read
  <2>a. <<x>> \in Seq(Items) /\ <<y>> \in Seq(Items) /\ <<z>> \in Seq(Items)
        /\ <<>> \in Seq(Items)
    BY <1>3
  <2>b. PICK p, q, t : p = <<x>> /\ q = (IF conf /\ opens THEN <<y>> ELSE <<>>) /\ t = <<z>>
    OBVIOUS
  <2>c. PICK l : l = p \o q
    OBVIOUS
  <2>d. made = l \o t
    BY <1>1, <2>b, <2>c DEF made
  <2>e. /\ p \in Seq(Items) /\ Len(p) = 1 /\ p[1] = x
        /\ t \in Seq(Items) /\ Len(t) = 1 /\ t[1] = z
        /\ q \in Seq(Items)
        /\ conf /\ opens => Len(q) = 1 /\ q[1] = y
        /\ ~(conf /\ opens) => Len(q) = 0
    BY <2>a, <2>b
  <2>f. JointOf(l, p, q, Items)
    BY <2>c, <2>e, Joining
  <2>g. /\ l \in Seq(Items) /\ Len(l) = Len(p) + Len(q)
        /\ \A k \in 1 .. Len(p) : l[k] = p[k]
        /\ \A k \in 1 .. Len(q) : l[Len(p) + k] = q[k]
    BY <2>f DEF JointOf
  <2>h. JointOf(made, l, t, Items)
    BY <2>d, <2>e, <2>g, Joining
  <2>i. /\ made \in Seq(Items) /\ Len(made) = Len(l) + Len(t)
        /\ \A k \in 1 .. Len(l) : made[k] = l[k]
        /\ \A k \in 1 .. Len(t) : made[Len(l) + k] = t[k]
    BY <2>h DEF JointOf
  <2>2. CASE conf /\ opens
    <3>1. Len(made) = 3 /\ made[1] = x /\ made[2] = y /\ made[3] = z
      <4>1. Len(q) = 1 /\ q[1] = y /\ Len(l) = 2
        <5>1. Len(q) = 1 /\ q[1] = y
          BY <2>2, <2>e, Zenon
        <5> QED BY <2>e, <2>g, <5>1
      <4>2. l[1] = x /\ l[2] = y
        <5>1. 1 \in 1 .. 1 /\ 1 + 1 = 2
          OBVIOUS
        <5> QED BY <2>e, <2>g, <4>1, <5>1
      <4>3. made[1] = l[1] /\ made[2] = l[2] /\ made[3] = t[1] /\ Len(made) = 3
        <5>1. 1 \in 1 .. 2 /\ 2 \in 1 .. 2 /\ 1 \in 1 .. 1 /\ 2 + 1 = 3
          OBVIOUS
        <5> QED BY <2>e, <2>i, <4>1, <5>1
      <4> QED BY <2>e, <4>2, <4>3
    <3>2. [k \in Keys |-> LastOf(made, k, none[k])] = Made(Made(Made(none, made[1]), made[2]), made[3])
      BY <2>0, <2>i, <3>1, FewMade
    <3> QED BY <1>9, <2>1, <2>2, <3>1, <3>2
  <2>3. CASE ~(conf /\ opens)
    <3>1. Len(made) = 2 /\ made[1] = x /\ made[2] = z
      <4>1. Len(q) = 0 /\ Len(l) = 1
        BY <2>3, <2>e, <2>g
      <4>2. l[1] = x
        <5>1. 1 \in 1 .. 1
          OBVIOUS
        <5> QED BY <2>e, <2>g, <5>1
      <4>3. made[1] = l[1] /\ made[2] = t[1] /\ Len(made) = 2
        <5>1. 1 \in 1 .. 1 /\ 1 + 1 = 2
          OBVIOUS
        <5> QED BY <2>e, <2>i, <4>1, <5>1
      <4> QED BY <2>e, <4>2, <4>3
    <3>2. [k \in Keys |-> LastOf(made, k, none[k])] = Made(Made(none, made[1]), made[2])
      BY <2>0, <2>i, <3>1, FewMade
    <3> QED BY <1>9, <2>1, <2>3, <3>1, <3>2
  <2> QED BY <2>2, <2>3
<1>11. all = [k \in Keys |-> all[k]]
  BY DEF FileValues
<1>12. Config(dir, <<>>) = all
  <2>1. PICK options : options = <<>>
    OBVIOUS
  <2>2. \A k \in Keys : k \notin DOMAIN options
    BY <2>1
  <2>3. Config(dir, options) = [k \in Keys |-> all[k]]
    BY <1>8, <2>2
  <2> QED BY <1>11, <2>1, <2>3
<1>13. Config(dir, [k \in {key} |-> u]) = [all EXCEPT ![key] = u]
  <2>1. PICK options : options = [k \in {key} |-> u]
    OBVIOUS
  <2>2. DOMAIN options = {key} /\ options[key] = u
    BY <2>1
  <2>3. Config(dir, options) = [k \in Keys |-> IF k \in DOMAIN options THEN options[k] ELSE all[k]]
    BY <1>8
  <2>4. Config(dir, options) = [k \in Keys |-> IF k = key THEN u ELSE all[k]]
    BY <2>2, <2>3
  <2>5. [all EXCEPT ![key] = u] = [k \in Keys |-> IF k = key THEN u ELSE all[k]]
    BY <1>11
  <2> QED BY <2>1, <2>4, <2>5
<1> QED BY <1>10, <1>12, <1>13

(* When main() connects, the settings are those of the files and options.  *)
THEOREM ConfigIsRead == ServiceSpec => []ConfigRead
<1>1. ConfigRead
  BY FilesAreRead, FilesOverride DEF ConfigRead
<1> QED BY <1>1, PTL
=============================================================================
