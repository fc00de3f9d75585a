-------------------------- MODULE SmartRevert_proof --------------------------
(***************************************************************************)
(* Proofs about SmartRevert, for any number of machines, windows and       *)
(* worlds.  The invariant says what each step of the request in work has   *)
(* established of the machine it is for; above all that a machine that     *)
(* does not run, and is not as a snapshot is or was, is marked dirty, on   *)
(* disk and in memory, as long as its runs are observed.                   *)
(***************************************************************************)
EXTENDS SmartRevert, TLAPS

Posts == {"create", "revert"}
Asks == {"tree", "confirm"}

(* A request is in work only while the service is up.                      *)
Serving == ~on => req = NoReq

(* A revert that has passed the list is for a machine that does not run,   *)
(* and one that has passed the snapshot has it.                            *)
RevertReady ==
    Known /\ req.op = "revert" =>
        /\ req.step \in {"autosave", "revert"} => power[req.vm] # "running"
        /\ req.step = "revert" /\ req.save => Saved(req.vm)

(* Only while a change of the marks is being saved do the marks on disk    *)
(* differ from those in memory.                                            *)
Synced ==
    ~SaveFaults /\ on /\ (req = NoReq \/ req.step # "save") => disk = mem

(* A machine that was listed as running is marked when its request has     *)
(* come to the save or the answer.                                         *)
Noted ==
    req.op \in Asks /\ req.step \in {"save", "answer"} /\ req.seen = "running"
        => mem[req.vm] = "dirty"

(* From the snapshot, or the revert, to the mark the run is a new one.     *)
Settling ==
    req.op \in Posts /\ req.step \in {"clean", "save"} => req.vm \notin watched

(* A run that began by a snapshot or a revert does not end unseen.         *)
Settled ==
    Observed /\ req.op \in Posts /\ req.step = "clean"
        => power[req.vm] = "running" \/ Kept(req.vm)

(* What is in no snapshot, and never was, is marked.                       *)
Diverged(v) == power[v] # "running" /\ ~Kept(v)
DivergedMarked ==
    Observed => \A v \in VMs :
        Diverged(v) => disk[v] = "dirty" /\ (on => mem[v] = "dirty")

(* The dialog is about to be told so.                                      *)
DialogToTell ==
    Observed /\ req.op = "confirm" /\ req.step # "list" =>
        /\ req.seen # "unknown"
        /\ req.diverged /\ req.seen # "running" => mem[req.vm] = "dirty"

MarksInv == Serving /\ Synced /\ Noted /\ Settling /\ WatchedIsRemembered
ObservedInv == Settled /\ DivergedMarked /\ DialogToTell /\ WarnedIfDiverged

IInv == TypeOK /\ RevertReady /\ MarksInv /\ ObservedInv

-----------------------------------------------------------------------------
(* The five kinds of requests.                                             *)
LEMMA Kinds ==
    ASSUME req \in {NoReq} \cup Lists \cup Confirms \cup Creates \cup Reverts \cup Deletes
    PROVE  /\ req.op = "tree" => req \in Lists
           /\ req.op = "confirm" => req \in Confirms
           /\ req.op = "create" => req \in Creates
           /\ req.op = "revert" => req \in Reverts
           /\ req.op = "delete" => req \in Deletes
           /\ req # NoReq => req.op \in Asks \cup Posts \cup {"delete"}
           /\ NoReq.op = "none"
BY DEF Lists, Confirms, Creates, Reverts, Deletes, NoReq, Asks, Posts

(* A step of a handler changes the step of its request and nothing else.   *)
LEMMA GoesOn ==
    ASSUME NEW st, GoTo(st),
    req \in Lists \cup Confirms \cup Creates \cup Reverts \cup Deletes
    PROVE  /\ req'.op = req.op /\ req'.vm = req.vm /\ req'.step = st /\ req' # NoReq
           /\ req \in Lists \cup Confirms => req'.seen = req.seen
           /\ req \in Confirms => req'.diverged = req.diverged /\ req'.by = req.by
           /\ req \in Reverts => req'.save = req.save
           /\ req \in Confirms \cup Reverts => req'.snap = req.snap
           /\ /\ st \in {"save", "answer"}
              /\ req \in Lists \cup Confirms \cup Creates \cup Reverts
              => req' \in Lists \cup Confirms \cup Creates \cup Reverts
           /\ req \in Creates /\ st = "clean" => req' \in Creates
           /\ req \in Reverts /\ st \in {"autosave", "revert", "clean"} => req' \in Reverts
           /\ req \in Deletes /\ st = "delete" => req' \in Deletes
<1>1. CASE req \in Lists
  BY <1>1 DEF GoTo, Lists, Confirms, Creates, Reverts, Deletes, NoReq
<1>2. CASE req \in Confirms
  BY <1>2 DEF GoTo, Lists, Confirms, Creates, Reverts, Deletes, NoReq
<1>3. CASE req \in Creates
  BY <1>3 DEF GoTo, Lists, Confirms, Creates, Reverts, Deletes, NoReq
<1>4. CASE req \in Reverts
  BY <1>4 DEF GoTo, Lists, Confirms, Creates, Reverts, Deletes, NoReq
<1>5. CASE req \in Deletes
  BY <1>5 DEF GoTo, Lists, Confirms, Creates, Reverts, Deletes, NoReq
<1> QED BY <1>1, <1>2, <1>3, <1>4, <1>5

-----------------------------------------------------------------------------
(* Types.                                                                  *)
LEMMA InitType == Init => TypeOK
<1> SUFFICES ASSUME Init PROVE TypeOK
  OBVIOUS
<1>1. world \in Worlds /\ world.top \in Nat
  BY WorldAssumption DEF Init
<1>2. content \in [VMs -> Version] /\ snaps \in [VMs -> SUBSET Snap]
  BY <1>1 DEF Init, Version, Snap, Power
<1>3. {mem, disk, safe} \subseteq Ledger!Image
  BY DEF Init, Ledger!Image, Ledger!Marks, Ledger!Blank
<1> QED BY <1>1, <1>2, <1>3 DEF Init, TypeOK, Power, NoReq, NoDialog

(* The steps of the ledger keep its types.                                 *)
LEMMA MarkType ==
    ASSUME TypeOK, NEW v \in VMs, NEW m \in {"clean", "dirty"},
           UNCHANGED ledgerVars \/ Ledger!Mark(v, m) \/ Ledger!Flush
    PROVE  on' = on /\ safe' = safe /\ {mem', disk', safe'} \subseteq Ledger!Image
BY DEF TypeOK, ledgerVars, Ledger!Mark, Ledger!Flush, Ledger!Image, Ledger!Marks

(* The world stays, and so do the versions told apart in it.               *)
LEMMA WorldStays ==
    ASSUME [Next]_vars
    PROVE  /\ world' = world
           /\ Version' = Version /\ Snap' = Snap /\ Dialogs' = Dialogs
           /\ Confirms' = Confirms /\ Reverts' = Reverts /\ Deletes' = Deletes
<1>1. world' = world
  BY DEF Next, Windows, Handler, vars, machineVars, GuestWrites, PowerUp, PowerDown,
     LoadTree, CreateSnapshot, AskRevert, AskDelete, ClickRevert, Request, CancelDialog,
     ListForDirty, Judge, SaveMarks, AnswerTree, AnswerConfirm, Create, TakeSnapshot,
     ListForRevert, AutoSave, Revert, RevertFails, ListForDelete, DeleteSnapshot,
     DeleteFails,
     MarkClean, AnswerPost, Crash, Restart
<1> QED BY <1>1 DEF Version, Snap, Dialogs, Confirms, Reverts, Deletes

LEMMA StepType == TypeOK /\ [Next]_vars => TypeOK'
<1> SUFFICES ASSUME TypeOK, [Next]_vars PROVE TypeOK'
  OBVIOUS
<1> USE WorldStays DEF machineVars, ledgerVars
<1>1. ASSUME NEW v \in VMs, GuestWrites(v) PROVE TypeOK'
  BY <1>1 DEF GuestWrites, TypeOK, Version
<1>2. ASSUME NEW v \in VMs, PowerUp(v) PROVE TypeOK'
  BY <1>2 DEF PowerUp, TypeOK, Power
<1>3. ASSUME NEW v \in VMs, PowerDown(v) PROVE TypeOK'
  BY <1>3 DEF PowerDown, TypeOK, Power
<1>4. ASSUME NEW v \in VMs, LoadTree(v) PROVE TypeOK'
  <2>1. req' \in Lists
    BY <1>4 DEF LoadTree, Request, Lists
  <2> QED BY <1>4, <2>1 DEF LoadTree, Request, TypeOK
<1>5. ASSUME NEW v \in VMs, CreateSnapshot(v) PROVE TypeOK'
  <2>1. req' \in Creates
    BY <1>5 DEF CreateSnapshot, Request, Creates
  <2> QED BY <1>5, <2>1 DEF CreateSnapshot, Request, TypeOK
<1>6. ASSUME NEW b \in Browsers, NEW v \in VMs, NEW s \in snaps[v], AskRevert(b, v, s)
      PROVE  TypeOK'
  <2>1. s \in Snap
    BY DEF TypeOK
  <2>2. req' \in Confirms
    BY <1>6, <2>1 DEF AskRevert, Request, Confirms
  <2> QED BY <1>6, <2>2 DEF AskRevert, Request, TypeOK
<1>7. ASSUME NEW v \in VMs, NEW s \in snaps[v], AskDelete(v, s) PROVE TypeOK'
  <2>1. s \in Snap
    BY DEF TypeOK
  <2>2. req' \in Deletes
    BY <1>7, <2>1 DEF AskDelete, Request, Deletes
  <2> QED BY <1>7, <2>2 DEF AskDelete, Request, TypeOK
<1>8. ASSUME NEW b \in Browsers, NEW save \in BOOLEAN, ClickRevert(b, save) PROVE TypeOK'
  <2>1. dialog[b] \in Dialogs
    BY <1>8 DEF ClickRevert, TypeOK, NoDialog
  <2>2. req' \in Reverts
    BY <1>8, <2>1 DEF ClickRevert, Request, Reverts, Dialogs
  <2> QED BY <1>8, <2>2 DEF ClickRevert, Request, TypeOK
<1>9. ASSUME NEW b \in Browsers, CancelDialog(b) PROVE TypeOK'
  BY <1>9 DEF CancelDialog, TypeOK
<1>10. CASE ListForDirty
  <2>1. req.vm \in VMs /\ req \in Lists \cup Confirms
    BY <1>10, Kinds DEF ListForDirty, At, TypeOK, Lists, Confirms
  <2>2. PICK p \in Seen(req.vm) :
          IF req.op = "tree" THEN req' = [req EXCEPT !.step = "judge", !.seen = p]
          ELSE req' = [req EXCEPT !.step = "judge", !.seen = p,
                                  !.diverged = ~Kept(req.vm)]
    BY <1>10 DEF ListForDirty
  <2>3. p \in Power \cup {"unknown"} /\ Kept(req.vm) \in BOOLEAN
    BY <2>1 DEF Seen, TypeOK, Kept, Saved
  <2>4. req' \in Lists \cup Confirms
    BY <2>1, <2>2, <2>3 DEF Lists, Confirms
  <2> QED BY <1>10, <2>4 DEF ListForDirty, TypeOK
<1>11. CASE Judge
  <2>1. req.vm \in VMs /\ req \in Lists \cup Confirms
    BY <1>11, Kinds DEF Judge, At, TypeOK, Lists, Confirms
  <2>2. /\ GoTo("answer") \/ GoTo("save")
        /\ UNCHANGED ledgerVars \/ Ledger!Mark(req.vm, "dirty")
    BY <1>11 DEF Judge, PutMark
  <2>3. req' \in Lists \cup Confirms \cup Creates \cup Reverts
    BY <2>1, <2>2, GoesOn DEF Lists, Confirms, Deletes
  <2> QED BY <1>11, <2>1, <2>2, <2>3, MarkType DEF Judge, TypeOK
<1>12. CASE SaveMarks
  <2>1. req \in Lists \cup Confirms \cup Creates \cup Reverts
    BY <1>12 DEF SaveMarks, TypeOK, Deletes
  <2>2. req.vm \in VMs /\ req' \in Lists \cup Confirms \cup Creates \cup Reverts
    BY <1>12, <2>1, GoesOn DEF SaveMarks, Lists, Confirms, Creates, Reverts
  <2> QED BY <1>12, <2>2, MarkType DEF SaveMarks, TypeOK
<1>13. CASE AnswerTree
  <2>1. req.vm \in VMs
    BY <1>13, Kinds DEF AnswerTree, At, TypeOK, Lists
  <2> QED BY <1>13, <2>1 DEF AnswerTree, Watch, Finish, TypeOK
<1>14. CASE AnswerConfirm
  <2>1. req \in Confirms
    BY <1>14, Kinds DEF AnswerConfirm, At, TypeOK
  <2>2. dialog' \in [Browsers -> {NoDialog} \cup Dialogs]
    BY <1>14, <2>1 DEF AnswerConfirm, Kind, TypeOK, Confirms, Dialogs
  <2> QED BY <1>14, <2>1, <2>2 DEF AnswerConfirm, Watch, Finish, TypeOK, Confirms
<1>15. ASSUME NEW next \in {"clean", "revert"}, TakeSnapshot(next),
              (req \in Creates /\ next = "clean") \/ req \in Reverts
       PROVE  /\ req' \in {NoReq} \cup Creates \cup Reverts
              /\ snaps' \in [VMs -> SUBSET Snap]
              /\ UNCHANGED <<world, power, content, dropped>>
  <2>1. CASE Finish /\ UNCHANGED machineVars
    BY <2>1 DEF Finish, TypeOK
  <2>2. CASE /\ GoTo(next)
             /\ snaps' = [snaps EXCEPT ![req.vm] = @ \cup {Now(req.vm)}]
             /\ UNCHANGED <<world, power, content, dropped>>
    <3>1. req.vm \in VMs
      BY <1>15 DEF Creates, Reverts
    <3>2. Now(req.vm) \in Snap
      BY <3>1 DEF TypeOK, Snap, Now, Power
    <3>3. snaps' \in [VMs -> SUBSET Snap]
      BY <2>2, <3>1, <3>2 DEF TypeOK
    <3> QED BY <1>15, <2>2, <3>3, GoesOn
  <2> QED BY <1>15, <2>1, <2>2 DEF TakeSnapshot
<1>16. CASE Create
  <2>1. req \in Creates
    BY <1>16, Kinds DEF Create, At, TypeOK
  <2>2. TakeSnapshot("clean") /\ watched' \subseteq VMs
    BY <1>16 DEF Create, TypeOK
  <2>3. /\ req' \in {NoReq} \cup Creates \cup Reverts
        /\ snaps' \in [VMs -> SUBSET Snap]
        /\ UNCHANGED <<world, power, content, dropped>>
    BY <1>15, <2>1, <2>2
  <2> QED BY <1>16, <2>2, <2>3 DEF Create, TypeOK, Version, Snap
<1>17. CASE ListForRevert
  <2>1. req \in Reverts
    BY <1>17, Kinds DEF ListForRevert, At, TypeOK
  <2>2. Finish \/ GoTo("autosave") \/ GoTo("revert")
    BY <1>17 DEF ListForRevert
  <2>3. req' \in {NoReq} \cup Reverts
    BY <2>1, <2>2, GoesOn DEF Finish
  <2> QED BY <1>17, <2>3 DEF ListForRevert, TypeOK
<1>18. CASE AutoSave
  <2>1. req \in Reverts /\ TakeSnapshot("revert")
    BY <1>18, Kinds DEF AutoSave, At, TypeOK
  <2>2. /\ req' \in {NoReq} \cup Creates \cup Reverts
        /\ snaps' \in [VMs -> SUBSET Snap]
        /\ UNCHANGED <<world, power, content, dropped>>
    BY <1>15, <2>1
  <2> QED BY <1>18, <2>2 DEF AutoSave, TypeOK, Version, Snap
<1>19. CASE Revert
  <2>1. req \in Reverts
    BY <1>19, Kinds DEF Revert, At, TypeOK
  <2>2. req.vm \in VMs /\ req.snap.of \in Version /\ req.snap.power \in Power
    BY <2>1 DEF Reverts, Snap
  <2>3. req' \in Reverts
    BY <1>19, <2>1, GoesOn DEF Revert
  <2>4. content' \in [VMs -> Version] /\ power' \in [VMs -> Power] /\ watched' \subseteq VMs
    BY <1>19, <2>2 DEF Revert, TypeOK
  <2> QED BY <1>19, <2>3, <2>4 DEF Revert, TypeOK, Version, Snap
<1>20. CASE RevertFails
  BY <1>20 DEF RevertFails, Finish, TypeOK
<1>21. CASE MarkClean
  <2>1. req.vm \in VMs /\ req \in Creates \cup Reverts
    BY <1>21, Kinds DEF MarkClean, At, TypeOK, Creates, Reverts
  <2>2. /\ GoTo("answer") \/ GoTo("save")
        /\ UNCHANGED ledgerVars \/ Ledger!Mark(req.vm, "clean")
    BY <1>21 DEF MarkClean, PutMark
  <2>3. req' \in Lists \cup Confirms \cup Creates \cup Reverts
    BY <2>1, <2>2, GoesOn DEF Creates, Reverts, Deletes
  <2> QED BY <1>21, <2>1, <2>2, <2>3, MarkType DEF MarkClean, TypeOK
<1>22. CASE AnswerPost
  BY <1>22 DEF AnswerPost, Finish, TypeOK
<1>23. CASE ListForDelete
  <2>1. req \in Deletes
    BY <1>23, Kinds DEF ListForDelete, At, TypeOK
  <2>2. req' \in {NoReq} \cup Deletes
    BY <1>23, <2>1, GoesOn DEF ListForDelete, Finish
  <2> QED BY <1>23, <2>2 DEF ListForDelete, TypeOK
<1>24. CASE DeleteSnapshot
  <2>1. req \in Deletes
    BY <1>24, Kinds DEF DeleteSnapshot, At, TypeOK
  <2>2. snaps' \in [VMs -> SUBSET Snap] /\ dropped' \subseteq VMs
    BY <1>24, <2>1 DEF DeleteSnapshot, TypeOK, Deletes
  <2> QED BY <1>24, <2>2 DEF DeleteSnapshot, Finish, TypeOK
<1>25. CASE DeleteFails
  BY <1>25 DEF DeleteFails, Finish, TypeOK
<1>26. CASE Crash
  <2>1. mem' \in Ledger!Image /\ on' \in BOOLEAN /\ UNCHANGED <<disk, safe>>
    BY <1>26 DEF Crash, Ledger!GoDown, Ledger!Image, Ledger!Blank, Ledger!Marks
  <2> QED BY <1>26, <2>1 DEF Crash, Finish, TypeOK
<1>27. CASE Restart
  BY <1>27 DEF Restart, Ledger!ComeUp, TypeOK
<1>28. CASE UNCHANGED vars
  BY <1>28 DEF vars, TypeOK
<1> QED
  BY <1>1, <1>2, <1>3, <1>4, <1>5, <1>6, <1>8, <1>9, <1>7, <1>10, <1>11, <1>12,
     <1>13, <1>14,
     <1>16, <1>17, <1>18, <1>19, <1>20, <1>21, <1>22, <1>26, <1>27, <1>28, <1>23, <1>24,
     <1>25
  DEF Next, Windows, Handler

(* The variables keep their types.                                         *)
THEOREM TypeCorrect == Spec => []TypeOK
BY InitType, StepType, PTL DEF Spec

-----------------------------------------------------------------------------
(* What the steps of the handlers do.                                      *)

(* The list of the machines, before the marks are judged.                  *)
LEMMA Listed ==
    ASSUME TypeOK, ListForDirty
    PROVE  /\ req \in Lists \cup Confirms /\ req.vm \in VMs /\ req' # NoReq
           /\ req'.op = req.op /\ req'.vm = req.vm /\ req'.step = "judge"
           /\ req'.seen \in Seen(req.vm)
           /\ req.op = "confirm" => /\ req'.snap = req.snap /\ req'.by = req.by
                                    /\ req'.diverged = ~Kept(req.vm)
<1>1. req \in Lists \cup Confirms /\ req.vm \in VMs
  BY Kinds DEF ListForDirty, At, TypeOK, Lists, Confirms
<1>2. PICK p \in Seen(req.vm) :
        IF req.op = "tree" THEN req' = [req EXCEPT !.step = "judge", !.seen = p]
        ELSE req' = [req EXCEPT !.step = "judge", !.seen = p,
        !.diverged = ~Kept(req.vm)]
  BY DEF ListForDirty
<1> QED BY <1>1, <1>2 DEF Lists, Confirms, NoReq

(* The mark, if it is not there yet.                                       *)
LEMMA Marked ==
    ASSUME TypeOK, NEW m \in {"clean", "dirty"}, req # NoReq, PutMark(req.vm, m)
    PROVE  /\ on' = on /\ disk' = disk /\ mem' = [mem EXCEPT ![req.vm] = m]
           /\ req'.op = req.op /\ req'.vm = req.vm /\ req' # NoReq /\ req.vm \in VMs
           /\ req'.step \in {"save", "answer"}
           /\ req'.step = "answer" => mem' = mem
           /\ req \in Lists \cup Confirms => req'.seen = req.seen
           /\ req \in Confirms => req'.diverged = req.diverged
           /\ req \in Confirms \cup Reverts => req'.snap = req.snap
           /\ req \in Reverts => req'.save = req.save
<1>1. req \in Lists \cup Confirms \cup Creates \cup Reverts \cup Deletes /\ req.vm \in VMs
  BY DEF TypeOK, Lists, Confirms, Creates, Reverts, Deletes
<1>2. mem \in [VMs -> Ledger!Marks]
  BY DEF TypeOK, Ledger!Image
<1>3. CASE mem[req.vm] = m
  BY <1>1, <1>2, <1>3, GoesOn DEF PutMark, ledgerVars
<1>4. CASE mem[req.vm] # m
  BY <1>1, <1>2, <1>4, GoesOn DEF PutMark, Ledger!Mark
<1> QED BY <1>3, <1>4

(* The snapshot holds the state of the machine, or the request is over.    *)
LEMMA Taken ==
    ASSUME TypeOK, NEW next \in {"clean", "revert"}, TakeSnapshot(next),
           req \in Creates \cup Reverts
    PROVE  /\ req.vm \in VMs /\ UNCHANGED <<world, power, content, dropped>>
           /\ \A v \in VMs : snaps[v] \subseteq snaps'[v]
           /\ \/ req' = NoReq /\ UNCHANGED snaps
              \/ GoTo(next) /\ Saved(req.vm)'
<1>1. req.vm \in VMs
  BY DEF Creates, Reverts
<1>2. CASE Finish /\ UNCHANGED machineVars
  BY <1>1, <1>2 DEF Finish, machineVars
<1>3. CASE /\ GoTo(next)
           /\ snaps' = [snaps EXCEPT ![req.vm] = @ \cup {Now(req.vm)}]
           /\ UNCHANGED <<world, power, content, dropped>>
  <2>1. req'.vm = req.vm
    BY <1>3, GoesOn
  <2>2. Now(req.vm) \in snaps'[req.vm] /\ Now(req.vm).of = content[req.vm]
    BY <1>1, <1>3 DEF TypeOK, Now
  <2>3. content[req.vm] \in {s.of : s \in snaps'[req.vm]}
    BY <2>2
  <2> QED BY <1>1, <1>3, <2>1, <2>3 DEF Saved, TypeOK
<1> QED BY <1>2, <1>3 DEF TakeSnapshot

(* Of a delete, only the machine's snapshots change.                       *)
Deleting == ListForDelete \/ DeleteSnapshot \/ DeleteFails
LEMMA Deleted ==
    ASSUME TypeOK, Deleting
    PROVE  /\ req # NoReq /\ req.op = "delete" /\ req.vm \in VMs /\ req.step # "save"
           /\ req' = NoReq \/ (/\ req' # NoReq /\ req'.op = "delete" /\ req'.vm = req.vm
                              /\ req'.step = "delete")
           /\ UNCHANGED <<world, power, content, dialog, watched>> /\ UNCHANGED ledgerVars
<1> USE DEF machineVars
<1>1. req # NoReq /\ req.op = "delete" /\ req \in Deletes /\ req.step # "save"
  BY Kinds DEF Deleting, ListForDelete, DeleteSnapshot, DeleteFails, At, TypeOK
<1>2. req' = NoReq \/ GoTo("delete")
  BY DEF Deleting, ListForDelete, DeleteSnapshot, DeleteFails, Finish
<1>3. req' = NoReq \/ (/\ req' # NoReq /\ req'.op = "delete" /\ req'.vm = req.vm
                      /\ req'.step = "delete")
  BY <1>1, <1>2, GoesOn
<1>4. UNCHANGED <<world, power, content, dialog, watched>> /\ UNCHANGED ledgerVars
  BY DEF Deleting, ListForDelete, DeleteSnapshot, DeleteFails
<1> QED BY <1>1, <1>3, <1>4 DEF Deletes

(* A step of a handler is for a request, which stays what it is or is over. *)
LEMMA SameRequest ==
    ASSUME TypeOK, Handler
    PROVE  /\ req # NoReq /\ req.vm \in VMs
           /\ \/ req' = NoReq
              \/ /\ req' # NoReq /\ req'.op = req.op /\ req'.vm = req.vm
                 /\ req.op \in {"confirm", "revert"} => req'.snap = req.snap
                 /\ req.op = "revert" => req'.save = req.save
<1> DEFINE Same == \/ req' = NoReq
                   \/ /\ req' # NoReq /\ req'.op = req.op /\ req'.vm = req.vm
                      /\ req.op \in {"confirm", "revert"} => req'.snap = req.snap
                      /\ req.op = "revert" => req'.save = req.save
<1>0. req \in Lists \cup Confirms \cup Creates \cup Reverts \cup Deletes =>
                     \/ req \in Lists /\ req.op = "tree"
                     \/ req \in Confirms /\ req.op = "confirm"
                     \/ req \in Creates /\ req.op = "create"
                     \/ req \in Reverts /\ req.op = "revert"
                     \/ req \in Deletes /\ req.op = "delete"
  BY DEF Lists, Confirms, Creates, Reverts, Deletes
<1>1. req # NoReq
  BY Kinds
  DEF Handler, ListForDirty, Judge, SaveMarks, AnswerTree, AnswerConfirm, Create,
      ListForRevert, AutoSave, Revert, RevertFails, ListForDelete, DeleteSnapshot,
      DeleteFails,
      MarkClean, AnswerPost, At, TypeOK
<1>2. req \in Lists \cup Confirms \cup Creates \cup Reverts \cup Deletes /\ req.vm \in VMs
  BY <1>1 DEF TypeOK, Lists, Confirms, Creates, Reverts, Deletes
<1>3. ASSUME NEW st, GoTo(st) PROVE Same
  BY <1>0, <1>2, <1>3, GoesOn
<1>4. CASE ListForDirty
  <2>1. req.op # "revert"
    BY <1>4, Listed DEF Lists, Confirms
  <2> QED BY <1>1, <1>2, <1>4, <2>1, Listed
<1>5. CASE Judge \/ MarkClean
  <2>1. \/ PutMark(req.vm, "dirty") \/ PutMark(req.vm, "clean")
        \/ GoTo("answer")
    BY <1>5 DEF Judge, MarkClean
  <2> QED BY <1>0, <1>1, <1>2, <1>3, <2>1, Marked
<1>6. CASE SaveMarks \/ ListForRevert \/ Revert
  BY <1>1, <1>2, <1>3, <1>6 DEF SaveMarks, ListForRevert, Revert, Finish
<1>7. CASE Create \/ AutoSave
  BY <1>1, <1>2, <1>3, <1>7 DEF Create, AutoSave, TakeSnapshot, Finish
<1>8. CASE AnswerTree \/ AnswerConfirm \/ RevertFails \/ AnswerPost
  BY <1>1, <1>2, <1>8 DEF AnswerTree, AnswerConfirm, RevertFails, AnswerPost, Finish
<1>9. CASE Deleting
  BY <1>9, Deleted
<1> QED BY <1>1, <1>2, <1>4, <1>5, <1>6, <1>7, <1>8, <1>9 DEF Handler, Deleting

-----------------------------------------------------------------------------
(* Reverts.                                                                *)
LEMMA StepReady == TypeOK /\ RevertReady /\ [Next]_vars => RevertReady'
<1> SUFFICES ASSUME TypeOK, RevertReady, [Next]_vars, Known', req'.op = "revert",
                    req'.step \in {"autosave", "revert"}
             PROVE  /\ power'[req'.vm] # "running"
                    /\ req'.step = "revert" /\ req'.save => Saved(req.vm)'
  BY DEF RevertReady
<1> USE DEF machineVars
<1>0. NoReq.op = "none"
  BY DEF NoReq
<1>1. ~External /\ ~ListFaults
  BY WorldStays DEF Known, External, ListFaults
<1>2. ASSUME UNCHANGED req
      PROVE  /\ req \in Reverts /\ req.vm \in VMs /\ req # NoReq
             /\ power[req.vm] # "running"
             /\ req.step = "revert" /\ req.save => Saved(req.vm)
  BY <1>1, <1>2, Kinds DEF RevertReady, Known, TypeOK, Reverts
<1>3. ASSUME NEW v \in VMs, GuestWrites(v) \/ PowerUp(v) \/ PowerDown(v)
      PROVE  /\ power'[req'.vm] # "running"
             /\ req'.step = "revert" /\ req'.save => Saved(req.vm)'
  BY <1>1, <1>2, <1>3 DEF GuestWrites, PowerUp, PowerDown, TypeOK, Saved
<1>4. CASE Windows
  <2>1. req' = req \/ req'.op # "revert" \/ req'.step = "list"
    BY <1>4 DEF Windows, LoadTree, CreateSnapshot, AskRevert, AskDelete, ClickRevert,
       CancelDialog, Request
  <2>2. req' = req /\ UNCHANGED machineVars
    BY <1>4, <2>1
    DEF Windows, LoadTree, CreateSnapshot, AskRevert, AskDelete, ClickRevert,
        CancelDialog, Request
  <2> QED BY <1>2, <2>2 DEF Saved
<1>5. CASE Handler
  <2>1. /\ req.op = "revert" /\ req'.vm = req.vm /\ req'.save = req.save
        /\ req \in Reverts /\ req.vm \in VMs
    BY <1>5, SameRequest, Kinds DEF TypeOK
  <2>2. CASE ListForRevert
    <3>1. /\ power[req.vm] # "running"
          /\ GoTo(IF req.save THEN "autosave" ELSE "revert")
      BY <1>0, <1>1, <2>2 DEF ListForRevert, Seen, Finish
    <3>2. req'.step = (IF req.save THEN "autosave" ELSE "revert")
      BY <2>1, <3>1, GoesOn
    <3> QED BY <2>1, <2>2, <3>1, <3>2 DEF ListForRevert
  <2>3. CASE AutoSave
    <3>1. power[req.vm] # "running"
      BY <1>1, <2>1, <2>3 DEF AutoSave, At, RevertReady, Known
    <3>2. TakeSnapshot("revert") /\ req' # NoReq
      BY <1>0, <2>3 DEF AutoSave
    <3> QED BY <2>1, <3>1, <3>2, Taken
  <2>4. CASE Revert \/ SaveMarks
    BY <2>1, <2>4, GoesOn DEF Revert, SaveMarks
  <2>5. CASE MarkClean
    BY <1>0, <2>1, <2>5, Marked DEF MarkClean
  <2>6. CASE ListForDirty \/ Judge \/ Create
    BY <2>1, <2>6 DEF ListForDirty, Judge, Create, At
  <2>7. CASE AnswerTree \/ AnswerConfirm \/ RevertFails \/ AnswerPost
    BY <1>0, <2>7 DEF AnswerTree, AnswerConfirm, RevertFails, AnswerPost, Finish
  <2>8. ~Deleting
    BY <2>1, Deleted
  <2> QED BY <1>5, <2>2, <2>3, <2>4, <2>5, <2>6, <2>7, <2>8 DEF Handler, Deleting
<1>6. CASE Crash
  BY <1>0, <1>6 DEF Crash, Finish
<1>7. CASE Restart \/ UNCHANGED vars
  BY <1>2, <1>7 DEF Restart, vars, Saved
<1> QED BY <1>3, <1>4, <1>5, <1>6, <1>7 DEF Next

-----------------------------------------------------------------------------
(* Marks.                                                                  *)

(* Steps that leave the marks, and what has been seen of the runs, alone.  *)
LEMMA MarksStay ==
    ASSUME TypeOK, MarksInv, [Next]_vars, UNCHANGED ledgerVars, UNCHANGED watched,
           req = NoReq \/ req.step # "save" \/ UNCHANGED req,
           req' = NoReq \/ UNCHANGED req \/ (on /\ req'.step \notin {"save", "answer", "clean"})
    PROVE  MarksInv'
<1> USE DEF MarksInv, ledgerVars
<1>1. SaveFaults' = SaveFaults
  BY WorldStays DEF SaveFaults
<1>2. NoReq.op \notin Asks \cup Posts
  BY DEF NoReq, Asks, Posts
<1>3. Serving' /\ Synced'
  BY <1>1 DEF Serving, Synced
<1>4. Noted' /\ Settling'
  BY <1>2 DEF Noted, Settling
<1>5. WatchedIsRemembered'
  BY <1>1 DEF WatchedIsRemembered
<1> QED BY <1>3, <1>4, <1>5

LEMMA StepMarks == TypeOK /\ MarksInv /\ [Next]_vars => MarksInv'
<1> SUFFICES ASSUME TypeOK, MarksInv, [Next]_vars PROVE MarksInv'
  OBVIOUS
<1> USE DEF machineVars
<1>0. /\ NoReq.op = "none" /\ SaveFaults' = SaveFaults
      /\ mem \in [VMs -> Ledger!Marks] /\ watched \subseteq VMs
  BY WorldStays DEF NoReq, SaveFaults, TypeOK, Ledger!Image
<1>1. ASSUME NEW v \in VMs, GuestWrites(v) \/ PowerUp(v) \/ PowerDown(v) PROVE MarksInv'
  BY <1>1, MarksStay DEF GuestWrites, PowerUp, PowerDown
<1>2. CASE Windows
  <2>1. UNCHANGED ledgerVars /\ UNCHANGED watched
    BY <1>2
    DEF Windows, LoadTree, CreateSnapshot, AskRevert, AskDelete, ClickRevert,
        CancelDialog, Request
  <2>2. \/ UNCHANGED req
        \/ on /\ req = NoReq /\ req'.step \in {"list", "create"}
    BY <1>2
    DEF Windows, LoadTree, CreateSnapshot, AskRevert, AskDelete, ClickRevert,
        CancelDialog, Request
  <2> QED BY <2>1, <2>2, MarksStay
<1>3. ASSUME Handler PROVE on /\ req # NoReq /\ req.vm \in VMs
  BY <1>3, SameRequest DEF MarksInv, Serving
<1>4. CASE ListForDirty
  <2>1. req.step = "list" /\ req'.step = "judge" /\ on
    BY <1>3, <1>4, Listed DEF ListForDirty, At, Handler
  <2> QED BY <1>4, <2>1, MarksStay DEF ListForDirty
<1>5. CASE Judge
  <2>1. /\ req \in Lists \cup Confirms /\ req.op \in Asks /\ req.step = "judge"
        /\ req # NoReq /\ req.vm \in VMs /\ on
    BY <1>3, <1>5, Kinds DEF Judge, At, TypeOK, Asks, Handler
  <2>2. CASE ~Observes(req.vm, req.seen)
    <3>1. /\ UNCHANGED <<ledgerVars, watched>> /\ GoTo("answer")
          /\ req.seen # "running"
      BY <1>5, <2>2 DEF Judge, Observes
    <3>2. req'.step = "answer" /\ req'.op \in Asks /\ req'.seen # "running" /\ req' # NoReq
      BY <2>1, <3>1, GoesOn
    <3> QED
      BY <1>0, <2>1, <3>1, <3>2
      DEF MarksInv, Serving, Synced, Noted, Settling, WatchedIsRemembered, ledgerVars,
          Asks, Posts
  <2>3. CASE PutMark(req.vm, "dirty")
    <3>1. /\ on' = on /\ disk' = disk /\ mem' = [mem EXCEPT ![req.vm] = "dirty"]
          /\ req'.op = req.op /\ req'.vm = req.vm /\ req' # NoReq
          /\ req'.step \in {"save", "answer"}
          /\ req'.step = "answer" => mem' = mem
      BY <2>1, <2>3, Marked
    <3>2. UNCHANGED watched
      BY <1>5 DEF Judge
    <3> QED
      BY <1>0, <2>1, <3>1, <3>2
      DEF MarksInv, Serving, Synced, Noted, Settling, WatchedIsRemembered, Asks, Posts
  <2> QED BY <1>5, <2>2, <2>3 DEF Judge
<1>6. CASE SaveMarks
  <2>1. /\ req'.step = "answer" /\ req' # NoReq /\ req'.op = req.op
        /\ req.op \in Asks => req'.vm = req.vm /\ req'.seen = req.seen
    BY <1>6, Kinds, GoesOn DEF SaveMarks, TypeOK, Asks
  <2>2. /\ on /\ on' = on /\ mem' = mem /\ UNCHANGED watched
        /\ disk' = mem \/ (SaveFaults /\ disk' = disk)
    BY <1>3, <1>6 DEF SaveMarks, Ledger!Flush, ledgerVars, Handler
  <2> QED
    BY <1>0, <1>6, <2>1, <2>2
    DEF MarksInv, Serving, Synced, Noted, Settling, WatchedIsRemembered, SaveMarks
<1>7. CASE AnswerTree \/ AnswerConfirm
  <2>1. /\ req.op \in Asks /\ req.step = "answer" /\ req' = NoReq /\ UNCHANGED ledgerVars
        /\ watched' = IF req.seen = "running" THEN watched \cup {req.vm} ELSE watched
    BY <1>7 DEF AnswerTree, AnswerConfirm, At, Asks, Finish, Watch
  <2>2. on /\ (req.seen = "running" => mem[req.vm] = "dirty") /\ (~SaveFaults => disk = mem)
    BY <1>3, <1>7, <2>1 DEF MarksInv, Noted, Synced, Handler
  <2> QED
    BY <1>0, <2>1, <2>2
    DEF MarksInv, Serving, Synced, Noted, Settling, WatchedIsRemembered, ledgerVars,
        Asks, Posts
<1>8. CASE Create \/ Revert
  <2>1. /\ req.op \in Posts /\ req.step \in {"create", "revert"} /\ UNCHANGED ledgerVars
        /\ \/ req' = NoReq /\ UNCHANGED watched
           \/ GoTo("clean") /\ watched' = watched \ {req.vm}
    BY <1>8, Kinds, GoesOn
    DEF Create, Revert, At, Posts, TakeSnapshot, Finish, TypeOK
  <2>2. CASE req' = NoReq /\ UNCHANGED watched
    BY <2>1, <2>2, MarksStay
  <2>3. CASE GoTo("clean") /\ watched' = watched \ {req.vm}
    <3>1. /\ req'.step = "clean" /\ req' # NoReq /\ req'.op = req.op /\ req'.vm = req.vm
          /\ on
      BY <1>3, <1>8, <2>3, Kinds, GoesOn DEF TypeOK, Handler
    <3> QED
      BY <1>0, <2>1, <2>3, <3>1
      DEF MarksInv, Serving, Synced, Noted, Settling, WatchedIsRemembered, ledgerVars,
          Asks, Posts
  <2> QED BY <2>1, <2>2, <2>3
<1>9. CASE ListForRevert \/ AutoSave
  <2>1. /\ req.op = "revert" /\ req.step # "save" /\ UNCHANGED <<ledgerVars, watched>>
        /\ req' = NoReq \/ GoTo("autosave") \/ GoTo("revert")
    BY <1>9 DEF ListForRevert, AutoSave, At, TakeSnapshot, Finish
  <2>2. on /\ (req' = NoReq \/ req'.step \in {"autosave", "revert"})
    BY <1>3, <1>9, <2>1, Kinds, GoesOn DEF TypeOK, Handler
  <2> QED BY <2>1, <2>2, MarksStay
<1>10. CASE MarkClean
  <2>1. /\ req.op \in Posts /\ req.step = "clean" /\ PutMark(req.vm, "clean")
        /\ UNCHANGED watched /\ on /\ req # NoReq
    BY <1>3, <1>10 DEF MarkClean, At, Posts, Handler
  <2>2. /\ on' = on /\ disk' = disk /\ mem' = [mem EXCEPT ![req.vm] = "clean"]
        /\ req'.op = req.op /\ req'.vm = req.vm /\ req' # NoReq
        /\ req'.step \in {"save", "answer"}
        /\ req'.step = "answer" => mem' = mem
    BY <2>1, Marked
  <2>3. req.vm \notin watched
    BY <2>1 DEF MarksInv, Settling
  <2> QED
    BY <1>0, <2>1, <2>2, <2>3
    DEF MarksInv, Serving, Synced, Noted, Settling, WatchedIsRemembered, Asks, Posts
<1>11. CASE RevertFails \/ AnswerPost
  BY <1>11, MarksStay DEF RevertFails, AnswerPost, At, Finish
<1>12. CASE Deleting
  <2>1. on
    BY <1>3, <1>12 DEF Handler, Deleting
  <2> QED BY <1>12, <2>1, Deleted, MarksStay
<1>13. CASE Crash
  BY <1>0, <1>13
  DEF Crash, Finish, Ledger!GoDown, MarksInv, Serving, Synced, Noted, Settling,
      WatchedIsRemembered, Asks, Posts
<1>14. CASE Restart
  BY <1>0, <1>14
  DEF Restart, Ledger!ComeUp, MarksInv, Serving, Synced, Noted, Settling,
      WatchedIsRemembered, Asks, Posts
<1>15. CASE UNCHANGED vars
  BY <1>15, MarksStay DEF vars, ledgerVars
<1> QED
  BY <1>1, <1>2, <1>4, <1>5, <1>6, <1>7, <1>8, <1>9, <1>10, <1>11, <1>13, <1>14, <1>15,
     <1>12
  DEF Next, Handler, Deleting

-----------------------------------------------------------------------------
(* Runs that are observed.                                                 *)
LEMMA ObservedStays ==
    ASSUME [Next]_vars, Observed'
    PROVE  /\ Observed /\ WatchRuns /\ ~External /\ ~ListFaults /\ ~SaveFaults
BY WorldStays DEF Observed, WatchRuns, External, ListFaults, SaveFaults

(* What is kept stays so until the guest writes.                           *)
LEMMA KeptStays ==
    ASSUME TypeOK, [Next]_vars, NEW v \in VMs, content'[v] = content[v], Kept(v)
    PROVE  Kept(v)'
<1>1. ASSUME snaps[v] \subseteq snaps'[v], v \in dropped => v \in dropped' PROVE Kept(v)'
  BY <1>1 DEF Kept, Saved
<1>2. CASE Create \/ AutoSave
  <2>1. req \in Creates \cup Reverts /\ (TakeSnapshot("clean") \/ TakeSnapshot("revert"))
    BY <1>2, Kinds DEF Create, AutoSave, At, TypeOK
  <2> QED BY <1>1, <2>1, Taken
<1>3. CASE DeleteSnapshot
  <2>1. req.vm \in VMs /\ (v # req.vm => snaps'[v] = snaps[v]) /\ dropped \subseteq dropped'
    BY <1>3, Deleted DEF DeleteSnapshot, Deleting, TypeOK
  <2>2. CASE v = req.vm /\ content[v] = req.snap.of
    BY <1>3, <2>2 DEF DeleteSnapshot, Kept
  <2>3. CASE v = req.vm /\ content[v] # req.snap.of
    <3>1. snaps'[v] = snaps[v] \ {req.snap}
      BY <1>3, <2>1, <2>3 DEF DeleteSnapshot, TypeOK
    <3>2. \A s \in snaps[v] : content[v] = s.of => s \in snaps'[v]
      BY <2>3, <3>1
    <3> QED BY <2>1, <3>2 DEF Kept, Saved
  <2> QED BY <1>1, <2>1, <2>2, <2>3
<1>4. ASSUME NEW w \in VMs, GuestWrites(w) PROVE Kept(v)'
  <2>1. v # w
    BY <1>4 DEF GuestWrites, TypeOK
  <2> QED BY <1>1, <1>4, <2>1 DEF GuestWrites
<1>5. CASE Revert
  <2>1. CASE v = req.vm
    BY <1>5, <2>1 DEF Revert, TypeOK, Kept, Saved
  <2>2. CASE v # req.vm
    BY <1>1, <1>5, <2>2 DEF Revert
  <2> QED BY <2>1, <2>2
<1>6. CASE UNCHANGED <<snaps, dropped>>
  BY <1>1, <1>6
<1> QED
  BY <1>2, <1>3, <1>4, <1>5, <1>6
  DEF Next, Windows, Handler, vars, machineVars, PowerUp, PowerDown,
     LoadTree, CreateSnapshot, AskRevert, AskDelete, ClickRevert, Request, CancelDialog,
     ListForDirty, Judge, SaveMarks, AnswerTree, AnswerConfirm, ListForRevert,
     RevertFails, ListForDelete, DeleteFails, MarkClean, AnswerPost, Crash, Restart

(* A revert puts one machine in a state that a snapshot of it holds.       *)
LEMMA Reverted ==
    ASSUME TypeOK, Revert
    PROVE  /\ req.vm \in VMs /\ req'.op = "revert" /\ req'.vm = req.vm /\ req'.step = "clean"
           /\ Kept(req.vm)'
           /\ \A v \in VMs \ {req.vm} : power'[v] = power[v] /\ content'[v] = content[v]
           /\ UNCHANGED <<world, snaps, dialog>> /\ UNCHANGED ledgerVars
<1>1. req \in Reverts /\ req.snap \in snaps[req.vm] /\ req.vm \in VMs
  BY Kinds DEF Revert, At, TypeOK, Reverts
<1>2. req'.vm = req.vm /\ req'.step = "clean" /\ req'.op = "revert"
  BY <1>1, GoesOn DEF Revert, At
<1>3. content'[req.vm] = req.snap.of /\ req.snap \in snaps'[req.vm]
  BY <1>1 DEF Revert, TypeOK
<1>4. Kept(req.vm)'
  BY <1>2, <1>3 DEF Kept, Saved
<1> QED BY <1>1, <1>2, <1>4 DEF Revert, TypeOK

(* A machine that comes to be in no snapshot, not running, was running and *)
(* watched.                                                                *)
LEMMA NewlyDiverged ==
    ASSUME TypeOK, [Next]_vars, Observed', NEW v \in VMs, Diverged(v)'
    PROVE  Diverged(v) \/ (v \in watched /\ UNCHANGED ledgerVars)
<1> USE DEF machineVars
<1>1. ASSUME power'[v] = power[v], content'[v] = content[v] PROVE Diverged(v)
  BY <1>1, KeptStays DEF Diverged
<1>2. ASSUME NEW w \in VMs, GuestWrites(w) PROVE Diverged(v)
  <2>1. v # w
    BY <1>2 DEF GuestWrites, Diverged
  <2> QED BY <1>1, <1>2, <2>1 DEF GuestWrites, TypeOK
<1>3. ASSUME NEW w \in VMs, PowerUp(w) PROVE Diverged(v)
  <2>1. v # w
    BY <1>3 DEF PowerUp, Diverged, TypeOK
  <2> QED BY <1>1, <1>3, <2>1 DEF PowerUp, TypeOK
<1>4. ASSUME NEW w \in VMs, PowerDown(w)
      PROVE  Diverged(v) \/ (v \in watched /\ UNCHANGED ledgerVars)
  <2>1. CASE v # w
    BY <1>1, <1>4, <2>1 DEF PowerDown, TypeOK
  <2>2. CASE v = w
    <3>1. ~Kept(v)
      BY <1>4, KeptStays DEF PowerDown, Diverged
    <3>2. WatchRuns
      BY ObservedStays
    <3> QED BY <1>4, <2>2, <3>1, <3>2 DEF PowerDown, Diverged
  <2> QED BY <2>1, <2>2
<1>5. CASE Revert
  <2>1. v # req.vm
    BY <1>5, Reverted DEF Diverged, Kept, Saved
  <2> QED BY <1>1, <1>5, <2>1, Reverted
<1>6. CASE UNCHANGED <<power, content>>
  BY <1>1, <1>6
<1> QED
  BY <1>2, <1>3, <1>4, <1>5, <1>6
  DEF Next, Windows, Handler, vars,
     LoadTree, CreateSnapshot, AskRevert, AskDelete, ClickRevert, Request, CancelDialog,
     ListForDirty, Judge, SaveMarks, AnswerTree, AnswerConfirm, Create, TakeSnapshot,
     ListForRevert, AutoSave, RevertFails, ListForDelete, DeleteSnapshot, DeleteFails,
     MarkClean, AnswerPost, Crash, Restart

(* Nothing but the mark set after a create or a revert makes a mark clean. *)
LEMMA DirtyStays ==
    ASSUME TypeOK, MarksInv, [Next]_vars, Observed', NEW v \in VMs,
           disk[v] = "dirty", on => mem[v] = "dirty",
           MarkClean => req.vm # v
    PROVE  disk'[v] = "dirty" /\ (on' => mem'[v] = "dirty")
<1> USE DEF machineVars, ledgerVars
<1>1. mem \in [VMs -> Ledger!Marks]
  BY DEF TypeOK, Ledger!Image
<1>2. CASE Judge
  <2>1. req # NoReq
    BY <1>2, Kinds DEF Judge, At
  <2>2. CASE PutMark(req.vm, "dirty")
    BY <1>1, <2>1, <2>2, Marked
  <2>3. CASE UNCHANGED ledgerVars
    BY <2>3
  <2> QED BY <1>2, <2>2, <2>3 DEF Judge
<1>3. CASE MarkClean
  <2>1. req # NoReq /\ PutMark(req.vm, "clean")
    BY <1>3, Kinds DEF MarkClean, At
  <2> QED BY <1>1, <1>3, <2>1, Marked
<1>4. CASE SaveMarks
  BY <1>4 DEF SaveMarks, Ledger!Flush
<1>5. CASE Crash
  BY <1>5 DEF Crash, Ledger!GoDown
<1>6. CASE Restart
  BY <1>6 DEF Restart, Ledger!ComeUp
<1>7. CASE UNCHANGED ledgerVars
  BY <1>7
<1> QED
  BY <1>2, <1>3, <1>4, <1>5, <1>6, <1>7
  DEF Next, Windows, Handler, vars, GuestWrites, PowerUp, PowerDown,
     LoadTree, CreateSnapshot, AskRevert, AskDelete, ClickRevert, Request, CancelDialog,
     ListForDirty, AnswerTree, AnswerConfirm, Create,
     ListForRevert, AutoSave, Revert, RevertFails, ListForDelete, DeleteSnapshot,
     DeleteFails, AnswerPost

LEMMA StepDiverged ==
    TypeOK /\ MarksInv /\ Settled /\ DivergedMarked /\ [Next]_vars
        => DivergedMarked'
<1> SUFFICES ASSUME TypeOK, MarksInv, Settled, DivergedMarked, [Next]_vars,
                    Observed', NEW v \in VMs, Diverged(v)'
             PROVE  disk'[v] = "dirty" /\ (on' => mem'[v] = "dirty")
  BY DEF DivergedMarked
<1>1. Observed /\ ~SaveFaults
  BY ObservedStays
<1>2. CASE Diverged(v)
  <2>1. disk[v] = "dirty" /\ (on => mem[v] = "dirty")
    BY <1>1, <1>2 DEF DivergedMarked
  <2>2. MarkClean => req.vm # v
    BY <1>1, <1>2, Kinds DEF MarkClean, At, Settled, Posts, Diverged, TypeOK
  <2> QED BY <2>1, <2>2, DirtyStays
<1>3. CASE v \in watched /\ UNCHANGED ledgerVars
  BY <1>1, <1>3 DEF MarksInv, WatchedIsRemembered, ledgerVars
<1> QED BY <1>2, <1>3, NewlyDiverged

LEMMA StepSettled ==
    TypeOK /\ MarksInv /\ Settled /\ [Next]_vars => Settled'
<1> SUFFICES ASSUME TypeOK, MarksInv, Settled, [Next]_vars, Observed',
                    req'.op \in Posts, req'.step = "clean"
             PROVE  (power[req.vm] = "running" \/ Kept(req.vm))'
  BY DEF Settled
<1> USE DEF machineVars
<1>0. NoReq.op = "none" /\ WatchRuns /\ Observed
  BY ObservedStays DEF NoReq
<1>1. ASSUME UNCHANGED req
      PROVE  /\ req.vm \in VMs /\ req.vm \notin watched
             /\ power[req.vm] = "running" \/ Kept(req.vm)
  BY <1>0, <1>1, Kinds DEF Settled, MarksInv, Settling, TypeOK, Posts, Creates, Reverts
<1>2. ASSUME UNCHANGED req, power'[req.vm] = power[req.vm],
             content'[req.vm] = content[req.vm]
      PROVE  (power[req.vm] = "running" \/ Kept(req.vm))'
  <2>1. CASE Kept(req.vm)
    <3>1. Kept(req.vm)'
      BY <1>1, <1>2, <2>1, KeptStays DEF Kept, Saved
    <3> QED BY <3>1
  <2> QED BY <1>1, <1>2, <2>1
<1>3. ASSUME NEW v \in VMs, GuestWrites(v)
      PROVE  (power[req.vm] = "running" \/ Kept(req.vm))'
  <2>1. CASE v = req.vm
    BY <1>3, <2>1 DEF GuestWrites
  <2> QED BY <1>1, <1>2, <1>3, <2>1 DEF GuestWrites, TypeOK
<1>4. ASSUME NEW v \in VMs, PowerUp(v)
      PROVE  (power[req.vm] = "running" \/ Kept(req.vm))'
  <2>1. CASE v = req.vm
    BY <1>4, <2>1 DEF PowerUp, TypeOK
  <2> QED BY <1>1, <1>2, <1>4, <2>1 DEF PowerUp, TypeOK
<1>5. ASSUME NEW v \in VMs, PowerDown(v)
      PROVE  (power[req.vm] = "running" \/ Kept(req.vm))'
  <2>1. CASE v = req.vm
    <3>1. Kept(req.vm) /\ UNCHANGED <<req, content, snaps, dropped>>
      BY <1>0, <1>1, <1>5, <2>1 DEF PowerDown
    <3> QED BY <3>1 DEF Kept, Saved
  <2> QED BY <1>1, <1>2, <1>5, <2>1 DEF PowerDown, TypeOK
<1>6. CASE Handler
  <2>1. /\ req.vm \in VMs /\ req' # NoReq /\ req'.op = req.op /\ req.op \in Posts
    BY <1>0, <1>6, SameRequest DEF Posts
  <2>2. CASE Create
    <3>1. req \in Creates /\ TakeSnapshot("clean")
      BY <2>2, Kinds DEF Create, At, TypeOK
    <3> QED BY <2>1, <3>1, Taken DEF Kept
  <2>3. CASE Revert
    BY <2>1, <2>3, Reverted DEF Kept, Saved
  <2>4. CASE AutoSave
    <3>1. req \in Reverts /\ TakeSnapshot("revert")
      BY <2>4, Kinds DEF AutoSave, At, TypeOK
    <3>2. GoTo("revert")
      BY <2>1, <3>1, Taken
    <3> QED BY <3>1, <3>2, GoesOn
  <2>5. CASE ListForRevert
    BY <2>1, <2>5, Kinds, GoesOn DEF ListForRevert, At, Finish, TypeOK
  <2>6. CASE MarkClean
    BY <2>1, <2>6, Marked, Kinds DEF MarkClean, At
  <2>7. CASE SaveMarks
    BY <2>1, <2>7, Kinds, GoesOn DEF SaveMarks, TypeOK
  <2>8. ~Deleting
    BY <2>1, Deleted DEF Posts
  <2> QED
    BY <1>6, <2>1, <2>2, <2>3, <2>4, <2>5, <2>6, <2>7, <2>8
    DEF Handler, Deleting, ListForDirty, Judge, AnswerTree, AnswerConfirm,
        RevertFails, AnswerPost,
        At, Finish, Posts
<1>7. CASE Windows
  <2>1. req' = req \/ req'.step # "clean"
    BY <1>7
    DEF Windows, LoadTree, CreateSnapshot, AskRevert, AskDelete, ClickRevert,
        CancelDialog, Request
  <2>2. UNCHANGED machineVars
    BY <1>7
    DEF Windows, LoadTree, CreateSnapshot, AskRevert, AskDelete, ClickRevert,
        CancelDialog, Request
  <2> QED BY <1>2, <2>1, <2>2
<1>8. CASE Crash
  BY <1>0, <1>8 DEF Crash, Finish, Posts
<1>9. CASE Restart \/ UNCHANGED vars
  BY <1>2, <1>9 DEF Restart, vars
<1> QED BY <1>3, <1>4, <1>5, <1>6, <1>7, <1>8, <1>9 DEF Next

LEMMA StepToTell ==
    TypeOK /\ MarksInv /\ DivergedMarked /\ DialogToTell /\ [Next]_vars => DialogToTell'
<1> SUFFICES ASSUME TypeOK, MarksInv, DivergedMarked, DialogToTell, [Next]_vars,
                    Observed', req'.op = "confirm", req'.step # "list"
             PROVE  /\ req'.seen # "unknown"
                    /\ req'.diverged /\ req'.seen # "running" => mem'[req'.vm] = "dirty"
  BY DEF DialogToTell
<1> DEFINE Told == /\ req'.seen # "unknown"
                   /\ req'.diverged /\ req'.seen # "running" => mem'[req'.vm] = "dirty"
<1> USE DEF machineVars, ledgerVars
<1>0. NoReq.op = "none" /\ ~ListFaults /\ Observed
  BY ObservedStays DEF NoReq
<1>1. ASSUME UNCHANGED <<req, mem>> PROVE Told
  BY <1>0, <1>1 DEF DialogToTell
<1>2. CASE Handler
  <2>1. /\ on /\ req # NoReq /\ req.vm \in VMs /\ req.op = "confirm" /\ req \in Confirms
        /\ req'.op = req.op /\ req'.vm = req.vm
    BY <1>0, <1>2, SameRequest, Kinds DEF MarksInv, Serving, TypeOK
  <2>2. CASE ListForDirty
    <3>1. /\ req'.seen = power[req.vm] /\ req'.diverged = ~Kept(req.vm)
          /\ UNCHANGED mem
      BY <1>0, <2>1, <2>2, Listed DEF Seen, ListForDirty
    <3>2. req'.seen # "unknown"
      BY <2>1, <3>1 DEF TypeOK, Power
    <3>3. req'.diverged /\ req'.seen # "running" => Diverged(req.vm)
      BY <3>1 DEF Diverged
    <3> QED BY <1>0, <2>1, <3>1, <3>2, <3>3 DEF DivergedMarked
  <2>3. ASSUME req.step # "list"
        PROVE  /\ req.seen # "unknown"
               /\ req.diverged /\ req.seen # "running" => mem[req.vm] = "dirty"
    BY <1>0, <2>1, <2>3 DEF DialogToTell
  <2>4. CASE Judge
    <3>1. req.step = "judge"
      BY <2>4 DEF Judge, At
    <3>2. CASE PutMark(req.vm, "dirty")
      <4>1. mem \in [VMs -> Ledger!Marks]
        BY DEF TypeOK, Ledger!Image
      <4> QED BY <2>1, <2>3, <3>1, <3>2, <4>1, Marked
    <3>3. CASE GoTo("answer") /\ UNCHANGED ledgerVars
      BY <2>1, <2>3, <3>1, <3>3, GoesOn
    <3> QED BY <2>4, <3>2, <3>3 DEF Judge
  <2>5. CASE SaveMarks
    <3>1. req.step = "save" /\ GoTo("answer") /\ mem' = mem
      BY <2>5 DEF SaveMarks, Ledger!Flush
    <3> QED BY <2>1, <2>3, <3>1, GoesOn
  <2>6. ~Deleting
    BY <2>1, Deleted
  <2> QED
    BY <1>0, <1>2, <2>1, <2>2, <2>4, <2>5, <2>6
    DEF Handler, Deleting, AnswerTree, AnswerConfirm, Create, ListForRevert,
        AutoSave, Revert,
        RevertFails, MarkClean, AnswerPost, At, Finish
<1>3. CASE Windows
  <2>1. req' = req \/ req'.op # "confirm" \/ req'.step = "list"
    BY <1>3
    DEF Windows, LoadTree, CreateSnapshot, AskRevert, AskDelete, ClickRevert,
        CancelDialog, Request
  <2>2. UNCHANGED mem
    BY <1>3
    DEF Windows, LoadTree, CreateSnapshot, AskRevert, AskDelete, ClickRevert,
        CancelDialog, Request
  <2> QED BY <1>1, <2>1, <2>2
<1>4. CASE Crash \/ Restart
  BY <1>0, <1>4 DEF Crash, Restart, Finish, Ledger!ComeUp, MarksInv, Serving
<1>5. ASSUME NEW v \in VMs, GuestWrites(v) \/ PowerUp(v) \/ PowerDown(v) PROVE Told
  BY <1>1, <1>5 DEF GuestWrites, PowerUp, PowerDown
<1>6. CASE UNCHANGED vars
  BY <1>1, <1>6 DEF vars
<1> QED BY <1>2, <1>3, <1>4, <1>5, <1>6 DEF Next

LEMMA StepWarned ==
    TypeOK /\ DialogToTell /\ WarnedIfDiverged /\ [Next]_vars => WarnedIfDiverged'
<1> SUFFICES ASSUME TypeOK, DialogToTell, WarnedIfDiverged, [Next]_vars, Observed',
                    NEW b \in Browsers, dialog'[b].kind = "simple"
             PROVE  ~dialog'[b].diverged
  BY DEF WarnedIfDiverged
<1>0. Observed /\ NoDialog.kind = "none"
  BY ObservedStays DEF NoDialog
<1>1. CASE dialog'[b] = dialog[b]
  BY <1>0, <1>1 DEF WarnedIfDiverged
<1>2. CASE AnswerConfirm /\ b = req.by
  <2>1. /\ req \in Confirms /\ req.op = "confirm" /\ req.step = "answer"
        /\ Kind(req.seen, mem[req.vm]) = "simple" /\ dialog'[b].diverged = req.diverged
    BY <1>2, Kinds DEF AnswerConfirm, At, TypeOK
  <2>2. /\ req.seen # "unknown"
        /\ req.diverged /\ req.seen # "running" => mem[req.vm] = "dirty"
    BY <1>0, <2>1 DEF DialogToTell
  <2> QED BY <2>1, <2>2 DEF Kind, Confirms
<1>3. CASE dialog'[b] = NoDialog
  BY <1>0, <1>3
<1>4. CASE AnswerConfirm
  BY <1>1, <1>2, <1>4 DEF AnswerConfirm, TypeOK
<1>5. ASSUME NEW c \in Browsers, CancelDialog(c) \/ \E save \in BOOLEAN : ClickRevert(c, save)
      PROVE  dialog'[b] = dialog[b] \/ dialog'[b] = NoDialog
  BY <1>5 DEF CancelDialog, ClickRevert, TypeOK
<1>6. CASE UNCHANGED dialog
  BY <1>1, <1>6
<1> QED
  BY <1>1, <1>3, <1>4, <1>5, <1>6
  DEF Next, Windows, Handler, vars, GuestWrites, PowerUp, PowerDown,
     LoadTree, CreateSnapshot, AskRevert, AskDelete,
     ListForDirty, Judge, SaveMarks, AnswerTree, Create,
     ListForRevert, AutoSave, Revert, RevertFails, ListForDelete, DeleteSnapshot,
     DeleteFails,
     MarkClean, AnswerPost, Crash, Restart

-----------------------------------------------------------------------------
(* The invariant, and what follows from it.                                *)
LEMMA InitInv == Init => IInv
<1> SUFFICES ASSUME Init PROVE IInv
  OBVIOUS
<1>1. TypeOK
  BY InitType
<1>2. \A b \in Browsers : dialog[b] = NoDialog
  BY DEF Init
<1>3. NoReq.op \notin Asks \cup Posts /\ NoDialog.kind # "simple"
  BY DEF NoReq, NoDialog, Asks, Posts
<1>4. RevertReady
  BY <1>2, <1>3 DEF Init, RevertReady, Asks, Posts
<1>5. MarksInv
  BY <1>3 DEF Init, MarksInv, Serving, Synced, Noted, Settling, WatchedIsRemembered
<1>6. ASSUME NEW v \in VMs PROVE Saved(v)
  <2>1. content[v] = 0 /\ [of |-> 0, power |-> "shutoff"] \in snaps[v]
    BY DEF Init
  <2>2. [of |-> 0, power |-> "shutoff"].of = 0
    OBVIOUS
  <2>3. 0 \in {s.of : s \in snaps[v]}
    BY <2>1, <2>2
  <2> QED BY <2>1, <2>3 DEF Saved
<1>7. DivergedMarked
  BY <1>6 DEF DivergedMarked, Diverged, Kept
<1>8. ObservedInv
  BY <1>2, <1>3, <1>7
  DEF Init, ObservedInv, Settled, DialogToTell, WarnedIfDiverged, Asks, Posts
<1> QED BY <1>1, <1>4, <1>5, <1>8 DEF IInv

(* The invariant holds in every run of the service.                        *)
LEMMA Invariance == Spec => []IInv
<1>1. IInv /\ [Next]_vars => IInv'
  BY StepType, StepReady, StepMarks, StepSettled, StepDiverged, StepToTell,
     StepWarned
  DEF IInv, ObservedInv
<1> QED BY InitInv, <1>1, PTL DEF Spec

(* A run that the page has seen is remembered on disk until a snapshot or  *)
(* a revert settles it, whatever the service goes through, if its marks    *)
(* can be saved (dirty_state.c:267-287, routes.c:23-26).                   *)
THEOREM Remembered == Spec => []WatchedIsRemembered
<1>1. IInv => WatchedIsRemembered
  BY DEF IInv, MarksInv
<1> QED BY Invariance, <1>1, PTL

(* A machine that is marked clean, and does not run, is as in a snapshot,  *)
(* or as one that was deleted while the machine was so, when its runs are  *)
(* observed (docs/developer-guide.md:1022).                                *)
THEOREM CleanMarksTrue == Spec => []CleanIsSaved
<1>1. IInv => CleanIsSaved
  BY DEF IInv, ObservedInv, DivergedMarked, Diverged, CleanIsSaved
<1> QED BY Invariance, <1>1, PTL

(* A machine whose state was never in a snapshot is not given the dialog   *)
(* without a warning (README.md:22, routes.c:704-815), when its runs are   *)
(* observed.                                                               *)
THEOREM Warned == Spec => []WarnedIfDiverged
<1>1. IInv => WarnedIfDiverged
  BY DEF IInv, ObservedInv
<1> QED BY Invariance, <1>1, PTL

(* No revert reaches libvirt for a machine that is known to run            *)
(* (docs/user-guide.md:389, routes.c:829-850).                             *)
THEOREM RevertsStopped == Spec => NoRevertWhileRunning
<1>1. IInv => [Known /\ Revert => power[req.vm] # "running"]_vars
  BY DEF IInv, RevertReady, Revert, At
<1> QED BY Invariance, <1>1, PTL DEF NoRevertWhileRunning

(* A revert that was asked to save the state of the machine first, and     *)
(* reaches libvirt, leaves a state that a snapshot holds                   *)
(* (docs/user-guide.md:398, routes.c:852-872).                             *)
THEOREM RevertsSaved == Spec => SavedBeforeRevert
<1>1. IInv => [Known /\ Revert /\ req.save => Saved(req.vm)]_vars
  BY DEF IInv, RevertReady, Revert, At
<1> QED BY Invariance, <1>1, PTL DEF SavedBeforeRevert
=============================================================================
