------------------------- MODULE SnapshotStore_proof -------------------------
(***************************************************************************)
(* Proofs about SnapshotStore, for any names and disks.  The invariant     *)
(* says how much of what a handler has read is still so when it acts: all  *)
(* of it, as long as handlers run one at a time and no other tool acts     *)
(* during a request.                                                       *)
(***************************************************************************)
EXTENDS SnapshotStore, FiniteSetTheorems, TLAPS

(* What a sweep has counted and listed is what there is.                   *)
Current ==
    op \in {"scan", "cleanup"} =>
        /\ step = "names" => num = Cardinality(meta)
        /\ step \in {"disk", "name", "answer"} => known = meta

(* An edit works on a snapshot that is there, and takes no other for the   *)
(* current one.                                                            *)
EditOfKnown ==
    op = "edit" /\ step \in {"xml", "redefine"} =>
        /\ snap \in meta
        /\ wasCurrent => current = snap
        /\ ~CurrentFaults /\ current = snap => wasCurrent

(* A cleanup at a name is at a disk; the disks before it are swept.        *)
AtDisk == step = "name" => disk \in Disks

Swept ==
    op = "cleanup" /\ ~failed =>
        /\ step = "disk" => \A d \in Disks \ disks : data[d] \subseteq meta
        /\ step = "name" =>
              /\ \A d \in Disks \ (disks \cup {disk}) : data[d] \subseteq meta
              /\ data[disk] \subseteq meta \cup listed
        /\ step = "answer" => \A d \in Disks : data[d] \subseteq meta

(* A scan has found only orphans of the disks it is done with, and if no   *)
(* call has failed all of them, or is about to find them in the list it is *)
(* at.                                                                     *)
OrphansOf(D) == {n \in Names : \E d \in D : n \in data[d] /\ n \notin meta}

Finds(S, D) == S \subseteq OrphansOf(D) /\ (~failed => S = OrphansOf(D))

Scanned ==
    op = "scan" =>
        /\ step \in {"state", "num", "names"} => found = {}
        /\ step = "disk" => Finds(found, Disks \ disks)
        /\ step = "name" => Finds(found \cup (listed \ meta), Disks \ disks)
        /\ step = "answer" => Finds(found, Disks)

(* Nothing is found before a scan.                                         *)
NotScanned == op # "scan" => found = {}

(* A list that did not fail has refused a machine that is on.              *)
DeletesOff == op = "delete" /\ step = "delete" => power # "on"

(* Every snapshot that is there has its data on every disk.                *)
HasData == \A n \in meta, d \in Disks : n \in data[d]

Sound == Current /\ EditOfKnown /\ Swept /\ Scanned /\ NotScanned /\ HasData

USE DEF vars, machineVars, workVars

-----------------------------------------------------------------------------
\* What TypeOK says of the variables of a request.
WorkTypes ==
    /\ wasCurrent \in BOOLEAN
    /\ num \in Nat
    /\ known \in SUBSET Names
    /\ disks \in SUBSET Disks
    /\ disk \in Disks \cup {None}
    /\ listed \in SUBSET Names
    /\ found \in SUBSET Names
    /\ failed \in BOOLEAN

LEMMA FinishTypes ==
    ASSUME Finish
    PROVE /\ WorkTypes'
          /\ op' = "none" /\ step' = "none" /\ snap' = None
  <1>1. wasCurrent' \in BOOLEAN /\ failed' \in BOOLEAN
    BY Zenon DEF Finish
  <1>2. /\ num' = 0 /\ known' = {} /\ disks' = {} /\ disk' = None
        /\ listed' = {} /\ found' = {}
        /\ op' = "none" /\ step' = "none" /\ snap' = None
    BY DEF Finish
  <1> QED
    BY <1>1, <1>2 DEF WorkTypes

LEMMA InitTypes == Init => TypeOK /\ AtDisk
  <1> SUFFICES ASSUME Init PROVE TypeOK /\ AtDisk
    OBVIOUS
  <1>1. wasCurrent \in BOOLEAN /\ failed \in BOOLEAN
    BY Zenon DEF Init
  <1>2. /\ world \in Worlds
        /\ power = "off" /\ meta = {} /\ current = None
        /\ data = [d \in Disks |-> {}] /\ worded = {}
        /\ op = "none" /\ step = "none" /\ snap = None
        /\ num = 0 /\ known = {} /\ disks = {} /\ disk = None
        /\ listed = {} /\ found = {}
    BY DEF Init
  <1> QED
    BY <1>1, <1>2 DEF TypeOK, AtDisk

(* The types, whatever the other tools do and whatever fails.              *)
LEMMA NextTypes == TypeOK /\ AtDisk /\ [Next]_vars => TypeOK' /\ AtDisk'
  <1> SUFFICES ASSUME TypeOK, AtDisk, [Next]_vars PROVE TypeOK' /\ AtDisk'
    OBVIOUS
  <1> USE DEF TypeOK, AtDisk, WorkTypes
  <1>1. ASSUME NEW n \in Names, Create(n) \/ TakeElsewhere(n)
        PROVE TypeOK' /\ AtDisk'
    BY <1>1 DEF Create, TakeElsewhere, Created, Described
  <1>2. ASSUME NEW n \in Names, Delete(n) \/ Edit(n)
        PROVE TypeOK' /\ AtDisk'
    BY <1>2 DEF Delete, Edit, Request
  <1>3. ASSUME NEW n \in Names, ForgetElsewhere(n) PROVE TypeOK' /\ AtDisk'
    BY <1>3 DEF ForgetElsewhere, Forgotten
  <1>4. ASSUME NEW n \in Names, Revert(n) PROVE TypeOK' /\ AtDisk'
    BY <1>4 DEF Revert
  <1>5. CASE Scan \/ Cleanup
    BY <1>5 DEF Scan, Cleanup, Request
  <1>6. CASE ListForDelete
    BY <1>6, FinishTypes DEF ListForDelete, GoTo, At
  <1>7. CASE DeleteSnapshot
    <2>1. /\ meta' \in SUBSET Names /\ current' \in meta' \cup {None}
          /\ data' \in [Disks -> SUBSET Names] /\ worded' \in SUBSET meta'
      BY <1>7 DEF DeleteSnapshot, Forgotten
    <2>2. UNCHANGED <<world, power>> /\ Finish
      BY <1>7 DEF DeleteSnapshot
    <2> QED
      BY <2>1, <2>2, FinishTypes
  <1>8. CASE DeleteFails \/ EditFails \/ AnswerSweep
    <2>1. Finish /\ UNCHANGED machineVars
      BY <1>8 DEF DeleteFails, EditFails, AnswerSweep
    <2> QED
      BY <2>1, FinishTypes
  <1>9. CASE LookUp
    <2>1. CASE snap \in meta
      <3>1. wasCurrent' \in BOOLEAN
        <4>1. wasCurrent' = (current = snap) \/ wasCurrent' = (current = snap /\ ~CurrentFaults)
          BY <1>9, <2>1, Zenon DEF LookUp
        <4> QED
          BY <4>1, Zenon
      <3>2. /\ op = "edit" /\ step' = "xml"
            /\ UNCHANGED <<machineVars, op, snap, num, known, disks, disk,
                           listed, found, failed>>
        BY <1>9, <2>1 DEF LookUp, GoTo, At
      <3> QED
        BY <3>1, <3>2
    <2>2. CASE snap \notin meta
      <3>1. Finish /\ UNCHANGED machineVars
        BY <1>9, <2>2 DEF LookUp
      <3> QED
        BY <3>1, FinishTypes
    <2> QED
      BY <2>1, <2>2
  <1>10. CASE ReadXml
    BY <1>10, FinishTypes DEF ReadXml, GoTo, At
  <1>11. CASE Redefine
    <2>1. /\ meta' \in SUBSET Names /\ current' \in meta' \cup {None}
          /\ worded' \in SUBSET meta'
      BY <1>11 DEF Redefine, At, Described
    <2>2. Finish /\ UNCHANGED <<world, power, data>>
      BY <1>11 DEF Redefine
    <2> QED
      BY <2>1, <2>2, FinishTypes
  <1>12. CASE CheckState
    BY <1>12, FinishTypes DEF CheckState, GoTo, Sweeping
  <1>13. CASE CountNames
    <2>1. Cardinality(meta) \in Nat
      BY FiniteAssumption, FS_Subset, FS_CardinalityType
    <2> QED
      BY <1>13, <2>1 DEF CountNames, GoTo, Sweeping
  <1>14. CASE ListNames
    <2>1. failed' \in BOOLEAN
      BY <1>14, Zenon DEF ListNames
    <2>2. /\ op \in {"scan", "cleanup"} /\ step' \in {"answer", "disk"}
          /\ known' \in SUBSET Names /\ disks' \in SUBSET Disks
          /\ UNCHANGED <<machineVars, op, snap, wasCurrent, num, disk, listed, found>>
      BY <1>14 DEF ListNames, GoTo, Sweeping
    <2> QED
      BY <2>1, <2>2
  <1>15. ASSUME NEW d \in Disks, ListDisk(d) PROVE TypeOK' /\ AtDisk'
    <2>1. failed' \in BOOLEAN
      BY <1>15, Zenon DEF ListDisk
    <2>2. /\ op \in {"scan", "cleanup"} /\ step' = "name"
          /\ disks' = disks \ {d} /\ disk' = d /\ listed' \in SUBSET data[d]
          /\ UNCHANGED <<machineVars, op, snap, wasCurrent, num, known, found>>
      BY <1>15 DEF ListDisk, GoTo, Sweeping
    <2> QED
      BY <2>1, <2>2
  <1>16. ASSUME NEW n \in Names, ScanName(n) PROVE TypeOK' /\ AtDisk'
    BY <1>16 DEF ScanName
  <1>17. ASSUME NEW n \in Names, CleanName(n) PROVE TypeOK' /\ AtDisk'
    <2>1. failed' \in BOOLEAN /\ data' \in [Disks -> SUBSET Names]
      BY <1>17 DEF CleanName, At
    <2> QED
      BY <1>17, <2>1 DEF CleanName
  <1>18. CASE NextDisk
    BY <1>18 DEF NextDisk, GoTo, Sweeping
  <1>19. CASE SwitchPower
    BY <1>19 DEF SwitchPower
  <1>20. CASE UNCHANGED vars
    BY <1>20
  <1> QED
    BY <1>1, <1>2, <1>3, <1>4, <1>5, <1>6, <1>7, <1>8, <1>9, <1>10, <1>11,
       <1>12, <1>13, <1>14, <1>15, <1>16, <1>17, <1>18, <1>19, <1>20 DEF Next

(* The variables keep their types, and a cleanup at a name is at a disk.   *)
THEOREM TypesHold == Spec => [](TypeOK /\ AtDisk)
  BY InitTypes, NextTypes, PTL DEF Spec

(* The variables keep their types; the current snapshot is one of those    *)
(* that are there, whatever the other tools do.                            *)
THEOREM TypeCorrect == Spec => []TypeOK
  BY TypesHold, PTL
-----------------------------------------------------------------------------
(* A list of as many names as there are names is the list of them all.     *)
LEMMA WholeList ==
    ASSUME NEW S, IsFiniteSet(S), NEW k \in SUBSET S,
           Cardinality(k) = Cardinality(S)
    PROVE k = S
  BY FS_Subset

LEMMA InitSound == Init => Sound
  BY DEF Init, Sound, Current, EditOfKnown, Swept, Scanned, NotScanned, HasData

\* Sound says nothing of the data or the metadata of a request that ends.
LEMMA FinishSound ==
    ASSUME TypeOK, Sound, Finish, HasData'
    PROVE Sound'
  BY DEF Finish, Sound, Current, EditOfKnown, Swept, Scanned, NotScanned

(* Between requests anything may happen that keeps data and metadata       *)
(* together.                                                               *)
LEMMA OthersSound ==
    ASSUME TypeOK, Sound, Undisturbed,
           \/ \E n \in Names : \/ Create(n) \/ Delete(n) \/ Edit(n) \/ Revert(n)
                              \/ ForgetElsewhere(n) \/ TakeElsewhere(n)
           \/ Scan \/ Cleanup \/ SwitchPower
    PROVE Sound'
  <1>1. HasData'
    <2>1. ASSUME NEW n \in Names, Create(n) PROVE HasData'
      BY <2>1 DEF Create, Created, Sound, HasData, TypeOK
    <2>2. ASSUME NEW n \in Names, ForgetElsewhere(n) PROVE HasData'
      BY <2>2 DEF ForgetElsewhere, Forgotten, Sound, HasData
    <2>3. ASSUME NEW n \in Names, TakeElsewhere(n) PROVE HasData'
      BY <2>3 DEF TakeElsewhere, Undisturbed
    <2>4. ASSUME NEW n \in Names, Delete(n) \/ Edit(n) \/ Revert(n)
          PROVE HasData'
      BY <2>4 DEF Delete, Edit, Revert, Request, Sound, HasData
    <2>5. CASE Scan \/ Cleanup \/ SwitchPower
      BY <2>5 DEF Scan, Cleanup, SwitchPower, Request, Sound, HasData
    <2> QED
      BY <2>1, <2>2, <2>3, <2>4, <2>5
  <1>2. /\ op = "none"
        /\ \/ op' = "none"
           \/ op' \in {"delete", "edit", "scan", "cleanup"}
              /\ step' \in {"list", "lookup", "state"}
        /\ found' = found
    BY DEF Create, Delete, Edit, Revert, ForgetElsewhere, TakeElsewhere, Scan,
           Cleanup, SwitchPower, Request, Others, Undisturbed
  <1> QED
    BY <1>1, <1>2 DEF Sound, Current, EditOfKnown, Swept, Scanned, NotScanned

\* What the look-up makes of the current snapshot.
LookedUp ==
    /\ wasCurrent' => current = snap
    /\ ~CurrentFaults /\ current = snap => wasCurrent'

LEMMA LookUpKnows ==
    ASSUME LookUp, snap \in meta
    PROVE LookedUp
  <1>1. wasCurrent' = (current = snap) \/ wasCurrent' = (current = snap /\ ~CurrentFaults)
    BY Zenon DEF LookUp
  <1> QED
    BY <1>1, Zenon DEF LookedUp

LEMMA HandlersSound ==
    ASSUME TypeOK, Sound,
           \/ ListForDelete \/ DeleteSnapshot \/ DeleteFails
           \/ LookUp \/ ReadXml \/ Redefine \/ EditFails
           \/ CheckState \/ AnswerSweep
    PROVE Sound'
  <1>1. HasData'
    <2>1. CASE DeleteSnapshot
      BY <2>1 DEF DeleteSnapshot, Forgotten, Sound, HasData, TypeOK
    <2>2. CASE Redefine
      BY <2>2 DEF Redefine, At, Sound, EditOfKnown, HasData
    <2>3. CASE \/ ListForDelete \/ DeleteFails \/ LookUp \/ ReadXml
               \/ EditFails \/ CheckState \/ AnswerSweep
      <3>1. UNCHANGED <<meta, data>>
        BY <2>3 DEF ListForDelete, DeleteFails, LookUp, ReadXml, EditFails,
                    CheckState, AnswerSweep
      <3> QED
        BY <3>1 DEF Sound, HasData
    <2> QED
      BY <2>1, <2>2, <2>3
  <1>2. CASE Finish
    BY <1>1, <1>2, FinishSound
  <1>3. CASE ~Finish
    <2>1. CASE ListForDelete
      BY <1>1, <1>3, <2>1
      DEF ListForDelete, GoTo, At, Sound, Current, EditOfKnown, Swept, Scanned, NotScanned
    <2>2. CASE LookUp
      <3>1. snap \in meta /\ LookedUp
        BY <1>3, <2>2, LookUpKnows DEF LookUp
      <3>2. UNCHANGED <<world, meta, current, snap, op, found>> /\ op = "edit"
        BY <1>3, <2>2 DEF LookUp, GoTo, At
      <3> QED
        BY <1>1, <3>1, <3>2
        DEF LookedUp, CurrentFaults, Sound, Current, EditOfKnown, Swept, Scanned, NotScanned
    <2>3. CASE ReadXml
      <3>1. /\ op = "edit" /\ step = "xml"
            /\ UNCHANGED <<world, meta, current, op, snap, wasCurrent, found>>
        BY <1>3, <2>3 DEF ReadXml, GoTo, At
      <3> QED
        BY <1>1, <3>1
        DEF CurrentFaults, Sound, Current, EditOfKnown, Swept, Scanned, NotScanned
    <2>4. CASE CheckState
      BY <1>1, <1>3, <2>4
      DEF CheckState, GoTo, Sweeping, Sound, Current, EditOfKnown, Swept, Scanned, NotScanned
    <2> QED
      BY <1>3, <2>1, <2>2, <2>3, <2>4
      DEF DeleteSnapshot, DeleteFails, Redefine, EditFails, AnswerSweep
  <1> QED
    BY <1>2, <1>3

(* A sweep keeps what it has read true, and removes only orphans.          *)
LEMMA SweepSound ==
    ASSUME TypeOK, AtDisk, Sound, Undisturbed,
           \/ CountNames \/ ListNames \/ NextDisk
           \/ \E d \in Disks : ListDisk(d)
           \/ \E n \in Names : ScanName(n) \/ CleanName(n)
    PROVE Sound'
  <1> USE DEF Sound, Current, EditOfKnown, Swept, Scanned, NotScanned, HasData
  <1>1. CASE CountNames
    BY <1>1 DEF CountNames, GoTo, Sweeping, Undisturbed
  <1>2. CASE ListNames
    <2>1. IsFiniteSet(meta)
      BY FiniteAssumption, FS_Subset DEF TypeOK
    <2>2. PICK k \in SUBSET meta : Cardinality(k) = Cardinality(meta) /\ known' = k
      <3>1. num = Cardinality(meta) /\ num \in Nat
        BY <1>2 DEF ListNames, Sweeping, TypeOK
      <3> QED
        BY <1>2, <3>1 DEF ListNames, Undisturbed
    <2>3. known' = meta
      BY <2>1, <2>2, WholeList
    <2>4. /\ disks' \in SUBSET Disks /\ failed' = (disks' # Disks)
          /\ step = "names" /\ step' = IF disks' = {} THEN "answer" ELSE "disk"
          /\ UNCHANGED <<machineVars, op, found>>
      BY <1>2 DEF ListNames, GoTo, Sweeping
    <2>5. op \in {"scan", "cleanup"}
      BY <1>2 DEF ListNames, Sweeping
    <2>6. Scanned'
      BY <2>4 DEF OrphansOf, Finds
    <2>7. Swept'
      BY <2>4
    <2> QED
      BY <2>3, <2>4, <2>5, <2>6, <2>7
  <1>3. CASE NextDisk
    <2>1. /\ step = "name" /\ listed = {} /\ op \in {"scan", "cleanup"}
          /\ step' = IF disks = {} THEN "answer" ELSE "disk"
          /\ UNCHANGED <<machineVars, workVars, op>>
      BY <1>3 DEF NextDisk, GoTo, Sweeping
    <2> QED
      BY <2>1 DEF OrphansOf, Finds
  <1>4. ASSUME NEW d \in Disks, ListDisk(d) PROVE Sound'
    <2>1. /\ op \in {"scan", "cleanup"} /\ step = "disk" /\ step' = "name"
          /\ disks' = disks \ {d} /\ disk' = d
          /\ listed' \subseteq data[d]
          /\ ~failed' => ~failed /\ listed' = data[d]
          /\ UNCHANGED <<machineVars, op, known, found>>
      BY <1>4 DEF ListDisk, GoTo, Sweeping
    <2>2. Scanned'
      <3> SUFFICES ASSUME op = "scan" PROVE Finds(found \cup (listed \ meta), Disks \ disks)'
        BY <2>1
      <3>1. Finds(found, Disks \ disks) /\ d \in disks /\ disks \subseteq Disks
              /\ data[d] \subseteq Names
        BY <1>4, <2>1 DEF ListDisk, TypeOK
      <3>2. OrphansOf(Disks \ disks)' = OrphansOf(Disks \ disks) \cup (data[d] \ meta)
        BY <2>1, <3>1 DEF OrphansOf
      <3> QED
        BY <2>1, <3>1, <3>2 DEF Finds
    <2>3. Swept'
      BY <2>1 DEF TypeOK
    <2> QED
      BY <2>1, <2>2, <2>3
  <1>5. ASSUME NEW n \in Names, ScanName(n) PROVE Sound'
    <2>1. /\ op = "scan" /\ step = "name" /\ n \in listed /\ listed' = listed \ {n}
          /\ found' = IF n \in known THEN found ELSE found \cup {n}
          /\ UNCHANGED <<machineVars, op, step, known, disks, failed>>
      BY <1>5 DEF ScanName, At
    <2>2. found' \cup (listed' \ meta) = found \cup (listed \ meta)
      BY <2>1
    <2> QED
      BY <2>1, <2>2 DEF OrphansOf, Finds
  <1>6. ASSUME NEW n \in Names, CleanName(n) PROVE Sound'
    <2>1. /\ op = "cleanup" /\ step = "name" /\ listed' = listed \ {n}
          /\ UNCHANGED <<meta, op, step, known, disks, disk, found>>
      BY <1>6 DEF CleanName, At
    <2>2. known = meta /\ disk \in Disks
      BY <2>1 DEF AtDisk
    <2>3. CASE n \in known
      <3>1. UNCHANGED <<data, failed>>
        BY <1>6, <2>3 DEF CleanName
      <3> QED
        BY <2>1, <2>2, <2>3, <3>1
    <2>4. CASE n \notin known /\ failed' = TRUE /\ UNCHANGED data
      BY <2>1, <2>2, <2>4
    <2>5. CASE n \notin known /\ data' = [data EXCEPT ![disk] = @ \ {n}] /\ UNCHANGED failed
      <3>1. \A d \in Disks : data'[d] = IF d = disk THEN data[d] \ {n} ELSE data[d]
        BY <2>5 DEF TypeOK
      <3>2. HasData'
        BY <2>1, <2>2, <2>5, <3>1
      <3>3. Swept'
        BY <2>1, <2>2, <2>5, <3>1
      <3> QED
        BY <2>1, <2>2, <3>2, <3>3
    <2> QED
      BY <1>6, <2>3, <2>4, <2>5 DEF CleanName
  <1> QED
    BY <1>1, <1>2, <1>3, <1>4, <1>5, <1>6

(* Every step of an undisturbed machine keeps Sound.                       *)
LEMMA NextSound ==
    Undisturbed /\ TypeOK /\ AtDisk /\ Sound /\ [Next]_vars => Sound'
  <1> SUFFICES ASSUME Undisturbed, TypeOK, AtDisk, Sound, [Next]_vars
               PROVE Sound'
    OBVIOUS
  <1>1. CASE UNCHANGED vars
    BY <1>1
    DEF Sound, Current, EditOfKnown, CurrentFaults, Swept, Scanned, Finds, NotScanned,
        OrphansOf, HasData
  <1> QED
    BY <1>1, OthersSound, HandlersSound, SweepSound DEF Next

(* The world of a behaviour stays.                                         *)
LEMMA WorldStays == [Next]_vars => UNCHANGED world
  BY DEF Next, Create, Delete, Edit, Scan, Cleanup, Request, Created, Finish,
         ListForDelete, DeleteSnapshot, DeleteFails, LookUp, ReadXml, Redefine,
         EditFails, CheckState, CountNames, ListNames, NextDisk, AnswerSweep,
         ListDisk, ScanName, CleanName, ForgetElsewhere, TakeElsewhere, Revert,
         SwitchPower

SoundIfUndisturbed == Undisturbed => Sound

LEMMA SoundHolds == Spec => []SoundIfUndisturbed
  <1>1. Init => SoundIfUndisturbed
    BY InitSound DEF SoundIfUndisturbed
  <1>2. TypeOK /\ AtDisk /\ SoundIfUndisturbed /\ [Next]_vars => SoundIfUndisturbed'
    <2>1. [Next]_vars => (Undisturbed' <=> Undisturbed)
      BY WorldStays DEF Undisturbed, External, NumFaults
    <2> QED
      BY <2>1, NextSound DEF SoundIfUndisturbed
  <1> QED
    BY <1>1, <1>2, TypesHold, PTL DEF Spec
-----------------------------------------------------------------------------
(* What libvirt has can be reverted to: no handler removes the data of a   *)
(* snapshot that is there or brings back the metadata of one that is not.  *)
THEOREM MetaKeepsData == Spec => []MetaHasData
  <1>1. SoundIfUndisturbed => MetaHasData
    BY DEF SoundIfUndisturbed, Sound, HasData, MetaHasData
  <1> QED
    BY <1>1, SoundHolds, PTL

(* A cleanup none of whose calls failed leaves no orphan on any disk; a    *)
(* scan finds orphans only, and those there are if none of its calls       *)
(* failed.                                                                 *)
THEOREM CleanupLeavesNone == Spec => []CleanupComplete
  <1>1. TypeOK /\ SoundIfUndisturbed => CleanupComplete
    BY DEF TypeOK, SoundIfUndisturbed, Sound, Swept, Scanned, CleanupComplete, At, Orphans,
           OrphansOf, Finds
  <1> QED
    BY <1>1, TypeCorrect, SoundHolds, PTL

(* During an edit without other tools its snapshot stays, and stays        *)
(* current or not.                                                         *)
EditKnown == ~External => EditOfKnown

LEMMA EditKnownHolds == Spec => []EditKnown
  <1>1. Init => EditKnown
    BY DEF Init, EditKnown, EditOfKnown
  <1>2. ASSUME TypeOK, EditKnown, [Next]_vars PROVE EditKnown'
    <2> SUFFICES ASSUME ~External, op' = "edit", step' \in {"xml", "redefine"}
                 PROVE /\ snap' \in meta'
                       /\ wasCurrent' => current' = snap'
                       /\ ~CurrentFaults /\ current' = snap' => wasCurrent'
      BY <1>2, WorldStays DEF EditKnown, EditOfKnown, External, CurrentFaults
    <2>1. CASE UNCHANGED vars
      BY <1>2, <2>1 DEF EditKnown, EditOfKnown
    <2>2. CASE LookUp
      <3>1. snap \in meta /\ ~Finish
        BY <2>2 DEF LookUp, Finish
      <3>2. LookedUp
        BY <2>2, <3>1, LookUpKnows
      <3>3. UNCHANGED <<meta, current, snap>>
        BY <2>2, <3>1 DEF LookUp, GoTo
      <3> QED
        BY <3>1, <3>2, <3>3 DEF LookedUp
    <2>3. CASE ReadXml
      BY <1>2, <2>3 DEF ReadXml, Finish, GoTo, At, EditKnown, EditOfKnown
    <2> QED
      BY <1>2, <2>1, <2>2, <2>3
      DEF Next, Create, Delete, Edit, Scan, Cleanup, Request, Finish, GoTo, At,
          ListForDelete, DeleteSnapshot, DeleteFails, Redefine, EditFails,
          CheckState, CountNames, ListNames, NextDisk, AnswerSweep, ListDisk,
          ScanName, CleanName, Sweeping, ForgetElsewhere, TakeElsewhere, Revert,
          SwitchPower, Others
  <1> QED
    BY <1>1, <1>2, TypeCorrect, PTL DEF Spec

(* Editing a description changes neither which snapshots there are nor     *)
(* which is current, unless virDomainSnapshotCurrent() failed for the      *)
(* current one.                                                            *)
THEOREM EditChangesNothing == Spec => EditIsInnocent
  <1>1. ASSUME TypeOK, EditKnown, [Next]_vars
        PROVE [~External /\ op = "edit" =>
                  /\ meta' = meta
                  /\ \/ current' = current
                     \/ CurrentFaults /\ current = snap /\ current' = None]_vars
    <2> SUFFICES ASSUME ~External, op = "edit", Next
                 PROVE /\ meta' = meta
                       /\ \/ current' = current
                          \/ CurrentFaults /\ current = snap /\ current' = None
      BY <1>1
    <2>1. CASE Redefine
      BY <1>1, <2>1 DEF Redefine, At, EditKnown, EditOfKnown
    <2>2. CASE LookUp \/ ReadXml \/ EditFails
      BY <2>2 DEF LookUp, ReadXml, EditFails
    <2>3. ~Others
      BY DEF Others
    <2> QED
      BY <1>1, <2>1, <2>2, <2>3
      DEF Next, Create, Delete, Edit, Scan, Cleanup, Request, ListForDelete,
          DeleteSnapshot, DeleteFails, CheckState, CountNames, ListNames,
          NextDisk, AnswerSweep, ListDisk, ScanName, CleanName, Sweeping, At,
          ForgetElsewhere, TakeElsewhere, Revert, SwitchPower
  <1> QED
    BY <1>1, TypeCorrect, EditKnownHolds, PTL DEF Spec, EditIsInnocent

(* Between the list and the delete nobody switches the machine on.         *)
Listed == ~External /\ ~ListFaults => DeletesOff

LEMMA ListedHolds == Spec => []Listed
  <1>1. Init => Listed
    BY DEF Init, Listed, DeletesOff
  <1>2. ASSUME Listed, [Next]_vars PROVE Listed'
    <2> SUFFICES ASSUME ~External, ~ListFaults, DeletesOff PROVE DeletesOff'
      BY <1>2, WorldStays DEF Listed, External, ListFaults
    <2>1. CASE op' = "delete" /\ step' = "delete" /\ ~UNCHANGED <<op, step>>
      <3>1. ListForDelete /\ ~Finish
        BY <1>2, <2>1
        DEF Next, Create, Delete, Edit, Scan, Cleanup, Request, Finish, GoTo, At,
            ListForDelete, DeleteSnapshot, DeleteFails, LookUp, ReadXml, Redefine,
            EditFails, CheckState, CountNames, ListNames, NextDisk, AnswerSweep,
            ListDisk, ScanName, CleanName, Sweeping, ForgetElsewhere,
            TakeElsewhere, Revert, SwitchPower
      <3> QED
        BY <3>1 DEF ListForDelete, DeletesOff
    <2>2. CASE UNCHANGED <<op, step>>
      <3>1. op = "delete" => UNCHANGED power
        BY <1>2
        DEF Next, Create, Delete, Edit, Scan, Cleanup, Request, Finish, GoTo, At,
            ListForDelete, DeleteSnapshot, DeleteFails, LookUp, ReadXml, Redefine,
            EditFails, CheckState, CountNames, ListNames, NextDisk, AnswerSweep,
            ListDisk, ScanName, CleanName, Sweeping, ForgetElsewhere,
            TakeElsewhere, Revert, SwitchPower, Others
      <3> QED
        BY <2>2, <3>1 DEF DeletesOff
    <2> QED
      BY <2>1, <2>2 DEF DeletesOff
  <1> QED
    BY <1>1, <1>2, PTL DEF Spec

(* When the list of machines does not fail, the machine is shut off, or    *)
(* running or paused, and the description has none of the words, a delete  *)
(* makes no new orphan.                                                    *)
THEOREM DeletesMakeNoOrphan == Spec => DeleteLeavesNoOrphan
  <1>1. ASSUME TypeOK, Listed, [Next]_vars
        PROVE [~External /\ ~ListFaults /\ op = "delete" /\ power # "other"
                     /\ snap \notin worded
                  => Orphans' \subseteq Orphans]_vars
    <2> SUFFICES ASSUME ~External, DeletesOff, op = "delete", power # "other",
                        snap \notin worded, Next
                 PROVE Orphans' \subseteq Orphans
      BY <1>1 DEF Listed
    <2>1. CASE DeleteSnapshot
      <3>1. /\ meta' = meta \ {snap} /\ power = "off"
            /\ data' = [d \in Disks |-> data[d] \ {snap}]
        BY <1>1, <2>1 DEF DeleteSnapshot, Forgotten, At, DeletesOff, TypeOK
      <3> QED
        BY <3>1 DEF Orphans
    <2>2. CASE ListForDelete \/ DeleteFails
      <3>1. UNCHANGED <<meta, data>>
        BY <2>2 DEF ListForDelete, DeleteFails
      <3> QED
        BY <3>1 DEF Orphans
    <2> QED
      BY <1>1, <2>1, <2>2
      DEF Next, Create, Delete, Edit, Scan, Cleanup, Request, At, LookUp, ReadXml,
          Redefine, EditFails, CheckState, CountNames, ListNames, NextDisk,
          AnswerSweep, ListDisk, ScanName, CleanName, Sweeping, Others,
          ForgetElsewhere, TakeElsewhere, Revert, SwitchPower
  <1> QED
    BY <1>1, TypeCorrect, ListedHolds, PTL DEF Spec, DeleteLeavesNoOrphan
=============================================================================
