-------------------------- MODULE NvramConvert_proof --------------------------
(***************************************************************************)
(* Proofs about NvramConvert.  The invariant says where a conversion       *)
(* stands: what was read is still the configuration, the raw file is still *)
(* the one the machine uses, and the new file is a copy of it from the end *)
(* of qemu-img to the new configuration.                                   *)
(***************************************************************************)
EXTENDS NvramConvert, TLAPS

Raw == [path |-> "fd", format |-> "raw"]
Qcow2 == [path |-> "qcow2", format |-> "qcow2"]

(* The element is the raw one until it is the qcow2 one, and the files are *)
(* what it says.                                                           *)
ConfigFits ==
    /\ config \in {Raw, Qcow2}
    /\ files["fd"].format = "raw"
    /\ config = Qcow2 => files["qcow2"].format = "qcow2"

(* A conversion at work converts the raw file of the configuration.        *)
Converting ==
    /\ step \in {"convert", "define"} => config = Raw /\ seen = Raw
    /\ step = "define" => files["qcow2"].format = "qcow2"

(* Who was told of a conversion has it.                                    *)
ToldIsDone ==
    /\ result = "converted" => config = Qcow2
    /\ told = "converted" => config = Qcow2

(* Undisturbed, the machine is off during a conversion, runs from the file *)
(* of its configuration, and the copy is up to date.                       *)
UpToDate ==
    /\ step \in {"xml", "convert", "define"} => power = "off"
    /\ power = "on" => live = config.path
    /\ files[config.path].version = written
    /\ step = "define" => files["qcow2"].version = written

FormatInv == TypeOK /\ ConfigFits /\ Converting /\ ToldIsDone
KeepInv == FormatInv /\ UpToDate

-----------------------------------------------------------------------------
(* The variables keep their types, whatever the switches and the bound.    *)
THEOREM TypeCorrect == Spec => []TypeOK
<1>1. Init => TypeOK
  BY SwitchAssumption, WriteAssumption
  DEF Init, TypeOK, Paths, Nvrams, Results, File, Absent
<1>2. TypeOK /\ [Next]_vars => TypeOK'
  <2> SUFFICES ASSUME TypeOK, [Next]_vars PROVE TypeOK'
    OBVIOUS
  <2> USE WriteAssumption DEF TypeOK, Paths, Nvrams, Results
  <2>1. CASE Start BY <2>1 DEF Start, handler
  <2>2. CASE Stop BY <2>2 DEF Stop, handler
  <2>3. CASE GuestWrites BY <2>3 DEF GuestWrites, handler
  <2>4. CASE Request BY <2>4 DEF Request
  <2>5. CASE CheckState BY <2>5 DEF CheckState, Goes, Ends
  <2>6. CASE ReadXml BY <2>6 DEF ReadXml, Goes, Ends
  <2>7. CASE Convert BY <2>7 DEF Convert, Goes, File, Rubbish
  <2>8. CASE ConvertFails BY <2>8 DEF ConvertFails, Goes, Ends, Rubbish
  <2>9. CASE Define BY <2>9 DEF Define, Goes, Ends
  <2>10. CASE DefineFails BY <2>10 DEF DefineFails, Goes, Ends, Absent
  <2>11. CASE Answer BY <2>11 DEF Answer
  <2>12. CASE UNCHANGED vars BY <2>12 DEF vars, handler
  <2> QED
    BY <2>1, <2>2, <2>3, <2>4, <2>5, <2>6, <2>7, <2>8, <2>9, <2>10, <2>11,
       <2>12 DEF Next
<1> QED BY <1>1, <1>2, PTL DEF Spec

(* Each step keeps what the format of the configuration rests on, also     *)
(* when other tools start and stop the machine during a conversion.        *)
LEMMA FormatStep ==
    ASSUME FormatInv, TypeOK', [Next]_vars
    PROVE  FormatInv'
<1> USE DEF FormatInv, TypeOK, ConfigFits, Converting, ToldIsDone, Raw, Qcow2,
            Paths, Nvrams
<1>1. CASE Start BY <1>1 DEF Start, handler
<1>2. CASE Stop BY <1>2 DEF Stop, handler
<1>3. CASE GuestWrites BY <1>3 DEF GuestWrites, handler
<1>4. CASE Request BY <1>4 DEF Request
<1>5. CASE CheckState BY <1>5 DEF CheckState, Goes, Ends
<1>6. CASE ReadXml BY <1>6 DEF ReadXml, Goes, Ends
<1>7. CASE Convert BY <1>7 DEF Convert, Goes, File
<1>8. CASE ConvertFails BY <1>8 DEF ConvertFails, Goes, Ends, Rubbish
<1>9. CASE Define BY <1>9 DEF Define, Goes, Ends
<1>10. CASE DefineFails BY <1>10 DEF DefineFails, Goes, Ends, Absent
<1>11. CASE Answer BY <1>11 DEF Answer
<1>12. CASE UNCHANGED vars BY <1>12 DEF vars, handler
<1> QED
  BY <1>1, <1>2, <1>3, <1>4, <1>5, <1>6, <1>7, <1>8, <1>9, <1>10, <1>11,
     <1>12 DEF Next

(* When the <nvram> element has a format attribute, internal snapshots     *)
(* work after an answer that says so, whichever calls of lv_convert_nvram  *)
(* fail in this and in later requests and whatever other tools do to the   *)
(* power of the machine.                                                   *)
THEOREM SnapshotsDoWork ==
    ASSUME ~Bare
    PROVE  Spec => []SnapshotsWork
<1>1. Init => FormatInv
  BY SwitchAssumption, WriteAssumption
  DEF Init, FormatInv, TypeOK, ConfigFits, Converting, ToldIsDone, Raw, Qcow2,
      Paths, Nvrams, Results, File, Absent
<1>2. FormatInv /\ TypeOK' /\ [Next]_vars => FormatInv'
  BY FormatStep
<1>3. FormatInv => SnapshotsWork
  BY DEF FormatInv, ToldIsDone, ConfigFits, SnapshotsWork, Fits, Qcow2
<1> QED BY <1>1, <1>2, <1>3, TypeCorrect, PTL DEF Spec

(* When it has one and only the page starts the machine, no conversion and *)
(* no failure of one loses a write of the guest.                           *)
THEOREM NvramIsKept ==
    ASSUME ~Bare, ~Disturbed
    PROVE  Spec => []NvramKept
<1>1. Init => KeepInv
  BY SwitchAssumption, WriteAssumption
  DEF Init, KeepInv, FormatInv, TypeOK, ConfigFits, Converting, ToldIsDone,
      UpToDate, Raw, Qcow2, Paths, Nvrams, Results, File, Absent
<1>2. KeepInv /\ TypeOK' /\ [Next]_vars => KeepInv'
  <2> SUFFICES ASSUME KeepInv, TypeOK', [Next]_vars PROVE UpToDate'
    BY FormatStep DEF KeepInv
  <2> USE DEF KeepInv, FormatInv, UpToDate, TypeOK, ConfigFits, Converting,
              Raw, Qcow2, Paths, Nvrams
  <2>1. CASE Start BY <2>1 DEF Start, handler
  <2>2. CASE Stop BY <2>2 DEF Stop, handler
  <2>3. CASE GuestWrites BY <2>3 DEF GuestWrites, handler
  <2>4. CASE Request BY <2>4 DEF Request
  <2>5. CASE CheckState BY <2>5 DEF CheckState, Goes, Ends
  <2>6. CASE ReadXml BY <2>6 DEF ReadXml, Goes, Ends
  <2>7. CASE Convert BY <2>7 DEF Convert, Goes, File
  <2>8. CASE ConvertFails BY <2>8 DEF ConvertFails, Goes, Ends, Rubbish
  <2>9. CASE Define BY <2>9 DEF Define, Goes, Ends
  <2>10. CASE DefineFails BY <2>10 DEF DefineFails, Goes, Ends, Absent
  <2>11. CASE Answer BY <2>11 DEF Answer
  <2>12. CASE UNCHANGED vars BY <2>12 DEF vars, handler
  <2> QED
    BY <2>1, <2>2, <2>3, <2>4, <2>5, <2>6, <2>7, <2>8, <2>9, <2>10, <2>11,
       <2>12 DEF Next
<1>3. KeepInv => NvramKept
  BY DEF KeepInv, FormatInv, ConfigFits, UpToDate, NvramKept, Raw, Qcow2
<1> QED BY <1>1, <1>2, <1>3, TypeCorrect, PTL DEF Spec
=============================================================================
