----------------------------- MODULE NvramConvert -----------------------------
(***************************************************************************)
(* The conversion of the UEFI variables (the NVRAM) of one machine from a  *)
(* raw file to a qcow2 file, lv_convert_nvram(): the state of the machine, *)
(* its configuration, qemu-img and the new configuration are four calls,   *)
(* between which other tools may start the machine.                        *)
(*                                                                         *)
(* A file holds one version of the variables, the number of the guest's    *)
(* writes it has seen.  The file named by the configuration at first ends  *)
(* in .fd; the only other one is the same name with .qcow2.                *)
(***************************************************************************)
EXTENDS Naturals

CONSTANTS
    Bare,           \* the <nvram> element has no format attribute
    Disturbed,      \* other tools start and stop the machine during a request
    MaxWrites       \* bound: writes of the guest to its variables

ASSUME SwitchAssumption == {Bare, Disturbed} \subseteq BOOLEAN
ASSUME WriteAssumption == MaxWrites \in Nat

VARIABLES
    power,          \* of the machine: "on", "off"
    config,         \* its <nvram> element: path and format
    live,           \* the path the machine that runs was started with
    files,          \* per path, the file
    written,        \* history: how often the guest wrote its variables
    step,           \* the next call of lv_convert_nvram(), or "none"
    seen,           \* the <nvram> element it read
    result,         \* of the request in work
    told            \* history: the result the user was told

handler == <<step, seen, result, told>>
vars == <<power, config, live, files, written, handler>>

Paths == {"fd", "qcow2"}
Nvrams == [path : Paths, format : {"none", "raw", "qcow2"}]
Results == {"nothing", "failed", "already", "converted"}

Absent == [format |-> "absent", version |-> 0]
\* What a conversion leaves that failed, or wrote over its own source.
Rubbish == [format |-> "rubbish", version |-> 0]
File(f, v) == [format |-> f, version |-> v]

\* A file without a format attribute is taken for a raw one.
Fits(nvram) ==
    files[nvram.path].format = IF nvram.format = "none" THEN "raw" ELSE nvram.format

Init ==
    /\ power = "off"
    /\ config = [path |-> "fd", format |-> IF Bare THEN "none" ELSE "raw"]
    /\ live = "fd"
    /\ files = [p \in Paths |-> IF p = "fd" THEN File("raw", 0) ELSE Absent]
    /\ written = 0
    /\ step = "none"
    /\ seen = config
    /\ result = "nothing" /\ told = "nothing"

-----------------------------------------------------------------------------
(* The machine.                                                            *)

Start ==
    /\ step = "none" \/ Disturbed
    /\ power = "off"
    /\ Fits(config)
    /\ power' = "on"
    /\ live' = config.path
    /\ UNCHANGED <<config, files, written, handler>>

Stop ==
    /\ step = "none" \/ Disturbed
    /\ power = "on"
    /\ power' = "off"
    /\ UNCHANGED <<config, live, files, written, handler>>

GuestWrites ==
    /\ power = "on"
    /\ written < MaxWrites
    /\ written' = written + 1
    /\ files' = [files EXCEPT ![live].version = written + 1]
    /\ UNCHANGED <<power, config, live, handler>>

-----------------------------------------------------------------------------
(* lv_convert_nvram().                                                     *)

Goes(s) == step' = s /\ UNCHANGED <<power, live, written, told>>
Ends(r) == Goes("answer") /\ result' = r

Request ==
    /\ step = "none"
    /\ step' = "state"
    /\ told' = "nothing"
    /\ UNCHANGED <<power, config, live, files, written, seen, result>>

\* virDomainGetInfo(), which may fail.
CheckState ==
    /\ step = "state"
    /\ \/ power = "off" /\ Goes("xml") /\ UNCHANGED result
       \/ Ends("failed")
    /\ UNCHANGED <<config, files, seen>>

\* Mutant of ReadXml: a file that is qcow2 already is converted again.
ReadXmlAgain ==
    /\ step = "xml"
    /\ seen' = config
    /\ Goes("convert") /\ UNCHANGED result
    /\ UNCHANGED <<config, files>>

\* virDomainGetXMLDesc(), which may fail.
ReadXml ==
    /\ step = "xml"
    /\ seen' = config
    /\ \/ config.format = "qcow2" /\ Ends("already")
       \/ config.format # "qcow2" /\ Goes("convert") /\ UNCHANGED result
       \/ Ends("failed")
    /\ UNCHANGED <<config, files>>

\* qemu-img convert -f raw.  A machine that runs has its file locked.  A file
\* written over itself does not hold the variables afterwards.
Convert ==
    /\ step = "convert"
    /\ power = "on" => live # seen.path
    /\ files' = [files EXCEPT !["qcow2"] =
                    IF seen.path = "qcow2" THEN Rubbish
                    ELSE File("qcow2", files[seen.path].version)]
    /\ Goes("define") /\ UNCHANGED result
    /\ UNCHANGED <<config, seen>>

\* It leaves what it has written, if it has begun.
ConvertFails ==
    /\ step = "convert"
    /\ \/ UNCHANGED files
       \/ seen.path # "qcow2" /\ files' = [files EXCEPT !["qcow2"] = Rubbish]
    /\ Ends("failed")
    /\ UNCHANGED <<config, seen>>

\* Mutant of Define: only the path is replaced.
DefinePath ==
    /\ step = "define"
    /\ config' = [seen EXCEPT !.path = "qcow2"]
    /\ Ends("converted")
    /\ UNCHANGED <<files, seen>>

\* virDomainDefineXML() with the path replaced, and a format='raw' if there is
\* one.  It does not matter whether the machine runs.
Define ==
    /\ step = "define"
    /\ config' = [path |-> "qcow2",
                  format |-> IF seen.format = "raw" THEN "qcow2" ELSE seen.format]
    /\ Ends("converted")
    /\ UNCHANGED <<files, seen>>

\* Mutant of DefineFails: the file that was converted is removed.
DefineFailsOld ==
    /\ step = "define"
    /\ files' = [files EXCEPT ![seen.path] = Absent]
    /\ Ends("failed")
    /\ UNCHANGED <<config, seen>>

\* The new file is removed again.
DefineFails ==
    /\ step = "define"
    /\ files' = [files EXCEPT !["qcow2"] = Absent]
    /\ Ends("failed")
    /\ UNCHANGED <<config, seen>>

\* handle_convert_nvram()
Answer ==
    /\ step = "answer"
    /\ step' = "none"
    /\ told' = result
    /\ result' = "nothing"
    /\ UNCHANGED <<power, config, live, files, written, seen>>

Next ==
    \/ Start \/ Stop \/ GuestWrites
    \/ Request \/ CheckState \/ ReadXml \/ Convert \/ ConvertFails
    \/ Define \/ DefineFails \/ Answer

Spec == Init /\ [][Next]_vars

-----------------------------------------------------------------------------
(* The types of the variables; the raw file stays one.                     *)
TypeOK ==
    /\ power \in {"on", "off"}
    /\ config \in Nvrams
    /\ live \in Paths
    /\ files \in [Paths -> [format : {"absent", "rubbish", "raw", "qcow2"},
                            version : 0 .. MaxWrites]]
    /\ files["fd"].format = "raw"
    /\ written \in 0 .. MaxWrites
    /\ step \in {"none", "state", "xml", "convert", "define", "answer"}
    /\ seen \in Nvrams
    /\ {result, told} \subseteq Results

(* routes.c:508, "Your data will NOT be lost.": whichever call fails, and  *)
(* however often the button is used, the file of the configuration holds   *)
(* all that the guest wrote to its variables.                              *)
NvramKept ==
    LET file == files[config.path]
    IN  file.format \in {"raw", "qcow2"} /\ file.version = written

(* routes.c:307, "You can now start the VM and take internal snapshots.":  *)
(* after that answer the configuration names a qcow2 file, as one.         *)
SnapshotsWork ==
    told = "converted" => config.format = "qcow2" /\ Fits(config)
=============================================================================
