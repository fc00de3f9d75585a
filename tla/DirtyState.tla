----------------------------- MODULE DirtyState -----------------------------
(***************************************************************************)
(* src/src/dirty_state.c: the table of clean and dirty marks, one per      *)
(* virtual machine, and the JSON file it is saved to.                      *)
(*                                                                         *)
(* The table is only touched by the handler thread, one call at a time     *)
(* (src/src/server.c:220), and by main() before that thread starts and     *)
(* after it has been joined.  What interleaves with a call is therefore a  *)
(* crash of the process or a loss of power, between any two of the system  *)
(* calls that dirty_state_save() makes: the variable pc says which call    *)
(* comes next.                                                             *)
(*                                                                         *)
(* The entries of a file are its well-formed ones, in file order; names    *)
(* are opaque values.  dirty_state_save() never calls fsync(), so a file   *)
(* it has put in place is lost or emptied by a loss of power until the     *)
(* file system has written it back (durable).                              *)
(***************************************************************************)
EXTENDS Naturals, Sequences

CONSTANTS
    Names,          \* names of virtual machines
    MaxTracked,     \* MAX_TRACKED_VMS
    HasPath,        \* a dirty_state_path is configured
    Found,          \* contents the file may have before the first start
    Worlds          \* the worlds a behaviour may be in

Entry == [name : Names, clean : BOOLEAN]

\* No name is there twice.
Unique(t) == \A i, j \in DOMAIN t : t[i].name = t[j].name => i = j

ASSUME CapacityAssumption == MaxTracked \in Nat \ {0}
ASSUME SwitchAssumption ==
    HasPath \in BOOLEAN /\ Worlds \subseteq SUBSET {"save", "load", "power", "doubles"}
ASSUME FoundAssumption == Found \subseteq Seq(Entry)

VARIABLES
    world,      \* the conditions that hold in this behaviour
    up,         \* the process is alive
    table,      \* dirty_state_table[0 .. dirty_state_count - 1]
    pc,         \* next system call of dirty_state_save(), or "idle"
    file,       \* the file at dirty_state_path
    tmp,        \* the file at dirty_state_path.tmp
    durable,    \* the file as it is after a loss of power
    stale,      \* history: the last save or load of this process failed
    promised    \* history: names the callers may rely on being dirty

vars == <<world, up, table, pc, file, tmp, durable, stale, promised>>

SaveFaults == "save" \in world    \* a call of dirty_state_save() may fail
LoadFaults == "load" \in world    \* access() or reading the file may fail
PowerFaults == "power" \in world  \* the host may lose power
FoundDoubles == "doubles" \in world    \* the first file may name a machine twice

-----------------------------------------------------------------------------
(* Tables.                                                                 *)

Tracked(t) == {t[i].name : i \in DOMAIN t}

\* dirty_state_find(): the first entry with that name, 0 if there is none.
Find(t, n) ==
    IF n \in Tracked(t)
    THEN CHOOSE i \in DOMAIN t :
            t[i].name = n /\ \A j \in DOMAIN t : j < i => t[j].name # n
    ELSE 0

\* Mutant of Put: dirty_state_find() is not asked.
PutBlind(t, n, c) ==
    IF Len(t) < MaxTracked THEN Append(t, [name |-> n, clean |-> c]) ELSE t

\* Mutant of Put: the count is raised before the entry is written, which then
\* goes to the place behind it.
PutSwapped(t, n, c) ==
    IF Find(t, n) # 0 THEN [t EXCEPT ![Find(t, n)].clean = c]
    ELSE IF Len(t) < MaxTracked THEN Append(t, [name |-> "", clean |-> FALSE])
    ELSE t

\* What dirty_state_set() leaves in the table: a full table refuses a new name.
Put(t, n, c) ==
    LET e == [name |-> n, clean |-> c] IN
    IF Find(t, n) # 0 THEN [t EXCEPT ![Find(t, n)] = e]
    ELSE IF Len(t) < MaxTracked THEN Append(t, e)
    ELSE t

MarkOf(t, n) ==
    IF Find(t, n) = 0 THEN "untracked"
    ELSE IF t[Find(t, n)].clean THEN "clean" ELSE "dirty"

ImageOf(t) == [n \in Names |-> MarkOf(t, n)]

(* Files.                                                                  *)

File == [state : {"absent", "torn", "whole"}, entries : Seq(Entry)]
Absent == [state |-> "absent", entries |-> <<>>]
Torn == [state |-> "torn", entries |-> <<>>]
Whole(t) == [state |-> "whole", entries |-> t]

\* The table dirty_state_init() builds from a file: every entry is appended,
\* without asking dirty_state_find(), and no more than the capacity.
Load(f) ==
    IF HasPath /\ f.state = "whole"
    THEN SubSeq(f.entries, 1,
                IF Len(f.entries) < MaxTracked THEN Len(f.entries) ELSE MaxTracked)
    ELSE <<>>

-----------------------------------------------------------------------------
Init ==
    /\ world \in Worlds
    /\ up = FALSE
    /\ table = <<>>
    /\ pc = "idle"
    /\ file \in {Absent} \cup {Whole(s) : s \in {f \in Found : FoundDoubles \/ Unique(f)}}
    /\ tmp = Absent
    /\ durable = file
    /\ stale = FALSE
    /\ promised = {}

\* dirty_state_init(), called by main().  Any failure leaves an empty table
\* and the path set: "continuing with empty state".
Start ==
    /\ ~up
    /\ up' = TRUE
    /\ \/ table' = Load(file) /\ stale' = (file.state = "torn")
       \/ LoadFaults /\ HasPath /\ table' = <<>> /\ stale' = TRUE
    /\ UNCHANGED <<world, pc, file, tmp, durable, promised>>

\* Mutant of Set: only a new entry is saved.
SetUnsaved(n, c) ==
    /\ up
    /\ pc = "idle"
    /\ table' = Put(table, n, c)
    /\ pc' = IF HasPath /\ Len(table') > Len(table) THEN "opening" ELSE "idle"
    /\ UNCHANGED <<world, up, file, tmp, durable, stale>>

\* dirty_state_set(): an entry that already has the value is not saved again.
Set(n, c) ==
    /\ up
    /\ pc = "idle"
    /\ table' = Put(table, n, c)
    /\ pc' = IF HasPath /\ table' # table THEN "opening" ELSE "idle"
    /\ UNCHANGED <<world, up, file, tmp, durable, stale>>

\* dirty_state_mark_clean(), after a snapshot or a revert.
MarkClean(n) ==
    /\ Set(n, TRUE)
    /\ promised' = promised \ {n}

\* dirty_state_is_dirty() of a running machine, or of a paused one that has
\* no entry.  A call that returns 0 at once is a promise that n is dirty.
MarkDirty(n) ==
    /\ Set(n, FALSE)
    /\ promised' = IF Find(table, n) # 0 /\ table' = table
                   THEN promised \cup {n} ELSE promised

\* Mutant of OpenTmp: the file itself is opened, and truncated.
OpenTmpInPlace ==
    /\ pc = "opening"
    /\ pc' = "writing"
    /\ tmp' = Torn
    /\ file' = Torn
    /\ UNCHANGED <<world, up, table, durable, stale, promised>>

\* dirty_state_save(): the directory and the temporary file, which fopen()
\* truncates.
OpenTmp ==
    /\ pc = "opening"
    /\ pc' = "writing"
    /\ tmp' = Torn
    /\ UNCHANGED <<world, up, table, file, durable, stale, promised>>

\* Mutant of WriteTmp: the last entry is left out.
WriteTmpShort ==
    /\ pc = "writing"
    /\ pc' = "renaming"
    /\ tmp' = Whole(SubSeq(table, 1, Len(table) - 1))
    /\ UNCHANGED <<world, up, table, file, durable, stale, promised>>

\* json_dumpf(), fputc() and fclose() succeed.
WriteTmp ==
    /\ pc = "writing"
    /\ pc' = "renaming"
    /\ tmp' = Whole(table)
    /\ UNCHANGED <<world, up, table, file, durable, stale, promised>>

\* rename() replaces the file.  The call returns 0: what is dirty now is
\* promised to be so.
RenameTmp ==
    /\ pc = "renaming"
    /\ pc' = "idle"
    /\ file' = tmp
    /\ tmp' = Absent
    /\ stale' = FALSE
    /\ promised' = {n \in Names : MarkOf(table, n) = "dirty"}
    /\ UNCHANGED <<world, up, table, durable>>

\* A system call of dirty_state_save() fails.  The table keeps the new value,
\* the temporary file is removed if it was opened, and -1 is returned.
SaveFails ==
    /\ SaveFaults
    /\ pc # "idle"
    /\ pc' = "idle"
    /\ tmp' = IF pc = "opening" THEN tmp ELSE Absent
    /\ stale' = TRUE
    /\ UNCHANGED <<world, up, table, file, durable, promised>>

\* main() returns after dirty_state_shutdown(), or the process is killed
\* between any two system calls: the files stay as they are.
Exit ==
    /\ up
    /\ up' = FALSE
    /\ table' = <<>>
    /\ pc' = "idle"
    /\ stale' = FALSE
    /\ UNCHANGED <<world, file, tmp, durable, promised>>

\* The file system writes the file back to the disk, which only a loss of
\* power can tell.
Writeback ==
    /\ PowerFaults
    /\ durable # file
    /\ durable' = file
    /\ UNCHANGED <<world, up, table, pc, file, tmp, stale, promised>>

\* The host loses power.  A file that was not written back keeps its content,
\* falls back to the last one that was, or is left without content.  What is
\* left of the temporary file is never read: the next save truncates it.
PowerLoss ==
    /\ PowerFaults
    /\ up' = FALSE
    /\ table' = <<>>
    /\ pc' = "idle"
    /\ stale' = FALSE
    /\ file' \in IF file = durable THEN {file} ELSE {file, durable, Torn}
    /\ durable' = file'
    /\ UNCHANGED <<world, tmp, promised>>

Next ==
    \/ Start
    \/ \E n \in Names : MarkClean(n)
    \/ \E n \in Names : MarkDirty(n)
    \/ OpenTmp
    \/ WriteTmp
    \/ RenameTmp
    \/ SaveFails
    \/ Exit
    \/ Writeback
    \/ PowerLoss

Spec == Init /\ [][Next]_vars

-----------------------------------------------------------------------------
(* The types of the variables.                                             *)
TypeOK ==
    /\ world \in Worlds
    /\ up \in BOOLEAN
    /\ table \in Seq(Entry)
    /\ pc \in {"idle", "opening", "writing", "renaming"}
    /\ file \in File
    /\ tmp \in File
    /\ durable \in File
    /\ stale \in BOOLEAN
    /\ promised \in SUBSET Names

\* One entry per name, unless the file found at the first start had two: no
\* update, save or load of its own makes a second one.
TableSound == (FoundDoubles \/ Unique(table)) /\ Len(table) <= MaxTracked

(* Between calls, unless the last save or load failed, a restart would     *)
(* load exactly the table in memory: no update of the table forgets to     *)
(* save it (dirty_state.c:152-177).                                        *)
DiskFollowsMemory ==
    up /\ pc = "idle" /\ HasPath /\ ~stale => Load(file) = table

\* A crash of the process leaves no half-written file behind.
NeverTorn == ~PowerFaults => file.state # "torn"

(* Neither the table nor the file breaks: the table keeps to the bound of  *)
(* its array (dirty_state.c:21), and to one entry per name if the file     *)
(* found at the first start did, through every load, update and crash; and *)
(* the file is replaced as a whole (115-147).                              *)
NeverBroken == TableSound /\ NeverTorn

\* The disk works and has power, and a path is configured.
FaultFree == HasPath /\ ~SaveFaults /\ ~LoadFaults /\ ~PowerFaults

(* docs/developer-guide.md:1028: machines that were marked dirty "stay     *)
(* dirty across qswm restarts": once a call that marks a machine dirty has *)
(* returned 0, the machine is dirty in every later process until it is     *)
(* marked clean, wherever the processes end.                               *)
MarkedDirtyStaysDirty ==
    FaultFree /\ up /\ pc = "idle" => \A n \in promised : MarkOf(table, n) = "dirty"

(* Every step is a step of the ledger, or leaves it as it is: the file is  *)
(* always one whole image of the table.                                    *)
Ledger == INSTANCE DirtyLedger
    WITH on <- up, mem <- ImageOf(table),
         disk <- ImageOf(Load(file)), safe <- ImageOf(Load(durable))
ImplementsLedger == Ledger!LedgerSpec
=============================================================================
