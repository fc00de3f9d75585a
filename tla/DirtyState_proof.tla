-------------------------- MODULE DirtyState_proof --------------------------
(* Theorems of DirtyState, for every set of names, every capacity and      *)
(* every combination of faults, whatever the first file holds.             *)
EXTENDS DirtyState, SequenceTheorems, WellFoundedInduction, TLAPS

(* The inductive invariant.  What is about to be renamed into place is the *)
(* table, so the file never holds anything but a sound table.              *)
SoundFile(f) == FoundDoubles \/ Unique(f.entries)

IInv ==
    /\ TypeOK
    /\ TableSound
    /\ SoundFile(file)
    /\ SoundFile(durable)
    /\ ~up => pc = "idle" /\ table = <<>>
    /\ pc = "renaming" => tmp = Whole(table)
    /\ pc # "idle" => HasPath
    /\ NeverTorn
    /\ DiskFollowsMemory
    /\ ~PowerFaults => durable.state # "torn"

-----------------------------------------------------------------------------
(* dirty_state_find() finds the first entry of a name, if there is one.    *)
LEMMA FindIsTheMatch ==
    ASSUME NEW t \in Seq(Entry), NEW n
    PROVE  /\ n \in Tracked(t) => /\ Find(t, n) \in 1 .. Len(t)
                                  /\ t[Find(t, n)].name = n
                                  /\ \A j \in 1 .. Len(t) :
                                        j < Find(t, n) => t[j].name # n
           /\ n \notin Tracked(t) => Find(t, n) = 0
<1>1. ASSUME n \in Tracked(t)
      PROVE  /\ Find(t, n) \in DOMAIN t
             /\ t[Find(t, n)].name = n
             /\ \A j \in DOMAIN t : j < Find(t, n) => t[j].name # n
  <2>. DEFINE T == {i \in DOMAIN t : t[i].name = n}
  <2>1. T # {} /\ T \subseteq Nat
    BY <1>1 DEF Tracked
  <2>2. PICK i \in T : \A j \in T : ~(<<j, i>> \in OpToRel(<, Nat))
    <3>. HIDE DEF T
    <3>. QED
      BY <2>1, NatLessThanWellFounded, WFMin
  <2>3. \A j \in T : ~(j < i)
    BY <2>1, <2>2 DEF OpToRel
  <2>4. \A j \in DOMAIN t : j < i => t[j].name # n
    BY <2>3
  <2>. QED
    BY <1>1, <2>2, <2>4 DEF Find
<1>2. DOMAIN t = 1 .. Len(t)
  OBVIOUS
<1>. QED
  BY <1>1, <1>2 DEF Find

LEMMA FindFirst ==
    ASSUME NEW t \in Seq(Entry), NEW i \in 1 .. Len(t),
           \A j \in 1 .. Len(t) : j < i => t[j].name # t[i].name
    PROVE  Find(t, t[i].name) = i
<1>. DEFINE n == t[i].name
            f == Find(t, n)
<1>1. n \in Tracked(t)
  BY DEF Tracked
<1>2. /\ f \in 1 .. Len(t)
      /\ t[f].name = n
      /\ \A j \in 1 .. Len(t) : j < f => t[j].name # n
  BY <1>1, FindIsTheMatch
<1>. HIDE DEF f
<1>3. ~(f < i) /\ ~(i < f)
  BY <1>2
<1>. QED
  BY <1>2, <1>3 DEF f

(* dirty_state_set() keeps a table sound.                                  *)
LEMMA PutIsSound ==
    ASSUME NEW t \in Seq(Entry), Len(t) <= MaxTracked,
           NEW n \in Names, NEW c \in BOOLEAN
    PROVE  /\ Put(t, n, c) \in Seq(Entry)
           /\ Unique(t) => Unique(Put(t, n, c))
           /\ Len(Put(t, n, c)) <= MaxTracked
<1>. USE CapacityAssumption
<1>. DEFINE e == [name |-> n, clean |-> c]
<1>0. e \in Entry /\ e.name = n
  BY DEF Entry
<1>1. CASE n \in Tracked(t)
  <2>1. Find(t, n) \in 1 .. Len(t) /\ t[Find(t, n)].name = n
    BY <1>1, FindIsTheMatch
  <2>2. Put(t, n, c) = [t EXCEPT ![Find(t, n)] = e]
    BY <2>1 DEF Put
  <2>. HIDE DEF e
  <2>3. /\ Put(t, n, c) \in Seq(Entry)
        /\ Len(Put(t, n, c)) = Len(t)
        /\ \A i \in 1 .. Len(t) :
              Put(t, n, c)[i] = IF i = Find(t, n) THEN e ELSE t[i]
    BY <1>0, <2>1, <2>2, ExceptSeq
  <2>4. \A i \in 1 .. Len(t) : Put(t, n, c)[i].name = t[i].name
    BY <1>0, <2>1, <2>3
  <2>5. QED
    BY <2>3, <2>4 DEF Unique
<1>2. CASE n \notin Tracked(t) /\ Len(t) < MaxTracked
  <2>1. Put(t, n, c) = Append(t, e)
    BY <1>2, FindIsTheMatch DEF Put
  <2>. HIDE DEF e
  <2>3. /\ Put(t, n, c) \in Seq(Entry)
        /\ Len(Put(t, n, c)) = Len(t) + 1
    BY <1>0, <2>1
  <2>4. Unique(t) => Unique(Put(t, n, c))
    BY <1>0, <1>2, <2>1 DEF Unique, Tracked
  <2>5. QED
    BY <1>2, <2>3, <2>4
<1>3. CASE n \notin Tracked(t) /\ ~(Len(t) < MaxTracked)
  BY <1>3, FindIsTheMatch DEF Put
<1>4. QED
  BY <1>1, <1>2, <1>3

(* dirty_state_init() builds a sound table from a sound file.              *)
LEMMA LoadIsSound ==
    ASSUME NEW f \in File, SoundFile(f)
    PROVE  /\ Load(f) \in Seq(Entry)
           /\ FoundDoubles \/ Unique(Load(f))
           /\ Len(Load(f)) <= MaxTracked
<1>. USE CapacityAssumption
<1>1. f.entries \in Seq(Entry) /\ (FoundDoubles \/ Unique(f.entries))
  BY DEF File, SoundFile
<1>2. CASE HasPath /\ f.state = "whole"
  <2>. DEFINE m == IF Len(f.entries) < MaxTracked THEN Len(f.entries)
                   ELSE MaxTracked
  <2>1. m \in Nat /\ m <= MaxTracked /\ m <= Len(f.entries)
    BY <1>1
  <2>2. Load(f) = SubSeq(f.entries, 1, m)
    BY <1>2 DEF Load
  <2>3. /\ Load(f) \in Seq(Entry)
        /\ Len(Load(f)) = m
        /\ \A i \in 1 .. m : Load(f)[i] = f.entries[i]
    BY <1>1, <2>1, <2>2
  <2>4. QED
    BY <1>1, <2>1, <2>3 DEF Unique
<1>3. CASE ~(HasPath /\ f.state = "whole")
  BY <1>3 DEF Load, Unique
<1>4. QED
  BY <1>2, <1>3

(* A saved table is loaded as it was.                                      *)
LEMMA LoadOfSaved ==
    ASSUME NEW t \in Seq(Entry), Len(t) <= MaxTracked, HasPath
    PROVE  Load(Whole(t)) = t
<1>1. Load(Whole(t)) = SubSeq(t, 1, Len(t))
  BY CapacityAssumption DEF Load, Whole
<1>2. QED
  BY <1>1

-----------------------------------------------------------------------------
LEMMA WorldStays == [Next]_vars => UNCHANGED world
BY DEF Next, Start, MarkClean, MarkDirty, Set, OpenTmp, WriteTmp, RenameTmp,
       SaveFails, Exit, Writeback, PowerLoss, vars

LEMMA InitIInv == Init => IInv
<1>. SUFFICES ASSUME Init PROVE IInv
  OBVIOUS
<1>1. Absent \in File /\ Unique(Absent.entries)
  BY DEF Absent, File, Unique
<1>2. \A s \in Found : /\ Whole(s) \in File
                       /\ Whole(s).entries = s
                       /\ Whole(s).state = "whole"
  BY FoundAssumption DEF Whole, File
<1>3. file \in File /\ SoundFile(file) /\ file.state # "torn"
  BY <1>1, <1>2 DEF Init, SoundFile, Absent
<1>4. Unique(<<>>) /\ Len(<<>>) <= MaxTracked /\ <<>> \in Seq(Entry)
  BY CapacityAssumption DEF Unique
<1>. QED
  BY <1>1, <1>3, <1>4
  DEF Init, IInv, TypeOK, TableSound, NeverTorn, DiskFollowsMemory

\* The two marking calls differ in the value they set and in the promises.
LEMMA SetIInv ==
    ASSUME IInv, NEW n \in Names, NEW c \in BOOLEAN, Set(n, c),
           promised' \in SUBSET Names
    PROVE  IInv'
<1>1. /\ Put(table, n, c) \in Seq(Entry)
      /\ FoundDoubles \/ Unique(Put(table, n, c))
      /\ Len(Put(table, n, c)) <= MaxTracked
  BY PutIsSound DEF IInv, TypeOK, TableSound
<1>2. TypeOK' /\ TableSound'
  BY <1>1 DEF Set, IInv, TypeOK, TableSound, FoundDoubles
<1>3. DiskFollowsMemory'
  BY DEF Set, IInv, DiskFollowsMemory, Load
<1>4. (PowerFaults' <=> PowerFaults) /\ (FoundDoubles' <=> FoundDoubles)
  BY DEF Set, PowerFaults, FoundDoubles
<1>. QED
  BY <1>2, <1>3, <1>4 DEF Set, IInv, SoundFile, NeverTorn, Unique

LEMMA NextIInv == IInv /\ [Next]_vars => IInv'
<1>. SUFFICES ASSUME IInv, [Next]_vars PROVE IInv'
  OBVIOUS
<1>0. Unique(<<>>) /\ Len(<<>>) <= MaxTracked /\ <<>> \in Seq(Entry)
  BY CapacityAssumption DEF Unique
<1>w. (PowerFaults' <=> PowerFaults) /\ (FoundDoubles' <=> FoundDoubles)
  BY WorldStays DEF PowerFaults, FoundDoubles
<1>1. CASE Start
  <2>1. /\ Load(file) \in Seq(Entry)
        /\ FoundDoubles \/ Unique(Load(file))
        /\ Len(Load(file)) <= MaxTracked
    BY LoadIsSound DEF IInv, TypeOK
  <2>2. table' = Load(file) \/ (table' = <<>> /\ stale' = TRUE)
    BY <1>1 DEF Start
  <2>3. TypeOK'
    BY <1>0, <1>1, <2>1, <2>2 DEF Start, IInv, TypeOK
  <2>4. TableSound'
    BY <1>w, <1>0, <2>1, <2>2 DEF TableSound
  <2>5. DiskFollowsMemory'
    BY <1>1, <2>2 DEF Start, DiskFollowsMemory, Load
  <2>. QED
    BY <1>w, <1>1, <2>3, <2>4, <2>5 DEF Start, IInv, SoundFile, NeverTorn
<1>2. ASSUME NEW n \in Names, MarkClean(n) PROVE IInv'
  BY <1>2, SetIInv DEF MarkClean, IInv, TypeOK
<1>3. ASSUME NEW n \in Names, MarkDirty(n) PROVE IInv'
  <2>1. promised' \in SUBSET Names
    BY <1>3 DEF MarkDirty, IInv, TypeOK
  <2>. QED
    BY <1>3, <2>1, SetIInv DEF MarkDirty
<1>4. CASE OpenTmp
  BY <1>w, <1>4 DEF OpenTmp, IInv, TypeOK, TableSound, SoundFile, NeverTorn,
              DiskFollowsMemory, Torn, File
<1>5. CASE WriteTmp
  BY <1>w, <1>5 DEF WriteTmp, IInv, TypeOK, TableSound, SoundFile, NeverTorn,
              DiskFollowsMemory, Whole, File
<1>6. CASE RenameTmp
  <2>1. file' = Whole(table) /\ table' = table /\ HasPath
    BY <1>6 DEF RenameTmp, IInv
  <2>2. Whole(table) \in File /\ Whole(table).state = "whole"
    BY DEF Whole, File, IInv, TypeOK
  <2>3. SoundFile(Whole(table))
    BY DEF SoundFile, Whole, IInv, TableSound
  <2>4. DiskFollowsMemory'
    <3>1. Load(file') = table
      BY <2>1, LoadOfSaved DEF IInv, TypeOK, TableSound
    <3>. QED
      BY <2>1, <3>1 DEF DiskFollowsMemory, Load
  <2>5. TypeOK'
    <3>1. Absent \in File
      BY DEF Absent, File
    <3>2. promised' \subseteq Names
      BY <1>6 DEF RenameTmp
    <3>. QED
      BY <1>6, <2>1, <2>2, <3>1, <3>2 DEF RenameTmp, IInv, TypeOK
  <2>. QED
    BY <1>w, <1>6, <2>1, <2>2, <2>3, <2>4, <2>5
    DEF RenameTmp, IInv, TableSound, SoundFile, NeverTorn
<1>7. CASE SaveFails
  <2>1. TypeOK'
    BY <1>7 DEF SaveFails, IInv, TypeOK, Absent, File
  <2>. QED
    BY <1>w, <1>7, <2>1 DEF SaveFails, IInv, TableSound, SoundFile, NeverTorn,
                      DiskFollowsMemory
<1>8. CASE Exit
  BY <1>w, <1>0, <1>8 DEF Exit, IInv, TypeOK, TableSound, SoundFile, NeverTorn,
                    DiskFollowsMemory
<1>9. CASE Writeback
  BY <1>w, <1>9 DEF Writeback, IInv, TypeOK, TableSound, SoundFile, NeverTorn,
              DiskFollowsMemory
<1>10. CASE PowerLoss
  <2>1. Torn \in File /\ SoundFile(Torn)
    BY DEF Torn, File, SoundFile, Unique
  <2>2. file' \in {file, durable, Torn} /\ durable' = file' /\ PowerFaults
    BY <1>10 DEF PowerLoss
  <2>3. file' \in File /\ SoundFile(file')
    BY <2>1, <2>2 DEF IInv, TypeOK
  <2>. QED
    BY <1>w, <1>0, <1>10, <2>2, <2>3
    DEF PowerLoss, IInv, TypeOK, TableSound, SoundFile, NeverTorn,
        DiskFollowsMemory
<1>11. CASE UNCHANGED vars
  BY <1>w, <1>11 DEF vars, IInv, TypeOK, TableSound, SoundFile, NeverTorn,
               DiskFollowsMemory
<1>. QED
  BY <1>1, <1>2, <1>3, <1>4, <1>5, <1>6, <1>7, <1>8, <1>9, <1>10, <1>11
  DEF Next

LEMMA IInvHolds == Spec => []IInv
BY InitIInv, NextIInv, PTL DEF Spec

(* Every variable keeps its type.                                          *)
THEOREM TypeCorrect == Spec => []TypeOK
<1>1. IInv => TypeOK
  BY DEF IInv
<1>. QED
  BY <1>1, IInvHolds, PTL

(* dirty_state.c:21, 115-177, 218-248: no sequence of calls, loads and     *)
(* crashes puts more entries than the array has room for in the table, or  *)
(* two of one name unless the file found at the first start had two, and   *)
(* only a loss of power can leave a torn file.                             *)
THEOREM NothingBreaks == Spec => []NeverBroken
<1>1. IInv => NeverBroken
  BY DEF IInv, NeverBroken
<1>. QED
  BY <1>1, IInvHolds, PTL

(* dirty_state.c:152-177: when no save failed, a restart would load the    *)
(* table that is in memory.                                                *)
THEOREM DiskIsMemory == Spec => []DiskFollowsMemory
<1>1. IInv => DiskFollowsMemory
  BY DEF IInv
<1>. QED
  BY <1>1, IInvHolds, PTL

-----------------------------------------------------------------------------
(* What dirty_state_set() does to the mark of each name, when it does      *)
(* anything.                                                               *)
LEMMA MarkOfPut ==
    ASSUME NEW t \in Seq(Entry), Len(t) <= MaxTracked,
           NEW n \in Names, NEW c \in BOOLEAN, Put(t, n, c) # t
    PROVE  \A k \in Names :
              MarkOf(Put(t, n, c), k) =
                 IF k = n THEN IF c THEN "clean" ELSE "dirty" ELSE MarkOf(t, k)
<1>. DEFINE e == [name |-> n, clean |-> c]
            p == Put(t, n, c)
<1>0. e \in Entry /\ e.name = n /\ e.clean = c
  BY DEF Entry
<1>1. p \in Seq(Entry)
  BY PutIsSound
<1>2. SUFFICES ASSUME NEW k \in Names
               PROVE  MarkOf(p, k) = IF k = n THEN IF c THEN "clean" ELSE "dirty"
                                     ELSE MarkOf(t, k)
  OBVIOUS
<1>3. CASE n \in Tracked(t)
  <2>. DEFINE f == Find(t, n)
  <2>1. /\ f \in 1 .. Len(t) /\ t[f].name = n /\ f # 0
        /\ \A j \in 1 .. Len(t) : j < f => t[j].name # n
    BY <1>3, FindIsTheMatch
  <2>2. p = [t EXCEPT ![f] = e]
    BY <2>1 DEF Put
  <2>. HIDE DEF e, f, p
  <2>3. /\ Len(p) = Len(t)
        /\ \A i \in 1 .. Len(t) : p[i] = IF i = f THEN e ELSE t[i]
    BY <1>0, <2>1, <2>2, ExceptSeq
  <2>4. CASE k = n
    <3>1. Find(p, k) = f
      BY <1>0, <1>1, <2>1, <2>3, <2>4, FindFirst
    <3>. QED
      BY <1>0, <2>1, <2>3, <2>4, <3>1 DEF MarkOf
  <2>5. CASE k # n /\ k \in Tracked(t)
    <3>1. /\ Find(t, k) \in 1 .. Len(t) /\ t[Find(t, k)].name = k
          /\ \A j \in 1 .. Len(t) : j < Find(t, k) => t[j].name # k
      BY <2>5, FindIsTheMatch
    <3>2. Find(t, k) # f
      BY <2>1, <2>5, <3>1
    <3>3. p[Find(t, k)] = t[Find(t, k)]
      BY <2>3, <3>1, <3>2
    <3>4. \A j \in 1 .. Len(p) : j < Find(t, k) => p[j].name # k
      BY <1>0, <2>3, <2>5, <3>1
    <3>5. Find(p, k) = Find(t, k)
      BY <1>1, <2>3, <3>1, <3>3, <3>4, FindFirst
    <3>. QED
      BY <2>5, <3>3, <3>5 DEF MarkOf
  <2>6. CASE k # n /\ k \notin Tracked(t)
    <3>1. k \notin Tracked(p)
      BY <1>0, <2>1, <2>3, <2>6 DEF Tracked
    <3>2. Find(p, k) = 0 /\ Find(t, k) = 0
      BY <3>1, <2>6, <1>1, FindIsTheMatch
    <3>. QED
      BY <2>6, <3>2 DEF MarkOf
  <2>. QED
    BY <2>4, <2>5, <2>6
<1>4. CASE n \notin Tracked(t)
  <2>1. p = Append(t, e) /\ Find(t, n) = 0
    BY <1>4, FindIsTheMatch DEF Put
  <2>. HIDE DEF e, p
  <2>2. /\ Len(p) = Len(t) + 1
        /\ p[Len(t) + 1] = e
        /\ \A i \in 1 .. Len(t) : p[i] = t[i]
    BY <1>0, <2>1
  <2>3. CASE k = n
    <3>1. Find(p, k) = Len(t) + 1
      <4>1. \A j \in 1 .. Len(p) : j < Len(t) + 1 => p[j].name # n
        BY <1>4, <2>2 DEF Tracked
      <4>. QED
        BY <1>0, <1>1, <2>2, <2>3, <4>1, FindFirst
    <3>. QED
      BY <1>0, <2>2, <2>3, <3>1 DEF MarkOf
  <2>4. CASE k # n /\ k \in Tracked(t)
    <3>1. /\ Find(t, k) \in 1 .. Len(t) /\ t[Find(t, k)].name = k
          /\ \A j \in 1 .. Len(t) : j < Find(t, k) => t[j].name # k
      BY <2>4, FindIsTheMatch
    <3>2. /\ p[Find(t, k)] = t[Find(t, k)] /\ Find(t, k) \in 1 .. Len(p)
          /\ \A j \in 1 .. Len(p) : j < Find(t, k) => p[j].name # k
      BY <2>2, <3>1, <1>1
    <3>3. Find(p, k) = Find(t, k)
      BY <1>1, <3>1, <3>2, FindFirst
    <3>. QED
      BY <2>4, <3>2, <3>3 DEF MarkOf
  <2>5. CASE k # n /\ k \notin Tracked(t)
    <3>1. k \notin Tracked(p)
      BY <1>0, <1>1, <2>2, <2>5 DEF Tracked
    <3>2. Find(p, k) = 0 /\ Find(t, k) = 0
      BY <3>1, <2>5, <1>1, FindIsTheMatch
    <3>. QED
      BY <2>5, <3>2 DEF MarkOf
  <2>. QED
    BY <2>3, <2>4, <2>5
<1>. QED
  BY <1>3, <1>4

\* In any case, the marks of the other names stay.
LEMMA OtherMarks ==
    ASSUME IInv, NEW n \in Names, NEW c \in BOOLEAN, NEW k \in Names
    PROVE  \/ MarkOf(Put(table, n, c), k) = MarkOf(table, k)
           \/ k = n /\ MarkOf(Put(table, n, c), k) = IF c THEN "clean" ELSE "dirty"
<1>1. CASE Put(table, n, c) = table
  BY <1>1
<1>2. CASE Put(table, n, c) # table
  BY <1>2, MarkOfPut DEF IInv, TypeOK, TableSound
<1>. QED
  BY <1>1, <1>2

\* An empty table is the blank image.
LEMMA ImageOfEmpty == ImageOf(<<>>) = Ledger!Blank
<1>1. \A n \in Names : Find(<<>>, n) = 0
  BY DEF Find, Tracked
<1>. QED
  BY <1>1 DEF ImageOf, MarkOf, Ledger!Blank

LEMMA ImageType == \A t : ImageOf(t) \in Ledger!Image
BY DEF ImageOf, MarkOf, Ledger!Image, Ledger!Marks

\* A marking call is a Mark of the ledger, or changes nothing in it.
LEMMA SetIsMark ==
    ASSUME IInv, NEW n \in Names, NEW c \in BOOLEAN, Set(n, c)
    PROVE  [Ledger!LedgerNext]_(Ledger!ledgerVars)
<1>. DEFINE m == IF c THEN "clean" ELSE "dirty"
<1>1. /\ table' = Put(table, n, c) /\ up /\ up' = up
      /\ file' = file /\ durable' = durable
  BY DEF Set
<1>2. CASE table' = table
  BY <1>1, <1>2 DEF Ledger!ledgerVars
<1>3. CASE table' # table
  <2>1. \A k \in Names :
           MarkOf(table', k) = IF k = n THEN m ELSE MarkOf(table, k)
    BY <1>1, <1>3, MarkOfPut DEF IInv, TypeOK, TableSound
  <2>2. ImageOf(table') = [ImageOf(table) EXCEPT ![n] = m]
    BY <2>1 DEF ImageOf
  <2>3. m \in Ledger!Marks \ {"untracked"} /\ m \in Ledger!Marks
    BY DEF Ledger!Marks
  <2>4. Ledger!Mark(n, m)
    BY <1>1, <2>2, <2>3 DEF Ledger!Mark
  <2>. QED
    BY <2>3, <2>4 DEF Ledger!LedgerNext
<1>. QED
  BY <1>2, <1>3

(* dirty_state.c implements the ledger: marks, whole flushes, starts, ends *)
(* and losses of power, and nothing else, whatever fails and whenever.     *)
THEOREM DirtyStateImplementsLedger == Spec => ImplementsLedger
<1>1. Init => Ledger!LedgerInit
  BY ImageOfEmpty, ImageType DEF Init, Ledger!LedgerInit
<1>2. IInv /\ [Next]_vars => [Ledger!LedgerNext]_(Ledger!ledgerVars)
  <2>. SUFFICES ASSUME IInv, [Next]_vars
                PROVE  [Ledger!LedgerNext]_(Ledger!ledgerVars)
    OBVIOUS
  <2>1. CASE Start
    BY <2>1, ImageOfEmpty DEF Start, Ledger!LedgerNext, Ledger!ComeUp
  <2>2. ASSUME NEW n \in Names, MarkClean(n)
        PROVE  [Ledger!LedgerNext]_(Ledger!ledgerVars)
    BY <2>2, SetIsMark DEF MarkClean
  <2>3. ASSUME NEW n \in Names, MarkDirty(n)
        PROVE  [Ledger!LedgerNext]_(Ledger!ledgerVars)
    BY <2>3, SetIsMark DEF MarkDirty
  <2>4. CASE OpenTmp
    BY <2>4 DEF OpenTmp, Ledger!ledgerVars
  <2>5. CASE WriteTmp
    BY <2>5 DEF WriteTmp, Ledger!ledgerVars
  <2>6. CASE RenameTmp
    <3>1. file' = Whole(table) /\ table' = table /\ HasPath /\ up /\ up'
          /\ durable' = durable
      BY <2>6 DEF RenameTmp, IInv, TypeOK
    <3>2. Load(file') = table
      BY <3>1, LoadOfSaved DEF IInv, TypeOK, TableSound
    <3>. QED
      BY <3>1, <3>2 DEF Ledger!LedgerNext, Ledger!Flush
  <2>7. CASE SaveFails
    BY <2>7 DEF SaveFails, Ledger!ledgerVars
  <2>8. CASE Exit
    BY <2>8, ImageOfEmpty DEF Exit, Ledger!LedgerNext, Ledger!GoDown
  <2>9. CASE Writeback
    BY <2>9 DEF Writeback, Ledger!LedgerNext, Ledger!Harden
  <2>10. CASE PowerLoss
    <3>1. Load(Torn) = <<>>
      BY DEF Load, Torn
    <3>. QED
      BY <2>10, <3>1, ImageOfEmpty
      DEF PowerLoss, Ledger!LedgerNext, Ledger!LosePower
  <2>11. CASE UNCHANGED vars
    BY <2>11 DEF vars, Ledger!ledgerVars
  <2>. QED
    BY <2>1, <2>2, <2>3, <2>4, <2>5, <2>6, <2>7, <2>8, <2>9, <2>10, <2>11
    DEF Next
<1>. QED
  BY <1>1, <1>2, IInvHolds, PTL DEF Spec, ImplementsLedger, Ledger!LedgerSpec

-----------------------------------------------------------------------------
\* A promise is kept twice, in the file and in the table of a live process.
Kept ==
    /\ ~stale
    /\ \A n \in promised : /\ MarkOf(Load(file), n) = "dirty"
                           /\ up => MarkOf(table, n) = "dirty"

LEMMA NextKept == FaultFree /\ IInv /\ Kept /\ [Next]_vars => Kept'
<1>. SUFFICES ASSUME FaultFree, IInv, Kept, [Next]_vars PROVE Kept'
  OBVIOUS
<1>w. ~SaveFaults /\ ~LoadFaults /\ ~PowerFaults /\ HasPath
  BY DEF FaultFree
<1>0. promised \subseteq Names
  BY DEF IInv, TypeOK
<1>1. CASE Start
  BY <1>1, <1>w DEF Start, Kept, IInv, NeverTorn
<1>2. ASSUME NEW n \in Names, MarkClean(n) PROVE Kept'
  <2>1. /\ table' = Put(table, n, TRUE) /\ file' = file /\ up' = up
        /\ stale' = stale /\ promised' = promised \ {n}
    BY <1>2 DEF MarkClean, Set
  <2>2. \A k \in promised \ {n} : MarkOf(table', k) = MarkOf(table, k)
    BY <1>0, <2>1, OtherMarks
  <2>. QED
    BY <2>1, <2>2 DEF Kept
<1>3. ASSUME NEW n \in Names, MarkDirty(n) PROVE Kept'
  <2>1. /\ table' = Put(table, n, FALSE) /\ file' = file /\ up /\ up'
        /\ stale' = stale
    BY <1>3 DEF MarkDirty, Set
  <2>2. CASE Find(table, n) # 0 /\ table' = table
    <3>1. Load(file) = table /\ promised' = promised \cup {n}
      BY <1>3, <2>2 DEF MarkDirty, Set, Kept, IInv, DiskFollowsMemory, FaultFree
    <3>2. n \in Tracked(table)
      BY <2>2, FindIsTheMatch DEF IInv, TypeOK, TableSound
    <3>3. Find(table, n) \in 1 .. Len(table)
      BY <3>2, FindIsTheMatch DEF IInv, TypeOK, TableSound
    <3>4. table[Find(table, n)].clean = FALSE
      <4>. DEFINE e == [name |-> n, clean |-> FALSE]
      <4>1. table' = [table EXCEPT ![Find(table, n)] = e]
        BY <2>1, <2>2 DEF Put
      <4>2. table'[Find(table, n)] = e
        BY <3>3, <4>1 DEF IInv, TypeOK
      <4>. QED
        BY <2>2, <4>2
    <3>5. MarkOf(table, n) = "dirty"
      BY <2>2, <3>4 DEF MarkOf
    <3>. QED
      BY <2>1, <2>2, <3>1, <3>5 DEF Kept
  <2>3. CASE ~(Find(table, n) # 0 /\ table' = table)
    <3>1. promised' = promised
      BY <1>3, <2>3 DEF MarkDirty
    <3>2. \A k \in promised : \/ MarkOf(table', k) = MarkOf(table, k)
                              \/ MarkOf(table', k) = "dirty"
      BY <1>0, <2>1, OtherMarks
    <3>. QED
      BY <2>1, <3>1, <3>2 DEF Kept
  <2>. QED
    BY <2>2, <2>3
<1>4. CASE OpenTmp
  BY <1>4 DEF OpenTmp, Kept
<1>5. CASE WriteTmp
  BY <1>5 DEF WriteTmp, Kept
<1>6. CASE RenameTmp
  <2>1. file' = Whole(table) /\ table' = table
    BY <1>6 DEF RenameTmp, IInv
  <2>2. Load(file') = table
    BY <2>1, LoadOfSaved DEF FaultFree, IInv, TypeOK, TableSound
  <2>. QED
    BY <1>6, <2>1, <2>2 DEF RenameTmp, Kept
<1>7. CASE SaveFails
  BY <1>7, <1>w DEF SaveFails
<1>8. CASE Exit
  BY <1>8 DEF Exit, Kept
<1>9. CASE Writeback
  BY <1>9, <1>w DEF Writeback
<1>10. CASE PowerLoss
  BY <1>10, <1>w DEF PowerLoss
<1>11. CASE UNCHANGED vars
  BY <1>11 DEF vars, Kept
<1>. QED
  BY <1>1, <1>2, <1>3, <1>4, <1>5, <1>6, <1>7, <1>8, <1>9, <1>10, <1>11
  DEF Next

(* docs/developer-guide.md:1028: as long as no system call fails and power *)
(* is not lost, a machine marked dirty stays dirty across crashes and      *)
(* restarts at any point, until it is marked clean.                        *)
THEOREM DirtyStaysDirty == Spec => []MarkedDirtyStaysDirty
<1>. DEFINE KeptIfFree == FaultFree => Kept
<1>1. Init => KeptIfFree
  BY DEF Init, Kept
<1>2. IInv /\ KeptIfFree /\ [Next]_vars => KeptIfFree'
  <2>1. [Next]_vars => (FaultFree' <=> FaultFree)
    BY WorldStays DEF FaultFree, SaveFaults, LoadFaults, PowerFaults
  <2>. QED
    BY <2>1, NextKept
<1>3. KeptIfFree => MarkedDirtyStaysDirty
  <2>. SUFFICES ASSUME KeptIfFree, FaultFree, up, NEW n \in promised
                PROVE  MarkOf(table, n) = "dirty"
    BY DEF MarkedDirtyStaysDirty
  <2>. QED
    BY DEF Kept
<1>. HIDE DEF KeptIfFree
<1>. QED
  BY <1>1, <1>2, <1>3, IInvHolds, PTL DEF Spec
=============================================================================
