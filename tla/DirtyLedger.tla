---------------------------- MODULE DirtyLedger ----------------------------
(***************************************************************************)
(* What src/src/dirty_state.h promises its callers: one mark per virtual   *)
(* machine, held in memory while the service is up, with a persistent copy *)
(* that a later process starts from.  The persistent copy is only ever a   *)
(* whole image of the marks in memory, never a mixture of two images.      *)
(*                                                                         *)
(* DirtyState implements this module; SmartRevert is built on it.          *)
(***************************************************************************)
CONSTANT Names          \* the names of the virtual machines

VARIABLES on,           \* the service is up
          mem,          \* the marks in memory
          disk,         \* the marks in the persistent copy
          safe          \* the copy that a power loss cannot take away

ledgerVars == <<on, mem, disk, safe>>

Marks == {"clean", "dirty", "untracked"}
Image == [Names -> Marks]
Blank == [n \in Names |-> "untracked"]

LedgerInit ==
    /\ on = FALSE
    /\ mem = Blank
    /\ disk \in Image
    /\ safe = disk

\* A machine is marked clean or dirty.
Mark(n, m) ==
    /\ on
    /\ m \in Marks \ {"untracked"}
    /\ mem' = [mem EXCEPT ![n] = m]
    /\ UNCHANGED <<on, disk, safe>>

\* The marks in memory replace the persistent copy, all at once.
Flush ==
    /\ on
    /\ disk' = mem
    /\ UNCHANGED <<on, mem, safe>>

\* The file system makes the persistent copy safe from a power loss.
Harden ==
    /\ safe' = disk
    /\ UNCHANGED <<on, mem, disk>>

\* A process starts from the persistent copy, or from no marks at all when
\* the copy cannot be read.
ComeUp ==
    /\ ~on
    /\ on' = TRUE
    /\ mem' \in {disk, Blank}
    /\ UNCHANGED <<disk, safe>>

\* The process ends, in order or by a crash.
GoDown ==
    /\ on
    /\ on' = FALSE
    /\ mem' = Blank
    /\ UNCHANGED <<disk, safe>>

\* The host loses power: the copy survives, falls back to the last safe one,
\* or is lost.
LosePower ==
    /\ on' = FALSE
    /\ mem' = Blank
    /\ disk' \in {disk, safe, Blank}
    /\ safe' = disk'

LedgerNext ==
    \/ \E n \in Names, m \in Marks : Mark(n, m)
    \/ Flush
    \/ Harden
    \/ ComeUp
    \/ GoDown
    \/ LosePower

LedgerSpec == LedgerInit /\ [][LedgerNext]_ledgerVars
=============================================================================
