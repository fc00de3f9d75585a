---------------------------- MODULE RequestTexts ----------------------------
(* The requests that the daemon serves (Requests) and the texts that they  *)
(* are made of (Text).                                                     *)
EXTENDS Requests

(* util.c:103, 127, 163, 203, routes.c:149: a handler that is reached has  *)
(* the names of its path, reads from the form of the user what was written *)
(* into it, hands the shell of the guest the command as it was, and reads  *)
(* its output within the buffer and as it was written.                     *)
TextKept ==
    \A c \in Conns :
        /\ handled[c] \in Operations \ {"static", "ping", "idle-check"} => PathsSplit
        /\ handled[c] \in {"create", "edit", "add"} => FormsKept
        /\ handled[c] \in {"mount", "unmount", "automount"} => CommandsKept /\ OutputKept
=============================================================================
