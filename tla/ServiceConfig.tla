----------------------------- MODULE ServiceConfig -----------------------------
(* The configuration that the service starts with.                         *)
EXTENDS Activation, Config

(* config.h, README.md:178, main.c:38-76: when main() connects, each       *)
(* setting has the value of the option, or of the last line of the last    *)
(* file that makes it, however the lines are laid out and in whatever      *)
(* order the directory returns the files; one it cannot open stops nothing.*)
ConfigRead == main = "connect" => FilesRead /\ Override
=============================================================================
