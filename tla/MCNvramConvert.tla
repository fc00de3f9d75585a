--------------------------- MODULE MCNvramConvert ---------------------------
(* Instances of NvramConvert for TLC.                                      *)
EXTENDS NvramConvert
=============================================================================
