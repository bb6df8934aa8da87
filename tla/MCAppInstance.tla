--------------------------- MODULE MCAppInstance ---------------------------
(* Instance of AppInstance for TLC.                                        *)
EXTENDS AppInstance, TLC
=============================================================================
