------------------------------ MODULE MCDaemon ------------------------------
(* Instances of Daemon for TLC: the daemon and up to two children.         *)
EXTENDS Daemon
=============================================================================
