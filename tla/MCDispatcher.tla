---------------------------- MODULE MCDispatcher ----------------------------
(* Instance of Dispatcher for TLC: two system tables, one of which is a    *)
(* backup file, the table of a user, and descriptors for two tables.       *)
EXTENDS Dispatcher
=============================================================================
