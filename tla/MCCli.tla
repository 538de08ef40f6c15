------------------------------- MODULE MCCli -------------------------------
(***************************************************************************)
(* Small instances of the command line program.                            *)
(***************************************************************************)
EXTENDS CliSessions

CONSTANTS p1, p2, p3, trip, work, noname, nobody
=============================================================================
