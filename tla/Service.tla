------------------------------- MODULE Service --------------------------------
(***************************************************************************)
(* A daemon and the sessions that are set up over its connections or over   *)
(* a remote shell.  The code runs one after the other in a process: what    *)
(* start_daemon decides (Daemon) does not depend on what setup_protocol and *)
(* the options then do (Session), so each is explored on its own.           *)
(***************************************************************************)
EXTENDS Session, Daemon

ServiceInit ==
  \/ Init /\ DaemonIdle
  \/ NoSession /\ DaemonInit
ServiceNext ==
  \/ Next /\ UNCHANGED dvars
  \/ DaemonNext /\ UNCHANGED vars
ServiceSpec == ServiceInit /\ [][ServiceNext]_<<vars, dvars>>
=============================================================================
