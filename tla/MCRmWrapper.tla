----------------------------- MODULE MCRmWrapper -----------------------------
(* Instances of RmWrapper for TLC.                                          *)
EXTENDS RmWrapper

AllJobs == Job
EmptyDir == {[valid |-> TRUE, reserved |-> TRUE, filtered |-> FALSE]}
=============================================================================
