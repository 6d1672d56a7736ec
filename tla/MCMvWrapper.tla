----------------------------- MODULE MCMvWrapper -----------------------------
(* Instances of MvWrapper for TLC.                                          *)
EXTENDS MvWrapper

(* One request that is rejected at once, and all others.                    *)
AllJobs ==
  {j \in Job : j.valid} \cup
  {[valid |-> FALSE, exclude |-> FALSE, rel |-> "apart"]}

Whole == {[valid |-> TRUE, exclude |-> FALSE, rel |-> "apart"]}
=============================================================================
