------------------------------ MODULE MCFileJob ------------------------------
(* Instances of FileJob for TLC.                                            *)
EXTENDS FileJob, TLC

(* Requests that differ in what they ask for and are otherwise well formed. *)
PlainJobs ==
  {j \in Job : /\ j.valid /\ ~j.samePath /\ ~j.nested
               /\ j.track \in {"no", "yes"}
               /\ j.gen => j.checksum}

(* The requests the code rejects, one for each reason.                      *)
Plain == [valid |-> TRUE, overwrite |-> TRUE, checksum |-> TRUE, gen |-> TRUE,
          track |-> "yes", samePath |-> FALSE, nested |-> FALSE]
RejectedJobs ==
  {[Plain EXCEPT !.valid = FALSE], [Plain EXCEPT !.track = "malformed"],
   [Plain EXCEPT !.samePath = TRUE]}

AllJobs == PlainJobs \cup RejectedJobs

(* The request with most steps, one that is rejected late, and one with     *)
(* nested directories.                                                      *)
LiveJobs == {Plain, [Plain EXCEPT !.samePath = TRUE],
             [Plain EXCEPT !.nested = TRUE]}

(* No definition distinguishes two contents of the source.                  *)
ContentSymmetry == Permutations(Contents)
=============================================================================
