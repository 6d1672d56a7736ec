------------------------------- MODULE Mirror -------------------------------
(***************************************************************************)
(* What a transfer promises for a set of files, whatever its processes do: *)
(* a destination file changes only to a version that its source had, and   *)
(* rsync removes a source file only while the destination holds it.        *)
(***************************************************************************)
EXTENDS Integers

CONSTANTS Files
VARIABLES
  source,   \* source[f]: the version of f at the source
  dest      \* dest[f]: the version of f at the destination

Absent == 0    \* no such file
Listed == 1    \* the version that the file list describes
Later == 2     \* what somebody made of it after it was listed
Old == 3       \* what the destination had before
Newer == 4     \* a destination file that --update keeps
Taken == 5     \* rsync removed the source file

Init ==
  /\ source = [f \in Files |-> Listed]
  /\ dest \in [Files -> {Absent, Listed, Old, Newer}]

\* somebody changes source files or removes one
Edit ==
  /\ source' \in [Files -> {Absent, Listed, Later, Taken}]
  /\ \A f \in Files : 
       source'[f] = source[f] \/ (source[f] \in {Listed, Later} /\ source'[f] \in {Absent, Later})
  /\ UNCHANGED dest

\* destination files get a version of their source
Update ==
  /\ dest' \in [Files -> Absent..Newer]
  /\ \A f \in Files : dest'[f] = dest[f] \/ dest'[f] \in {Listed, Later}
  /\ UNCHANGED source

\* rsync --remove-source-files
Remove(f) ==
  /\ source[f] = dest[f] /\ source[f] \in {Listed, Later}
  /\ source' = [source EXCEPT ![f] = Taken]
  /\ UNCHANGED dest

Next == Update \/ Edit \/ \E f \in Files : Remove(f)

Spec == Init /\ [][Next]_<<source, dest>>
=============================================================================
