------------------------------ MODULE MCDirRun ------------------------------
(* Instances of DirRun for TLC.                                             *)
EXTENDS DirRun

R(code, err) == [exitCode |-> code, stdErr |-> err]

(* One result for each way Run judges an attempt, and for each order in     *)
(* which it looks: messages in the last line, before it, and both.          *)
AllResults ==
  {R(ErrOK, <<>>), R(ErrFileio, <<>>), R(ErrPartial, <<{}>>),
   R(ErrPartial, << {"NoSpace"}, {} >>),
   R(ErrStreamio, << {"IOError"}, {"PermissionDenided", "NOENT"}, {} >>),
   R(ErrSyntax, <<{}>>), R(ErrFileselect, <<>>),
   R(ErrVanished, <<{"NOENT"}>>), R(ErrVanished, <<>>), R(Killed, <<>>)}

FewResults == {R(ErrOK, <<>>), R(ErrVanished, <<>>), R(ErrFileio, <<>>)}

(* The retry loop alone, over every result.                                 *)
RetryReqs ==
  {[progress |-> FALSE, stderr |-> s, positive |-> FALSE, limit |-> l, lines |-> [a \in Attempts |-> 0], kinds |-> {},
    ends |-> AllResults, vanish |-> 2] :
     s \in BOOLEAN, l \in {-1, 0, 1}}

(* Two attempts with their goroutines, the first of which is repeated.      *)
ProgressReqs ==
  {[progress |-> TRUE, stderr |-> FALSE, positive |-> FALSE, limit |-> 0, lines |-> [a \in Attempts |-> IF a = 1 THEN 2 ELSE 1],
    kinds |-> {"progress"}, ends |-> {R(ErrOK, <<>>), R(ErrVanished, <<>>)}, vanish |-> 1]}

(* One attempt with lines of every kind, also with the interval that makes  *)
(* the ticker panic.                                                        *)
IntervalReqs ==
  {[progress |-> TRUE, stderr |-> FALSE, positive |-> p, limit |-> 0, lines |-> [a \in Attempts |-> 3],
    kinds |-> LineKinds, ends |-> FewResults, vanish |-> 0] :
     p \in BOOLEAN}

AllReqs == RetryReqs \cup ProgressReqs \cup IntervalReqs
=============================================================================
