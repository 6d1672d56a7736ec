-------------------------- MODULE MvWrapper_proofs --------------------------
(****************************************************************************)
(* What MvWrapper guarantees for directories of every size, every batch     *)
(* size, every retry limit and every number of faults and runs.             *)
(****************************************************************************)
EXTENDS MvWrapper, ExitCodes_proofs, FiniteSetTheorems

----------------------------------------------------------------------------
(* The failure of a call that ends the process: its exit code is an errno,  *)
(* and not the one for an existing file.                                    *)
LEMMA FailureCodes ==
  ASSUME FailsWithErrno
  PROVE  /\ pc' = "exited" /\ Fault
         /\ exitCode' \in 1..133 /\ exitCode' # ErrFileIsExists
<1>1. PICK e \in Errnos : exitCode' = ExitCodeConvertWithErr(Errno(e))
  BY DEF FailsWithErrno, Exit
<1>2. e \in 1..133 /\ e # EEXIST /\ e # 39
  BY ErrnoAssumption
<1>3. /\ Errno(e) # ErrUnavailableFileSystem /\ Errno(e) # ErrNotEqual
      /\ Errno(e).is = "errno" /\ Errno(e).errno = e
  BY DEF Errno, ErrUnavailableFileSystem, ErrNotEqual
<1>4. exitCode' \in 1..133 /\ exitCode' # ErrFileIsExists
  BY <1>1, <1>2, <1>3
  DEF ExitCodeConvertWithErr, ErrPermissionDenied, EEXIST, ErrFileIsExists
<1> QED
  BY <1>4 DEF FailsWithErrno, Exit

(* os.Rename fails with EEXIST onto a directory, with ENOTDIR for a         *)
(* directory onto a file, and otherwise like any call.                      *)
LEMMA RenameCodes ==
  ASSUME NEW kind, NEW entry, RenameFails(kind, entry)
  PROVE  /\ pc' = "exited" /\ (NoFault \/ Fault)
         /\ exitCode' \in 1..133
         /\ exitCode' = ErrFileIsExists => entry = "dir"
<1>1. CASE FailsWithErrno
  BY <1>1, FailureCodes
<1>2. CASE /\ RenameErr(kind, entry) # 0 /\ NoFault
           /\ Exit(ExitCodeConvertWithErr(Errno(RenameErr(kind, entry))))
  <2>1. ASSUME NEW e \in {17, 20}
        PROVE  ExitCodeConvertWithErr(Errno(e)) = e
    <3>1. /\ Errno(e) # ErrUnavailableFileSystem /\ Errno(e) # ErrNotEqual
          /\ Errno(e).is = "errno" /\ Errno(e).errno = e
      BY DEF Errno, ErrUnavailableFileSystem, ErrNotEqual
    <3> QED
      BY <3>1 DEF ExitCodeConvertWithErr, ErrPermissionDenied, EEXIST,
                  ErrFileIsExists
  <2>2. RenameErr(kind, entry) = IF entry = "dir" THEN 17 ELSE 20
    BY <1>2 DEF RenameErr, EEXIST, ErrNotDirectory
  <2> QED
    BY <1>2, <2>1, <2>2 DEF Exit, ErrFileIsExists
<1> QED
  BY <1>1, <1>2 DEF RenameFails

(* A fault uses up one of the faults there may be.                          *)
LEMMA FaultType ==
  ASSUME faults \in 0..MaxFaults, Fault
  PROVE  faults' \in 0..MaxFaults
BY BoundAssumption DEF Fault

(* The number of names in a part of the source directory.                   *)
LEMMA BatchSize ==
  ASSUME NEW S \in SUBSET Names
  PROVE  Cardinality(S) \in Nat
BY NameAssumption, FS_Subset, FS_CardinalityType

(* What main decides: an exit code, never 0, or one of four calls.          *)
LEMMA Decisions ==
  ASSUME NEW destInfo, Decide(destInfo)
  PROVE  \/ /\ pc' = "exited"
            /\ exitCode' \in {2, 17, 20, 203, 204}
            /\ exitCode' = ErrFileIsExists => srcInfo # "dir" /\ destInfo = "file"
         \/ /\ exitCode' = exitCode
            /\ \/ pc' = "open" /\ srcInfo = "dir" /\ job.exclude
               \/ /\ ~(srcInfo = "dir" /\ job.exclude)
                  /\ \/ pc' = "rename" /\ destInfo = "absent"
                     \/ pc' = "renameInto" /\ destInfo = "dir"
                     \/ /\ pc' = "statNew"
                        /\ destInfo # "absent" /\ destInfo # "file"
BY DEF Decide, DecideDir, DecideFile, Exit, Goto, ErrSrcAndDstAreSameFile,
       ErrDirectoryNestedItself, ErrNoSuchFileOrDir, ErrNotDirectory,
       ErrFileIsExists

----------------------------------------------------------------------------
(* The type invariant: the wait loops never count beyond their limit, and   *)
(* no batch is longer than defaultLimtReadDir.                              *)
THEOREM TypeCorrect == Spec => []TypeOK
<1>1. Init => TypeOK
  BY BoundAssumption, NfsAssumption, SizeAssumption, JobAssumption
  DEF Init, TypeOK, Running, Entry, Foreign, DestName, Empty
<1>2. TypeOK /\ [Next]_vars => TypeOK'
  <2> SUFFICES ASSUME TypeOK, [Next]_vars PROVE TypeOK'
    OBVIOUS
  <2> USE FailureCodes, FaultType, BoundAssumption, NfsAssumption, SizeAssumption
      DEF TypeOK, Running, Ended, Entry, Foreign, DestName, Exit, Goto, NoFault,
          files, bounds, control, setup
  <2>1. CASE CheckArgs
    BY <2>1, MountCode DEF CheckArgs, ErrInvalidArgument, ErrUnknownFSType
  <2>2. CASE StatSrc
    BY <2>2 DEF StatSrc, RetriesSpent, CountLook, ErrNoSuchFileOrDir
  <2>3. CASE StatDest
    BY <2>3, Decisions DEF StatDest, RetriesSpent, CountLook
  <2>4. CASE Rename
    BY <2>4, RenameCodes DEF Rename, Succeed
  <2>5. CASE RenameInto
    BY <2>5, RenameCodes DEF RenameInto, Succeed
  <2>6. CASE StatNew
    BY <2>6 DEF StatNew, ErrFileIsExists
  <2>7. CASE Open
    BY <2>7 DEF Open
  <2>8. CASE ReadNames
    BY <2>8, BatchSize DEF ReadNames, Succeed
  <2>9. ASSUME NEW name \in Names, StatChild(name)
        PROVE  TypeOK'
    BY <2>9 DEF StatChild, ErrFileIsExists
  <2>10. CASE RenameChild
    BY <2>10, RenameCodes DEF RenameChild, Unlisted
  <2>11. CASE EndBatch
    BY <2>11 DEF EndBatch, Succeed
  <2>12. CASE Crash
    BY <2>12 DEF Crash
  <2>13. CASE Rerun
    BY <2>13 DEF Rerun, Empty
  <2>14. CASE OthersCreate
    BY <2>14 DEF OthersCreate
  <2>15. CASE UNCHANGED vars
    BY <2>15 DEF vars
  <2> QED
    BY <2>1, <2>2, <2>3, <2>4, <2>5, <2>6, <2>7, <2>8, <2>9, <2>10, <2>11,
       <2>12, <2>13, <2>14, <2>15 DEF Next, Process, Done
<1> QED
  BY <1>1, <1>2, PTL DEF Spec

----------------------------------------------------------------------------
(* The invariant of the loop of renameChild: a short batch holds all that   *)
(* is left.                                                                 *)
THEOREM MoveInvariant == Spec => []MoveInv
<1>1. Init => MoveInv
  BY DEF Init, MoveInv, SuccessMeansMoved, InLoop
<1>2. TypeOK /\ MoveInv /\ [Next]_vars => MoveInv'
  <2> SUFFICES ASSUME TypeOK, MoveInv, [Next]_vars PROVE MoveInv'
    OBVIOUS
  <2> USE FailureCodes, SizeAssumption
      DEF TypeOK, MoveInv, SuccessMeansMoved, InLoop, Running, Ended, Foreign,
          DestName, Exit, Goto, NoFault, files, bounds, control, setup, Succeed, Empty
  <2>1. CASE CheckArgs
    BY <2>1, MountCode DEF CheckArgs, ErrInvalidArgument, ErrUnknownFSType
  <2>2. CASE StatSrc
    BY <2>2 DEF StatSrc, ErrNoSuchFileOrDir
  <2>3. CASE StatDest
    BY <2>3, Decisions DEF StatDest
  <2>4. CASE Rename
    BY <2>4, RenameCodes DEF Rename
  <2>5. CASE RenameInto
    BY <2>5, RenameCodes DEF RenameInto
  <2>6. CASE StatNew
    BY <2>6 DEF StatNew, ErrFileIsExists
  <2>7. CASE Open
    BY <2>7 DEF Open
  <2>8. CASE ReadNames
    BY <2>8, BatchSize DEF ReadNames
  <2>9. ASSUME NEW name \in Names, StatChild(name)
        PROVE  MoveInv'
    BY <2>9 DEF StatChild, ErrFileIsExists
  <2>10. CASE RenameChild
    BY <2>10, RenameCodes DEF RenameChild, Unlisted
  <2>11. CASE EndBatch
    BY <2>11 DEF EndBatch, AtEnd
  <2>12. CASE Crash
    BY <2>12 DEF Crash
  <2>13. CASE Rerun
    BY <2>13 DEF Rerun
  <2>14. CASE OthersCreate
    BY <2>14 DEF OthersCreate
  <2>15. CASE UNCHANGED vars
    BY <2>15 DEF vars
  <2> QED
    BY <2>1, <2>2, <2>3, <2>4, <2>5, <2>6, <2>7, <2>8, <2>9, <2>10, <2>11,
       <2>12, <2>13, <2>14, <2>15 DEF Next, Process, Done
<1> QED
  BY <1>1, <1>2, TypeCorrect, PTL DEF Spec

(* Exit code 0 is given only after a complete move, however many batches    *)
(* and killed runs it took.                                                 *)
THEOREM SuccessIsComplete == Spec => []SuccessMeansMoved
<1>1. MoveInv => SuccessMeansMoved
  BY DEF MoveInv
<1> QED
  BY <1>1, MoveInvariant, PTL

----------------------------------------------------------------------------
(* The inductive invariant behind the next two theorems: what the job has   *)
(* moved is no longer in the source.                                        *)
THEOREM MovedInvariant == Spec => []MovedInv
<1>1. Init => MovedInv
  BY DEF Init, MovedInv, RefusalIsReal, Foreign, DestName, Running
<1>2. TypeOK /\ MovedInv /\ MoveInv /\ [Next]_vars => MovedInv'
  <2> SUFFICES ASSUME TypeOK, MovedInv, MoveInv, [Next]_vars PROVE MovedInv'
    OBVIOUS
  <2> USE FailureCodes
      DEF TypeOK, MovedInv, RefusalIsReal, Running, Ended, Entry, Foreign,
          DestName, Exit, Goto, NoFault, files, bounds, control, setup,
          ErrFileIsExists, Empty
  <2>1. CASE CheckArgs
    BY <2>1, MountCode DEF CheckArgs, ErrInvalidArgument, ErrUnknownFSType
  <2>2. CASE StatSrc
    BY <2>2 DEF StatSrc, ErrNoSuchFileOrDir
  <2>3. CASE StatDest
    BY <2>3, Decisions DEF StatDest
  <2>4. CASE Rename
    BY <2>4, RenameCodes, NameAssumption DEF Rename, Succeed, MoveInv
  <2>5. CASE RenameInto
    BY <2>5, RenameCodes, NameAssumption DEF RenameInto, Succeed, MoveInv
  <2>6. CASE StatNew
    BY <2>6 DEF StatNew, MoveInv
  <2>7. CASE Open
    BY <2>7 DEF Open
  <2>8. CASE ReadNames
    BY <2>8 DEF ReadNames, Succeed
  <2>9. ASSUME NEW name \in Names, StatChild(name)
        PROVE  MovedInv'
    BY <2>9 DEF StatChild, Occupied, MoveInv, InLoop
  <2>10. CASE RenameChild
    BY <2>10, RenameCodes, NameAssumption DEF RenameChild, Unlisted, MoveInv, InLoop
  <2>11. CASE EndBatch
    BY <2>11 DEF EndBatch, Succeed
  <2>12. CASE Crash
    BY <2>12 DEF Crash
  <2>13. CASE Rerun
    BY <2>13 DEF Rerun
  <2>14. CASE OthersCreate
    BY <2>14 DEF OthersCreate
  <2>15. CASE UNCHANGED vars
    BY <2>15 DEF vars
  <2> QED
    BY <2>1, <2>2, <2>3, <2>4, <2>5, <2>6, <2>7, <2>8, <2>9, <2>10, <2>11,
       <2>12, <2>13, <2>14, <2>15 DEF Next, Process, Done
<1> QED
  BY <1>1, <1>2, TypeCorrect, MoveInvariant, PTL DEF Spec

(* A run is refused with EEXIST only for an entry of somebody else, never   *)
(* for what an earlier run of the job has moved.                            *)
THEOREM RefusalsAreReal == Spec => []RefusalIsReal
<1>1. MovedInv => RefusalIsReal
  BY DEF MovedInv
<1> QED
  BY <1>1, MovedInvariant, PTL

----------------------------------------------------------------------------
(* The call before a rename has found the new path free, unless the client  *)
(* is stale or somebody else has written since.                             *)
THEOREM KeepInvariant == Spec => []KeepInv
<1>1. Init => KeepInv
  BY DEF Init, KeepInv
<1>2. TypeOK /\ MovedInv /\ KeepInv /\ [Next]_vars => KeepInv'
  <2> SUFFICES ASSUME TypeOK, MovedInv, KeepInv, [Next]_vars PROVE KeepInv'
    OBVIOUS
  <2> USE FailureCodes, NfsAssumption
      DEF TypeOK, KeepInv, Running, Ended, Entry, Foreign,
          DestName, Exit, Goto, NoFault, files, bounds, control, setup
  <2>1. CASE CheckArgs
    BY <2>1 DEF CheckArgs
  <2>2. CASE StatSrc
    BY <2>2 DEF StatSrc
  <2>3. CASE StatDest
    BY <2>3, Decisions DEF StatDest, RetriesSpent, CountLook
  <2>4. CASE Rename
    BY <2>4, RenameCodes DEF Rename
  <2>5. CASE RenameInto
    BY <2>5, RenameCodes DEF RenameInto
  <2>6. CASE StatNew
    BY <2>6 DEF StatNew
  <2>7. CASE Open
    BY <2>7 DEF Open
  <2>8. CASE ReadNames
    BY <2>8 DEF ReadNames
  <2>9. ASSUME NEW name \in Names, StatChild(name)
        PROVE  KeepInv'
    BY <2>9 DEF StatChild, Occupied
  <2>10. CASE RenameChild
    BY <2>10, RenameCodes DEF RenameChild
  <2>11. CASE EndBatch
    BY <2>11 DEF EndBatch
  <2>12. CASE Crash
    BY <2>12 DEF Crash
  <2>13. CASE Rerun
    BY <2>13 DEF Rerun
  <2>14. CASE OthersCreate
    BY <2>14 DEF OthersCreate
  <2>15. CASE UNCHANGED vars
    BY <2>15 DEF vars
  <2> QED
    BY <2>1, <2>2, <2>3, <2>4, <2>5, <2>6, <2>7, <2>8, <2>9, <2>10, <2>11,
       <2>12, <2>13, <2>14, <2>15 DEF Next, Process, Done
<1> QED
  BY <1>1, <1>2, TypeCorrect, MovedInvariant, PTL DEF Spec

(* A directory, or the children of one, never replaces anything at the      *)
(* destination, whatever fails and however often the job is started again,  *)
(* as long as nobody else writes and the NFS client is not stale.           *)
THEOREM NothingIsClobbered == Spec => DirReplacesNothing
<1> DEFINE Undisturbed == srcInfo = "dir" /\ lag = 0 /\ others = 0
<1>1. TypeOK /\ MovedInv /\ KeepInv /\ [Next]_vars => [Undisturbed => Keeps]_vars
  <2> SUFFICES ASSUME TypeOK, MovedInv, KeepInv, [Next]_vars, Undisturbed
               PROVE  Keeps
    OBVIOUS
  <2> USE DEF Keeps, Foreign, DestName, files, TypeOK
  <2>1. CASE Rename
    BY <2>1 DEF Rename, KeepInv
  <2>2. CASE RenameInto
    <3>1. src = "dir"
      BY <2>2 DEF RenameInto, MovedInv, Running
    <3> QED
      BY <2>2, <3>1 DEF RenameInto, RenameErr, EEXIST, ErrNotDirectory
  <2>3. CASE RenameChild
    BY <2>3 DEF RenameChild, KeepInv
  <2>4. CASE OthersCreate
    BY <2>4 DEF OthersCreate
  <2>5. CASE UNCHANGED <<dest, destKids>>
    BY <2>5
  <2>6. \/ Rename \/ RenameInto \/ RenameChild \/ OthersCreate
        \/ UNCHANGED <<dest, destKids>>
    BY DEF Next, Process, Done, CheckArgs, StatSrc, StatDest, StatNew, Open,
       ReadNames, StatChild, EndBatch, Crash, Rerun, vars
  <2> QED
    BY <2>1, <2>2, <2>3, <2>4, <2>5, <2>6
<1> QED
  BY <1>1, TypeCorrect, MovedInvariant, KeepInvariant, PTL
  DEF Spec, DirReplacesNothing
=============================================================================
