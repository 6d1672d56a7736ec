--------------------------- MODULE FileJob_proofs ---------------------------
(****************************************************************************)
(* What FileJob guarantees for every set of contents, every set of requests *)
(* and errors, every retry limit and every number of faults and runs.       *)
(****************************************************************************)
EXTENDS FileJob, ExitCodes_proofs

----------------------------------------------------------------------------
(* The failure of a call that ends the process: its exit code is an errno.  *)
LEMMA FailureCodes ==
  ASSUME FailsWithErrno
  PROVE  pc' = "exited" /\ exitCode' \in 1..133 /\ Fault
BY ErrnoAssumption, ErrnoCodes DEF FailsWithErrno, Exit

(* None of the codes file.CopyFile fails with is ErrCopyFileSucceed or      *)
(* ErrChecksumRefuse.                                                       *)
LEMMA CopyFileCodes ==
  ASSUME NEW code \in CopyFileErrors
  PROVE  code \in Int /\ code # ErrCopyFileSucceed /\ code # ErrChecksumRefuse
<1>1. CASE code \in {ErrRetryLimit, ErrInvalidArgument, ErrSystem}
  BY <1>1 DEF ErrRetryLimit, ErrInvalidArgument, ErrSystem, ErrCopyFileSucceed,
     ErrChecksumRefuse
<1>2. CASE code \in stdExitCodes
  BY <1>2 DEF stdExitCodes, stdExitCodeMap, ErrNoSuchFileOrDir, ErrIOError,
     ErrPermissionDenied, ErrDeviceIsBusy, ErrFileIsExists, ErrNotDirectory,
     ErrIsDirectory, ErrInvalidArgument, ErrNoSpaceLeftOnDevice,
     ErrFileSystemIsReadOnly, ErrDiskQuota, ErrFileStale, ErrCopyFileSucceed,
     ErrChecksumRefuse
<1>3. CASE code \in {ExitCodeConvert(c) : c \in unRecoverableErrList}
  BY <1>3 DEF ExitCodeConvert, Succeed, ErrInvalidArgument, ErrNoSuchFileOrDir,
     ErrIOError, ErrPermissionDenied, ErrSystem, ErrCopyFileSucceed,
     ErrChecksumRefuse, unRecoverableErrList, ErrSyntax, ErrProtocol, ErrFileselect,
     ErrUnsupported, ErrStartclient, ErrOK, ErrSocketio, ErrFileio,
     ErrStreamio, ErrMessageio, ErrPartial
<1> QED
  BY <1>1, <1>2, <1>3 DEF CopyFileErrors

----------------------------------------------------------------------------
(* A fault uses up one of the faults there may be.                          *)
LEMMA FaultType ==
  ASSUME faults \in 0..MaxFaults, Fault
  PROVE  faults' \in 0..MaxFaults /\ disturbed' = 1
BY BoundAssumption DEF Fault

(* The type invariant: every step of the process, every kill and every act  *)
(* of the environment keeps each variable within its type, and the counter  *)
(* of the two NFS loops within waitNFSCcliLimit.                            *)
THEOREM TypeCorrect == Spec => []TypeOK
<1>1. Init => TypeOK
  BY BoundAssumption, NfsAssumption DEF Init, TypeOK, Running, Empty, PathKind, FileVal
<1>2. TypeOK /\ [Next]_vars => TypeOK'
  <2> SUFFICES ASSUME TypeOK, [Next]_vars PROVE TypeOK'
    OBVIOUS
  <2> USE FailureCodes, FaultType, BoundAssumption, NfsAssumption, FileAssumption
      DEF TypeOK, Running, Ended, Exit, Goto, NoFault, temp, final, rest, env, control, PathKind, FileVal
  <2>1. CASE CheckArgs
    BY <2>1, MountCode DEF CheckArgs, ErrInvalidArgument, ErrUnknownFSType
  <2>2. CASE StatSrc
    BY <2>2 DEF StatSrc, RetriesSpent, CountLook, ErrNoSuchFileOrDir
  <2>3. CASE CheckTempDir
    BY <2>3 DEF CheckTempDir, ErrInvalidArgument, ErrNotDirectory
  <2>4. CASE CheckFinalDir
    BY <2>4 DEF CheckFinalDir, ErrSrcAndDstAreSameFile, ErrNotDirectory
  <2>5. CASE CheckFlag
    BY <2>5 DEF CheckFlag, RetriesSpent, CountLook, ErrCopyFileSucceed
  <2>6. CASE CopyFile
    BY <2>6, CopyFileCodes DEF CopyFile, AfterCopy
  <2>7. CASE MD5Checksum
    BY <2>7 DEF MD5Checksum, ErrChecksumRefuse
  <2>8. CASE RemoveTempFile
    BY <2>8 DEF RemoveTempFile, Discard
  <2>9. CASE StatFinal
    BY <2>9 DEF StatFinal, ErrIsDirectory, ErrFileIsExists
  <2>10. CASE Rename
    BY <2>10 DEF Rename, AfterRenames
  <2>11. CASE RenameMd5
    BY <2>11 DEF RenameMd5, AfterRenames
  <2>12. CASE CreateTrack
    BY <2>12 DEF CreateTrack
  <2>13. CASE RemoveTempDir
    BY <2>13 DEF RemoveTempDir
  <2>14. CASE SetFlag
    BY <2>14 DEF SetFlag, ErrCopyFileSucceed
  <2>15. CASE MD5ReadRecovers
    BY <2>15 DEF MD5ReadRecovers
  <2>16. CASE Crash
    BY <2>16 DEF Crash
  <2>17. CASE Rerun
    BY <2>17 DEF Rerun, Empty
  <2>18. CASE SrcWrite
    BY <2>18 DEF SrcWrite
  <2>19. CASE OtherWrite
    BY <2>19 DEF OtherWrite
  <2>20. CASE UNCHANGED vars
    BY <2>20 DEF vars, ghosts
  <2> QED
    BY <2>1, <2>2, <2>3, <2>4, <2>5, <2>6, <2>7, <2>8, <2>9, <2>10, <2>11, <2>12, <2>13, <2>14, <2>15, <2>16, <2>17, <2>18, <2>19, <2>20 DEF Next, JobStep, Terminated
<1> QED
  BY <1>1, <1>2, PTL DEF Spec
----------------------------------------------------------------------------
(* The protocol of cmd/copy/main.go keeps DeliveryInv, for every interleaving*)
(* with kills, restarts and writers of the source and of the final path,    *)
(* provided that the final directory does not lie inside the temp directory,*)
(* which the program removes.                                               *)
THEOREM DeliveryInvariant ==
  ASSUME \A j \in Jobs : ~j.nested
  PROVE  Spec => []DeliveryInv
<1>1. Init => DeliveryInv
  BY DEF Init, DeliveryInv, Working, Empty, ErrCopyFileSucceed
<1>2. TypeOK /\ DeliveryInv /\ [Next]_vars => DeliveryInv'
  <2> SUFFICES ASSUME TypeOK, DeliveryInv, [Next]_vars PROVE DeliveryInv'
    OBVIOUS
  <2>0. ~job.nested
    BY DEF TypeOK
  <2> USE FailureCodes, FileAssumption
      DEF TypeOK, DeliveryInv, Delivered, FilesDelivered, TrackDelivered,
          Publishable, Working, Exit, Goto, ErrCopyFileSucceed,
          temp, final, rest, env, control
  <2>1. CASE CheckArgs
    BY <2>1, MountCode DEF CheckArgs, ErrInvalidArgument, ErrUnknownFSType
  <2>2. CASE StatSrc
    BY <2>2 DEF StatSrc, CountLook, ErrNoSuchFileOrDir
  <2>3. CASE CheckTempDir
    BY <2>3 DEF CheckTempDir, ErrInvalidArgument, ErrNotDirectory
  <2>4. CASE CheckFinalDir
    BY <2>4, NfsAssumption DEF CheckFinalDir, ErrSrcAndDstAreSameFile, ErrNotDirectory
  <2>5. CASE CheckFlag
    BY <2>5, NfsAssumption DEF CheckFlag, FlagFound, RetriesSpent, CountLook
  <2>6. CASE CopyFile
    BY <2>6, CopyFileCodes DEF CopyFile, AfterCopy
  <2>7. CASE MD5Checksum
    BY <2>7 DEF MD5Checksum, ErrChecksumRefuse
  <2>8. CASE RemoveTempFile
    BY <2>8 DEF RemoveTempFile
  <2>9. CASE StatFinal
    BY <2>9 DEF StatFinal, ErrIsDirectory, ErrFileIsExists
  <2>10. CASE Rename
    BY <2>10 DEF Rename, AfterRenames
  <2>11. CASE RenameMd5
    BY <2>11 DEF RenameMd5, AfterRenames
  <2>12. CASE CreateTrack
    BY <2>12 DEF CreateTrack
  <2>13. CASE RemoveTempDir
    BY <2>13, <2>0 DEF RemoveTempDir
  <2>14. CASE SetFlag
    BY <2>14 DEF SetFlag
  <2>15. CASE MD5ReadRecovers
    BY <2>15 DEF MD5ReadRecovers
  <2>16. CASE Crash
    BY <2>16 DEF Crash
  <2>17. CASE Rerun
    BY <2>17 DEF Rerun
  <2>18. CASE SrcWrite
    BY <2>18 DEF SrcWrite
  <2>19. CASE OtherWrite
    BY <2>19 DEF OtherWrite
  <2>20. CASE UNCHANGED vars
    BY <2>20 DEF vars, ghosts
  <2> QED
    BY <2>1, <2>2, <2>3, <2>4, <2>5, <2>6, <2>7, <2>8, <2>9, <2>10, <2>11, <2>12, <2>13, <2>14, <2>15, <2>16, <2>17, <2>18, <2>19, <2>20 DEF Next, JobStep, Terminated
<1> QED
  BY <1>1, <1>2, TypeCorrect, PTL DEF Spec

(* A flag file set by setCompleteFlagFileCopy is always justified.          *)
THEOREM FlagIsTrusted ==
  ASSUME \A j \in Jobs : ~j.nested
  PROVE  Spec => []FlagMeansDelivered
<1>1. DeliveryInv => FlagMeansDelivered
  BY DEF DeliveryInv, FlagMeansDelivered
<1> QED
  BY <1>1, DeliveryInvariant, PTL

(* Exit code 254 is always justified.                                       *)
THEOREM SuccessIsTrusted ==
  ASSUME \A j \in Jobs : ~j.nested
  PROVE  Spec => []SuccessMeansDelivered
<1>1. DeliveryInv => SuccessMeansDelivered
  BY DEF DeliveryInv, SuccessMeansDelivered
<1> QED
  BY <1>1, DeliveryInvariant, PTL

----------------------------------------------------------------------------
(* The actions that leave the whole result alone; the others are Rename,    *)
(* RenameMd5, CreateTrack, RemoveTempDir, SetFlag and OtherWrite.           *)
LEMMA ResultUnchanged ==
  ASSUME [Next]_vars,
         ~Rename, ~RenameMd5, ~CreateTrack, ~RemoveTempDir, ~SetFlag,
         ~OtherWrite
  PROVE  UNCHANGED <<flag, finalFile, finalMd5, trackFile>>
<1> USE DEF final, rest
<1>1. CASE CheckArgs \/ StatSrc \/ CheckTempDir \/ CheckFinalDir \/ CheckFlag
  BY <1>1 DEF CheckArgs, StatSrc, CheckTempDir, CheckFinalDir, CheckFlag
<1>2. CASE CopyFile \/ MD5Checksum \/ RemoveTempFile \/ StatFinal
  BY <1>2 DEF CopyFile, MD5Checksum, RemoveTempFile, StatFinal
<1>3. CASE MD5ReadRecovers \/ Crash \/ Rerun \/ SrcWrite
  BY <1>3 DEF MD5ReadRecovers, Crash, Rerun, SrcWrite
<1>4. CASE UNCHANGED vars
  BY <1>4 DEF vars
<1> QED
  BY <1>1, <1>2, <1>3, <1>4 DEF Next, JobStep, Terminated

(* A job that has set its flag is never done again: no later run, killed or *)
(* not, changes the file, its .md5 file, the track file or the flag.        *)
THEOREM CompletedIsFinal ==
  ASSUME \A j \in Jobs : ~j.nested
  PROVE  Spec => CompletedNeverRedone
<1>1. DeliveryInv /\ [Next]_vars =>
        [flag = "file" => UNCHANGED <<flag, finalFile, finalMd5, trackFile>>]_vars
  <2> SUFFICES ASSUME DeliveryInv, [Next]_vars, flag = "file"
               PROVE  UNCHANGED <<flag, finalFile, finalMd5, trackFile>>
    OBVIOUS
  <2>1. pc \notin Working /\ finalFile # Absent
    BY FileAssumption DEF DeliveryInv, Delivered, FilesDelivered, Publishable
  <2>2. ~Rename /\ ~RenameMd5 /\ ~CreateTrack /\ ~RemoveTempDir /\ ~SetFlag
    BY <2>1 DEF Working, Rename, RenameMd5, CreateTrack, RemoveTempDir, SetFlag
  <2>3. ~OtherWrite
    BY <2>1 DEF OtherWrite
  <2> QED
    BY <2>2, <2>3, ResultUnchanged
<1> QED
  BY <1>1, DeliveryInvariant, PTL DEF Spec, CompletedNeverRedone

(* While nobody else writes to the final path, only a rename changes the    *)
(* file there.                                                              *)
LEMMA OnlyRenamePublishes ==
  ASSUME \A j \in Jobs : ~j.nested, OtherContents = {},
         job \in Jobs, [Next]_vars, finalFile' # finalFile
  PROVE  pc = "rename" /\ finalFile' = tempFile /\ tempMd5' = tempMd5
<1>1. ~OtherWrite
  BY DEF OtherWrite
<1>2. CASE Rename
  BY <1>2 DEF Rename
<1>3. CASE RenameMd5 \/ CreateTrack \/ RemoveTempDir \/ SetFlag
  BY <1>3 DEF RenameMd5, CreateTrack, RemoveTempDir, SetFlag, final
<1> QED
  BY <1>1, <1>2, <1>3, ResultUnchanged

(* A file that has to be verified is verified when os.Rename publishes it.  *)
THEOREM PublishedIsVerified ==
  ASSUME \A j \in Jobs : ~j.nested, OtherContents = {}
  PROVE  Spec => OnlyVerifiedIsPublished
<1>1. TypeOK /\ DeliveryInv /\ [Next]_vars =>
        [finalFile' # finalFile /\ job.checksum =>
           finalFile' \in Contents /\ (job.gen => tempMd5 = finalFile')]_vars
  <2> SUFFICES ASSUME TypeOK, DeliveryInv, [Next]_vars,
                      finalFile' # finalFile, job.checksum
               PROVE  finalFile' \in Contents /\ (job.gen => tempMd5 = finalFile')
    OBVIOUS
  <2>1. pc = "rename" /\ finalFile' = tempFile
    BY OnlyRenamePublishes DEF TypeOK
  <2> QED
    BY <2>1 DEF DeliveryInv, Publishable
<1> QED
  BY <1>1, TypeCorrect, DeliveryInvariant, PTL DEF Spec, OnlyVerifiedIsPublished

(* Without other writers at the final path, the job never replaces what it  *)
(* may not: os.Stat and os.Rename are two calls, and nothing comes between. *)
THEOREM NothingIsClobbered ==
  ASSUME \A j \in Jobs : ~j.nested, OtherContents = {}
  PROVE  Spec => NeverClobbers
<1>1. Init => RenameAllowed
  BY DEF Init, RenameAllowed
<1>2. TypeOK /\ RenameAllowed /\ [Next]_vars => RenameAllowed'
  <2> SUFFICES ASSUME TypeOK, RenameAllowed, [Next]_vars, pc' = "rename"
               PROVE  \/ finalFile' = Absent
                      \/ job'.overwrite /\ finalFile' # Directory
    BY DEF RenameAllowed
  <2>1. CASE StatFinal
    BY <2>1, FailureCodes DEF StatFinal, MayReplace, Goto, Exit, final, env
  <2>2. CASE pc = "rename" /\ UNCHANGED <<job, finalFile>>
    BY <2>2 DEF RenameAllowed
  <2>3. ~StatFinal => pc = "rename" /\ UNCHANGED <<job, finalFile>>
    <3> SUFFICES ASSUME ~StatFinal PROVE pc = "rename" /\ UNCHANGED <<job, finalFile>>
      OBVIOUS
    <3> USE FailureCodes DEF Goto, Exit, env, final
    <3>1. CASE CheckArgs \/ StatSrc \/ CheckTempDir \/ CheckFinalDir \/ CheckFlag
      BY <3>1 DEF CheckArgs, StatSrc, CheckTempDir, CheckFinalDir, CheckFlag
    <3>2. CASE CopyFile \/ MD5Checksum \/ RemoveTempFile
      BY <3>2 DEF CopyFile, AfterCopy, MD5Checksum, RemoveTempFile
    <3>3. CASE Rename \/ RenameMd5 \/ CreateTrack \/ RemoveTempDir \/ SetFlag
      BY <3>3 DEF Rename, RenameMd5, AfterRenames, CreateTrack, RemoveTempDir, SetFlag
    <3>4. CASE MD5ReadRecovers \/ Crash \/ Rerun \/ SrcWrite \/ OtherWrite
      BY <3>4 DEF MD5ReadRecovers, Crash, Rerun, SrcWrite, OtherWrite, control
    <3>5. CASE UNCHANGED vars
      BY <3>5 DEF vars, control
    <3> QED
      BY <3>1, <3>2, <3>3, <3>4, <3>5 DEF Next, JobStep, Terminated
  <2> QED
    BY <2>1, <2>2, <2>3
<1>3. TypeOK /\ RenameAllowed /\ [Next]_vars =>
        [finalFile' # finalFile =>
           \/ finalFile = Absent
           \/ job.overwrite /\ finalFile # Directory]_vars
  BY OnlyRenamePublishes DEF TypeOK, RenameAllowed
<1> QED
  BY <1>1, <1>2, <1>3, TypeCorrect, PTL DEF Spec, NeverClobbers
----------------------------------------------------------------------------
(* The second copy starts without a temp file, and so what the second       *)
(* checksum refuses was not built on anything a copy before had left.       *)
FreshInv ==
  /\ pc \in {"args", "statSrc", "tempDir", "finalDir", "flag"} => round = 1
  /\ pc = "copy" /\ round = 2 => tempFile = Absent
  /\ pc \in {"checksum", "md5loop"} /\ round = 2 => base = Absent
  /\ RefusedOnlyAfterFreshCopy

(* While nothing goes wrong: the source that was found stays, the copy is   *)
(* equal to it, so that no retry and no read error is met, and the flag of  *)
(* an earlier run is found by isCompleteFileCopy.                           *)
QuietInv ==
  /\ flag = "file" => pc \notin Working
  /\ pc = "flag" /\ flag = "file" => retryStatNum <= NfsLag
  /\ disturbed = 0 =>
       /\ pc = "statSrc" /\ src # Absent => retryStatNum <= NfsLag
       /\ pc \in {"tempDir", "finalDir", "flag"} \cup Working => src # Absent
       /\ pc = "checksum" => tempFile = src
       /\ pc \notin {"md5loop", "remove"}
  /\ UndisturbedRunCompletes

(* Exit code 201 is given only after a copy that started from nothing.      *)
THEOREM RefusalIsFresh == Spec => []RefusedOnlyAfterFreshCopy
<1>1. Init => FreshInv
  BY DEF Init, FreshInv, RefusedOnlyAfterFreshCopy
<1>2. TypeOK /\ FreshInv /\ [Next]_vars => FreshInv'
  <2> SUFFICES ASSUME TypeOK, FreshInv, [Next]_vars PROVE FreshInv'
    OBVIOUS
  <2> USE FailureCodes
      DEF TypeOK, FreshInv, RefusedOnlyAfterFreshCopy, Exit, Goto,
          ErrChecksumRefuse, temp, final, rest, env, control
  <2>1. CASE CheckArgs
    BY <2>1, MountCode DEF CheckArgs, ErrInvalidArgument, ErrUnknownFSType
  <2>2. CASE StatSrc
    BY <2>2 DEF StatSrc, ErrNoSuchFileOrDir
  <2>3. CASE CheckTempDir
    BY <2>3 DEF CheckTempDir, ErrInvalidArgument, ErrNotDirectory
  <2>4. CASE CheckFinalDir
    BY <2>4 DEF CheckFinalDir, ErrSrcAndDstAreSameFile, ErrNotDirectory
  <2>5. CASE CheckFlag
    BY <2>5 DEF CheckFlag, ErrCopyFileSucceed
  <2>6. CASE CopyFile
    BY <2>6, CopyFileCodes DEF CopyFile, AfterCopy
  <2>7. CASE MD5Checksum
    BY <2>7 DEF MD5Checksum
  <2>8. CASE RemoveTempFile
    BY <2>8 DEF RemoveTempFile, Discard
  <2>9. CASE StatFinal
    BY <2>9 DEF StatFinal, ErrIsDirectory, ErrFileIsExists
  <2>10. CASE Rename
    BY <2>10 DEF Rename, AfterRenames
  <2>11. CASE RenameMd5
    BY <2>11 DEF RenameMd5, AfterRenames
  <2>12. CASE CreateTrack
    BY <2>12 DEF CreateTrack
  <2>13. CASE RemoveTempDir
    BY <2>13 DEF RemoveTempDir
  <2>14. CASE SetFlag
    BY <2>14 DEF SetFlag, ErrCopyFileSucceed
  <2>15. CASE MD5ReadRecovers
    BY <2>15 DEF MD5ReadRecovers
  <2>16. CASE Crash
    BY <2>16 DEF Crash
  <2>17. CASE Rerun
    BY <2>17 DEF Rerun, Ended
  <2>18. CASE SrcWrite
    BY <2>18 DEF SrcWrite
  <2>19. CASE OtherWrite
    BY <2>19 DEF OtherWrite
  <2>20. CASE UNCHANGED vars
    BY <2>20 DEF vars, ghosts
  <2> QED
    BY <2>1, <2>2, <2>3, <2>4, <2>5, <2>6, <2>7, <2>8, <2>9, <2>10, <2>11,
       <2>12, <2>13, <2>14, <2>15, <2>16, <2>17, <2>18, <2>19, <2>20
       DEF Next, JobStep, Terminated
<1>3. FreshInv => RefusedOnlyAfterFreshCopy
  BY DEF FreshInv
<1> QED
  BY <1>1, <1>2, <1>3, TypeCorrect, PTL DEF Spec

(* A run in which nothing goes wrong completes the job, from whatever state *)
(* the runs before it and their kills have left.                            *)
THEOREM QuietRunCompletes == Spec => []UndisturbedRunCompletes
<1>1. Init => QuietInv
  BY DEF Init, QuietInv, UndisturbedRunCompletes, Working
<1>2. TypeOK /\ QuietInv /\ [Next]_vars => QuietInv'
  <2> SUFFICES ASSUME TypeOK, QuietInv, [Next]_vars PROVE QuietInv'
    OBVIOUS
  <2> USE FailureCodes
      DEF TypeOK, QuietInv, UndisturbedRunCompletes, Working, Exit, Goto,
          NoFault, Fault, temp, final, rest, env, control
  <2>1. CASE CheckArgs
    BY <2>1, NfsAssumption DEF CheckArgs
  <2>2. CASE StatSrc
    BY <2>2, NfsAssumption DEF StatSrc, RetriesSpent, CountLook
  <2>3. CASE CheckTempDir
    BY <2>3 DEF CheckTempDir, Usable
  <2>4. CASE CheckFinalDir
    BY <2>4, NfsAssumption DEF CheckFinalDir, Usable
  <2>5. CASE CheckFlag
    BY <2>5, NfsAssumption DEF CheckFlag, RetriesSpent, CountLook, FlagFound
  <2>6. CASE CopyFile
    BY <2>6 DEF CopyFile, AfterCopy
  <2>7. CASE MD5Checksum
    BY <2>7 DEF MD5Checksum
  <2>8. CASE RemoveTempFile
    BY <2>8 DEF RemoveTempFile
  <2>9. CASE StatFinal
    BY <2>9 DEF StatFinal, MayReplace
  <2>10. CASE Rename
    BY <2>10 DEF Rename, AfterRenames
  <2>11. CASE RenameMd5
    BY <2>11 DEF RenameMd5, AfterRenames
  <2>12. CASE CreateTrack
    BY <2>12 DEF CreateTrack
  <2>13. CASE RemoveTempDir
    BY <2>13 DEF RemoveTempDir
  <2>14. CASE SetFlag
    BY <2>14 DEF SetFlag
  <2>15. CASE MD5ReadRecovers
    BY <2>15 DEF MD5ReadRecovers
  <2>16. CASE Crash
    BY <2>16 DEF Crash
  <2>17. CASE Rerun
    BY <2>17 DEF Rerun
  <2>18. CASE SrcWrite
    BY <2>18 DEF SrcWrite
  <2>19. CASE OtherWrite
    BY <2>19 DEF OtherWrite
  <2>20. CASE UNCHANGED vars
    BY <2>20 DEF vars, ghosts
  <2> QED
    BY <2>1, <2>2, <2>3, <2>4, <2>5, <2>6, <2>7, <2>8, <2>9, <2>10, <2>11,
       <2>12, <2>13, <2>14, <2>15, <2>16, <2>17, <2>18, <2>19, <2>20
       DEF Next, JobStep, Terminated
<1>3. QuietInv => UndisturbedRunCompletes
  BY DEF QuietInv
<1> QED
  BY <1>1, <1>2, <1>3, TypeCorrect, PTL DEF Spec
=============================================================================
