------------------------------- MODULE FileJob -------------------------------
(****************************************************************************)
(* The copy of one file by cmd/copy: rsync the source to a private temp     *)
(* directory, verify it, rename it (and its .md5 file) into the final       *)
(* directory, create the track file, remove the temp directory, set the     *)
(* completion flag and exit with ErrCopyFileSucceed.                        *)
(*                                                                          *)
(* The process may be killed between and inside any two of these calls, and *)
(* the same job may be started again afterwards, whatever the outcome was.  *)
(* A file is abstracted to its content, the digest of a file to that        *)
(* content, and Broken is any content that is not one of the source's.      *)
(****************************************************************************)
EXTENDS ExitCodes

CONSTANTS
  Contents,          \* what the source file may hold
  Absent,            \* nothing at this path
  Broken,            \* truncated, torn or corrupted bytes
  Directory,         \* a directory where a file is expected
  Errnos,            \* the errors (other than ENOENT) a system call may return
  Jobs,              \* the requests considered, a subset of Job
  OtherContents,     \* what other writers may put at the final path
  waitNFSCcliLimit,  \* how often a path that does not exist is looked at
  NfsLag,            \* for how many looks the NFS client may hide a path
  MaxFaults,         \* bound: failing calls, corruptions and kills
  MaxRuns,           \* bound: how often the job is started
  MaxSrcWrites       \* bound: changes of the source file

(* The command line: track is whether a track file is asked for, and        *)
(* whether its path is well formed; checksum is whether the file name       *)
(* matches one of the suffixes to verify; nested is a final directory that  *)
(* lies inside the temp directory.                                          *)
Job == [valid : BOOLEAN, overwrite : BOOLEAN, checksum : BOOLEAN,
        gen : BOOLEAN, track : {"no", "yes", "malformed"},
        samePath : BOOLEAN, nested : BOOLEAN]

ASSUME FileAssumption ==
  /\ Absent # Broken /\ Absent # Directory /\ Broken # Directory
  /\ Contents \cap {Absent, Broken, Directory} = {}
  /\ OtherContents \subseteq Contents
  /\ Contents # {}

ASSUME JobAssumption == Jobs \subseteq Job

(* The errors of Linux are the numbers below 134; ENOENT is not a fault.    *)
ASSUME ErrnoAssumption == Errnos \subseteq (1..133) \ {ENOENT}

(* The retries are there because the NFS client may be stale, and are       *)
(* enough for it.                                                           *)
ASSUME NfsAssumption ==
  waitNFSCcliLimit \in Nat /\ NfsLag \in Nat /\ NfsLag < waitNFSCcliLimit

ASSUME BoundAssumption ==
  MaxFaults \in Nat /\ MaxRuns \in Nat /\ MaxSrcWrites \in Nat

VARIABLES
  job,           \* the command line, the same in every run
  pc,            \* the system call the process is about to make
  exitCode,      \* what the process exited with
  retryStatNum,  \* looks at a path that was not there, in the current loop
  round,         \* 1 for copy(1) and checksum(1), 2 for the internal retry
  src, tempDir, tempFile, tempMd5, finalDir, finalFile, finalMd5,
  trackFile,
  flag,          \* <temp dir>_succeed-copy-file
  faults, runs, srcWrites,
  base,          \* ghost: the temp file the last copy found and could build on
  disturbed      \* ghost: 1 once something went wrong in this run, else 0

control == <<pc, exitCode, retryStatNum, round>>
temp    == <<tempDir, tempFile, tempMd5>>
final   == <<finalDir, finalFile, finalMd5>>
rest    == <<trackFile, flag>>
ghosts  == <<faults, disturbed, base>>
env     == <<job, src, runs, srcWrites>>
vars    == <<control, temp, final, rest, ghosts, env>>

PathKind == {"absent", "file", "dir"}
FileVal  == Contents \cup {Absent, Broken, Directory}
Running  == {"args", "statSrc", "tempDir", "finalDir", "flag", "copy",
             "checksum", "md5loop", "remove", "statFinal", "rename",
             "renameMd5", "track", "rmTemp", "setFlag"}
Ended    == {"exited", "crashed"}

----------------------------------------------------------------------------
(* A path with a file on it: what the source, temp and final files look     *)
(* like before the first run.  A job whose source is the final file itself  *)
(* finds the same content at both.                                          *)
Init ==
  /\ job \in Jobs
  /\ pc = "args" /\ exitCode = Empty /\ retryStatNum = 0 /\ round = 1
  /\ src \in Contents \cup {Absent}
  /\ tempDir \in PathKind /\ tempFile = Absent /\ tempMd5 = Absent
  /\ finalDir \in PathKind
  /\ finalFile \in Contents \cup {Absent, Directory}
  /\ finalMd5 \in Contents \cup {Absent}
  /\ finalDir # "dir" => finalFile = Absent /\ finalMd5 = Absent
  /\ job.nested /\ finalDir # "absent" => tempDir = "dir"
  /\ job.samePath => finalFile = src
  /\ trackFile \in {"absent", "file"}
  /\ flag \in {"absent", "dir"}
  /\ faults = 0 /\ runs = 1 /\ srcWrites = 0 /\ disturbed = 0 /\ base = Absent

Exit(code) == pc' = "exited" /\ exitCode' = code
Goto(next) == pc' = next /\ exitCode' = exitCode

NoFault == faults' = faults /\ disturbed' = disturbed
Fault   == faults < MaxFaults /\ faults' = faults + 1 /\ disturbed' = 1

(* A system call returned an error that ends the process.                   *)
FailsWithErrno ==
  /\ Fault
  /\ \E e \in Errnos : Exit(ExitCodeConvertWithErr(Errno(e)))

(* The two loops that wait for a path: the test that ends them and the      *)
(* counting of one more look.                                               *)
RetriesSpentLate   == retryStatNum > waitNFSCcliLimit
RetriesSpentSoon   == retryStatNum >= 1
RetriesSpent       == retryStatNum >= waitNFSCcliLimit

CountNoLook == retryStatNum' = retryStatNum
CountLook   == retryStatNum' = retryStatNum + 1

----------------------------------------------------------------------------
(* Formats of the arguments and file systems of the two mount points.       *)
CheckArgs ==
  /\ pc = "args"
  /\ \/ job.valid /\ Goto("statSrc") /\ NoFault
     \/ ~job.valid /\ Exit(ErrInvalidArgument) /\ NoFault
     \/ job.valid /\ FailsWithErrno
     \/ /\ job.valid /\ Fault
        /\ Exit(ExitCodeConvertWithErr(ErrUnavailableFileSystem))
  /\ retryStatNum' = 0
  /\ UNCHANGED <<round, base, temp, final, rest, env>>

(* Wait for the source: ENOENT is retried, as a stale client may report it. *)
StatSrc ==
  /\ pc = "statSrc"
  /\ IF RetriesSpent
     THEN Exit(ErrNoSuchFileOrDir) /\ NoFault /\ UNCHANGED retryStatNum
     ELSE \/ src # Absent /\ Goto("tempDir") /\ NoFault /\ UNCHANGED retryStatNum
          \/ /\ src = Absent \/ retryStatNum < NfsLag
             /\ CountLook
             /\ NoFault /\ UNCHANGED <<pc, exitCode>>
          \/ FailsWithErrno /\ UNCHANGED retryStatNum
  /\ UNCHANGED <<round, base, temp, final, rest, env>>

UsableIfAbsent(path) == path = "absent"
Usable(path)         == path # "file"

(* The temp directory is made when it is missing; then, the source being a  *)
(* file, the format of the track file's path is checked.                    *)
CheckTempDir ==
  /\ pc = "tempDir"
  /\ \/ /\ Usable(tempDir)
        /\ tempDir' = "dir"
        /\ IF job.track = "malformed" THEN Exit(ErrInvalidArgument)
                                      ELSE Goto("finalDir")
        /\ NoFault
     \/ ~Usable(tempDir) /\ Exit(ErrNotDirectory) /\ NoFault /\ UNCHANGED tempDir
     \/ FailsWithErrno /\ UNCHANGED tempDir
  /\ UNCHANGED <<retryStatNum, round, base, tempFile, tempMd5, final, rest, env>>

CheckFinalDir ==
  /\ pc = "finalDir"
  /\ \/ /\ Usable(finalDir)
        /\ finalDir' = "dir"
        /\ IF job.samePath THEN Exit(ErrSrcAndDstAreSameFile) ELSE Goto("flag")
        /\ NoFault
     \/ ~Usable(finalDir) /\ Exit(ErrNotDirectory) /\ NoFault /\ UNCHANGED finalDir
     \/ FailsWithErrno /\ UNCHANGED finalDir
  /\ retryStatNum' = 0
  /\ UNCHANGED <<round, base, temp, finalFile, finalMd5, rest, env>>

FlagOfAnyKind == flag # "absent"
FlagFound     == flag = "file"

(* isCompleteFileCopy: a flag file means an earlier run did all the work.   *)
CheckFlag ==
  /\ pc = "flag"
  /\ IF RetriesSpent
     THEN Goto("copy") /\ NoFault /\ UNCHANGED retryStatNum
     ELSE \/ /\ flag # "absent"
             /\ IF FlagFound THEN Exit(ErrCopyFileSucceed) ELSE Goto("copy")
             /\ NoFault /\ UNCHANGED retryStatNum
          \/ /\ flag = "absent" \/ retryStatNum < NfsLag
             /\ CountLook
             /\ NoFault /\ UNCHANGED <<pc, exitCode>>
          \/ FailsWithErrno /\ UNCHANGED retryStatNum
  /\ UNCHANGED <<round, base, temp, final, rest, env>>

----------------------------------------------------------------------------
(* Every code but Succeed that file.CopyFile can return.                    *)
CopyFileErrors ==
  {ErrRetryLimit, ErrInvalidArgument, ErrSystem} \cup stdExitCodes
    \cup {ExitCodeConvert(c) : c \in unRecoverableErrList}

VerifyFirstCopy == IF job.checksum /\ round = 1 THEN "checksum" ELSE "statFinal"
AfterCopy       == IF job.checksum THEN "checksum" ELSE "statFinal"

(* file.CopyFile with rsync -rlptgoHA --partial, for copy(1) and copy(2).   *)
(* rsync skips a file whose size and time are already those of the source,  *)
(* so a bad temp file may survive a copy that reports success; what is      *)
(* left after a failure is the old file or a partial one.                   *)
CopyFile ==
  /\ pc = "copy"
  /\ \/ /\ src # Absent
        /\ \/ NoFault /\ tempFile' = src
           \/ Fault /\ tempFile' \in {Broken} \cup ({tempFile} \ {Absent})
        /\ Goto(AfterCopy)
     \/ /\ Fault \/ (src = Absent /\ NoFault)
        /\ tempFile' \in {tempFile, Broken}
        /\ \E code \in CopyFileErrors : Exit(code)
  /\ base' = tempFile
  /\ UNCHANGED <<retryStatNum, round, tempDir, tempMd5, final, rest, env>>

(* checksum.MD5Checksum: both digests, the comparison and the .md5 file.    *)
(* The first failure, of whatever kind, starts the internal retry, the      *)
(* second ends the process.  A read that keeps failing is repeated for ever.*)
MD5Checksum ==
  /\ pc = "checksum"
  /\ \/ /\ tempFile = src
        /\ tempMd5' = IF job.gen THEN tempFile ELSE tempMd5
        /\ Goto("statFinal") /\ NoFault
     \/ /\ \/ tempFile # src /\ NoFault /\ UNCHANGED tempMd5
           \/ Fault /\ tempMd5' \in {tempMd5} \cup (IF job.gen THEN {Broken} ELSE {})
        /\ IF round = 1 THEN Goto("remove") ELSE Exit(ErrChecksumRefuse)
     \/ Fault /\ Goto("md5loop") /\ UNCHANGED tempMd5
  /\ UNCHANGED <<retryStatNum, round, base, tempDir, tempFile, final, rest, env>>

(* The read that failed in checksum.MD5 succeeds after all.                 *)
MD5ReadRecovers ==
  /\ pc = "md5loop"
  /\ Goto("checksum") /\ NoFault
  /\ UNCHANGED <<retryStatNum, round, base, temp, final, rest, env>>

KeepPartial == tempFile' = tempFile
Discard     == tempFile' = Absent

(* os.Remove of the temp file before copy(2); ENOENT is not an error.       *)
RemoveTempFile ==
  /\ pc = "remove"
  /\ \/ Discard /\ round' = 2 /\ Goto("copy") /\ NoFault
     \/ FailsWithErrno /\ UNCHANGED <<tempFile, round>>
  /\ UNCHANGED <<retryStatNum, base, tempDir, tempMd5, final, rest, env>>

----------------------------------------------------------------------------
Replaceable == TRUE
MayReplace  == job.overwrite

(* May the final file be written?                                           *)
StatFinal ==
  /\ pc = "statFinal"
  /\ \/ /\ NoFault
        /\ \/ finalFile = Absent /\ Goto("rename")
           \/ finalFile = Directory /\ Exit(ErrIsDirectory)
           \/ /\ finalFile \notin {Absent, Directory}
              /\ IF MayReplace THEN Goto("rename") ELSE Exit(ErrFileIsExists)
     \/ FailsWithErrno
  /\ UNCHANGED <<retryStatNum, round, base, temp, final, rest, env>>

SkipTrack    == "rmTemp"
AfterRenames == IF job.track = "yes" THEN "track" ELSE "rmTemp"

Rename ==
  /\ pc = "rename"
  /\ \/ /\ finalFile' = tempFile /\ tempFile' = Absent
        /\ Goto(IF job.checksum /\ job.gen THEN "renameMd5" ELSE AfterRenames)
        /\ NoFault
     \/ FailsWithErrno /\ UNCHANGED <<finalFile, tempFile>>
  /\ UNCHANGED <<retryStatNum, round, base, tempDir, tempMd5, finalDir,
                 finalMd5, rest, env>>

RenameMd5 ==
  /\ pc = "renameMd5"
  /\ \/ finalMd5' = tempMd5 /\ tempMd5' = Absent /\ Goto(AfterRenames) /\ NoFault
     \/ FailsWithErrno /\ UNCHANGED <<finalMd5, tempMd5>>
  /\ UNCHANGED <<retryStatNum, round, base, tempDir, tempFile, finalDir,
                 finalFile, rest, env>>

(* filesystem.CheckOrCreateFile accepts whatever is at the path already.    *)
CreateTrack ==
  /\ pc = "track"
  /\ \/ trackFile' = (IF trackFile = "absent" THEN "file" ELSE trackFile)
        /\ Goto("rmTemp") /\ NoFault
     \/ FailsWithErrno /\ UNCHANGED trackFile
  /\ UNCHANGED <<retryStatNum, round, base, temp, final, flag, env>>

(* os.RemoveAll of the temp directory, with what lies inside it; a failure  *)
(* half way is logged and ignored.                                          *)
RemoveTempDir ==
  /\ pc = "rmTemp"
  /\ \/ /\ tempDir' = "absent" /\ tempFile' = Absent /\ tempMd5' = Absent
        /\ IF job.nested
           THEN finalDir' = "absent" /\ finalFile' = Absent /\ finalMd5' = Absent
           ELSE UNCHANGED final
        /\ NoFault
     \/ /\ Fault
        /\ tempMd5' \in {tempMd5, Absent}
        /\ finalFile' \in {finalFile} \cup (IF job.nested THEN {Absent} ELSE {})
        /\ UNCHANGED <<tempDir, tempFile, finalDir, finalMd5>>
  /\ Goto("setFlag")
  /\ UNCHANGED <<retryStatNum, round, base, rest, env>>

(* setCompleteFlagFileCopy: a failure is logged and ignored.                *)
SetFlag ==
  /\ pc = "setFlag"
  /\ \/ flag # "dir" /\ flag' = "file" /\ NoFault
     \/ flag = "dir" /\ UNCHANGED flag /\ NoFault
     \/ UNCHANGED flag /\ Fault
  /\ Exit(ErrCopyFileSucceed)
  /\ UNCHANGED <<retryStatNum, round, base, temp, final, trackFile, env>>

JobStep ==
  \/ CheckArgs \/ StatSrc \/ CheckTempDir \/ CheckFinalDir \/ CheckFlag
  \/ CopyFile \/ MD5Checksum \/ RemoveTempFile
  \/ StatFinal \/ Rename \/ RenameMd5 \/ CreateTrack
  \/ RemoveTempDir \/ SetFlag

----------------------------------------------------------------------------
(* The process is killed, possibly in the middle of writing a temp file or  *)
(* of removing the temp directory, and rsync with it.                       *)
Crash ==
  /\ pc \in Running
  /\ Fault
  /\ pc' = "crashed"
  /\ tempFile' \in {tempFile} \cup (IF pc = "copy" THEN {Broken} ELSE {})
  /\ tempMd5' \in {tempMd5} \cup (IF pc = "checksum" /\ job.gen THEN {Broken} ELSE {})
                           \cup (IF pc = "rmTemp" THEN {Absent} ELSE {})
  /\ UNCHANGED <<exitCode, retryStatNum, round, base, tempDir, final, rest, env>>

(* Whoever runs the jobs starts this one again.                             *)
Rerun ==
  /\ pc \in Ended
  /\ runs < MaxRuns
  /\ runs' = runs + 1
  /\ pc' = "args" /\ exitCode' = Empty /\ retryStatNum' = 0 /\ round' = 1
  /\ disturbed' = 0 /\ base' = Absent
  /\ UNCHANGED <<job, src, srcWrites, faults, temp, final, rest>>

(* The owner of the source replaces or removes it.                          *)
SrcWrite ==
  /\ srcWrites < MaxSrcWrites
  /\ ~job.samePath
  /\ srcWrites' = srcWrites + 1
  /\ src' \in (Contents \cup {Absent}) \ {src}
  /\ disturbed' = 1
  /\ UNCHANGED <<job, runs, control, temp, final, rest, faults, base>>

(* Someone else writes a file at the final path.                            *)
OtherWrite ==
  /\ finalDir = "dir" /\ finalFile = Absent
  /\ finalFile' \in OtherContents
  /\ disturbed' = 1
  /\ UNCHANGED <<env, control, temp, finalDir, finalMd5, rest, faults, base>>

(* The job has ended and is not started again.                              *)
Terminated == pc \in Ended /\ runs = MaxRuns /\ UNCHANGED vars

Next ==
  \/ JobStep \/ MD5ReadRecovers \/ Crash \/ Rerun \/ SrcWrite \/ OtherWrite
  \/ Terminated

Spec == Init /\ [][Next]_vars

(* The process runs until it ends.  Nothing makes a failing read recover or *)
(* starts the job again.                                                    *)
FairSpec == Spec /\ WF_vars(JobStep)

----------------------------------------------------------------------------
(* Every variable of the process and of the file system has a value the     *)
(* code can give it; the loop counter stays within the retry limit.         *)
TypeOK ==
  /\ job \in Jobs
  /\ pc \in Running \cup Ended
  /\ exitCode \in Int
  /\ retryStatNum \in 0..waitNFSCcliLimit
  /\ round \in {1, 2}
  /\ src \in Contents \cup {Absent}
  /\ tempDir \in PathKind /\ finalDir \in PathKind
  /\ tempFile \in Contents \cup {Absent, Broken}
  /\ tempMd5 \in Contents \cup {Absent, Broken}
  /\ finalFile \in FileVal /\ finalMd5 \in FileVal
  /\ trackFile \in PathKind /\ flag \in PathKind
  /\ faults \in 0..MaxFaults /\ runs \in Nat /\ srcWrites \in Nat
  /\ disturbed \in {0, 1} /\ base \in Contents \cup {Absent, Broken}

(* What may appear at the final path: if the file had to be verified, only  *)
(* one of the source's contents.                                            *)
Publishable == IF job.checksum THEN Contents ELSE Contents \cup {Broken}

(* The file and, when asked for, its .md5 file are in the final directory.  *)
FilesDelivered ==
  /\ finalDir = "dir"
  /\ finalFile \in Publishable
  /\ job.checksum /\ job.gen => finalMd5 = finalFile

TrackDelivered == job.track = "yes" => trackFile # "absent"

(* All that the job promises is in place.                                   *)
Delivered == FilesDelivered /\ TrackDelivered

(* A flag file (setCompleteFlagFileCopy) is never there before everything   *)
(* it announces is, over all kills, failures and restarts.                  *)
FlagMeansDelivered == flag = "file" => Delivered

(* Exit code 254 (ErrCopyFileSucceed), whether earned by this run or taken  *)
(* from an earlier run's flag, means that everything is in place.           *)
SuccessMeansDelivered ==
  pc = "exited" /\ exitCode = ErrCopyFileSucceed => Delivered

(* Once the flag is set, no later run touches the result: isCompleteFileCopy*)
(* finds the flag even through a client that does not see it at first.      *)
CompletedNeverRedone ==
  [][flag = "file" => UNCHANGED <<flag, finalFile, finalMd5, trackFile>>]_vars

(* What os.Rename moves to the final path is verified at that moment, and   *)
(* its .md5 file is ready in the temp directory, whatever earlier runs left *)
(* behind there.                                                            *)
OnlyVerifiedIsPublished ==
  [][finalFile' # finalFile /\ job.checksum =>
       finalFile' \in Contents /\ (job.gen => tempMd5 = finalFile')]_vars

(* The job never replaces a file it was not allowed to overwrite, nor ever  *)
(* a directory.                                                             *)
NeverClobbers ==
  [][finalFile' # finalFile =>
       \/ finalFile = Absent
       \/ job.overwrite /\ finalFile # Directory]_vars

(* Exit code 201 (ErrChecksumRefuse) is given only after a copy that could  *)
(* not be satisfied by what a previous copy had left in the temp directory. *)
RefusedOnlyAfterFreshCopy ==
  pc = "exited" /\ exitCode = ErrChecksumRefuse => base = Absent

(* A run in which nothing goes wrong completes the job whatever the runs    *)
(* before it left behind, unless the request or the destination stands in   *)
(* the way; in particular no kill makes a job with overwrite unfinishable.  *)
UndisturbedRunCompletes ==
  pc = "exited" /\ disturbed = 0 =>
    \/ exitCode = ErrCopyFileSucceed
    \/ exitCode = ErrInvalidArgument /\ (~job.valid \/ job.track = "malformed")
    \/ exitCode = ErrNoSuchFileOrDir /\ src = Absent
    \/ exitCode = ErrNotDirectory /\ "file" \in {tempDir, finalDir}
    \/ exitCode = ErrSrcAndDstAreSameFile /\ job.samePath
    \/ exitCode = ErrIsDirectory /\ finalFile = Directory
    \/ exitCode = ErrFileIsExists /\ ~job.overwrite /\ finalFile # Absent
                                  /\ flag # "file"

(* Every run ends, unless the source cannot be read while it is hashed.     *)
RunEnds == pc \in Running ~> pc \in Ended \cup {"md5loop"}

----------------------------------------------------------------------------
(* The steps a run takes only when it found no flag.                        *)
Working == {"copy", "checksum", "md5loop", "remove", "statFinal", "rename",
            "renameMd5", "track", "rmTemp", "setFlag"}

(* Why the flag and the exit code can be trusted, step by step: at every    *)
(* call of the protocol, what the calls before it have put in place is      *)
(* there (whatever state a killed run left), and a run that started with    *)
(* the flag set never leaves the loop of isCompleteFileCopy for the copy.   *)
DeliveryInv ==
  /\ flag = "file" => Delivered /\ pc \notin Working
  /\ pc = "flag" /\ flag = "file" => retryStatNum <= NfsLag
  /\ pc = "exited" /\ exitCode = ErrCopyFileSucceed => Delivered
  /\ pc \in Working \cup {"flag"} => finalDir = "dir"
  /\ pc \in {"checksum", "md5loop", "remove"} => job.checksum
  /\ pc \in {"checksum", "md5loop"} => tempFile # Absent
  /\ pc \in {"statFinal", "rename"} =>
       /\ tempFile \in Publishable
       /\ job.checksum /\ job.gen => tempMd5 = tempFile
  /\ pc = "renameMd5" => /\ job.checksum /\ job.gen
                         /\ finalFile \in Publishable /\ tempMd5 = finalFile
  /\ pc \in {"track", "rmTemp", "setFlag"} => FilesDelivered
  /\ pc \in {"rmTemp", "setFlag"} => TrackDelivered

(* What os.Stat of the final file established is still so at the rename.    *)
RenameAllowed ==
  pc = "rename" => finalFile = Absent \/ (job.overwrite /\ finalFile # Directory)
=============================================================================
