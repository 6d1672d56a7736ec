------------------------------ MODULE MvWrapper ------------------------------
(****************************************************************************)
(* cmd/mv_wrapper: rename a file or a directory to, or into, the            *)
(* destination; with -exclude-src, move what is inside a directory into the *)
(* destination directory, one child at a time (renameChild).                *)
(*                                                                          *)
(* Every entry of the destination is "absent", somebody else's "file" or    *)
(* "dir", or "moved": put there by this job.  The children of the source    *)
(* are files.  A killed process may be started again.                       *)
(****************************************************************************)
EXTENDS ExitCodes, FiniteSets

CONSTANTS
  Names,               \* the names a child of the source may have
  Base,                \* the source's own name, as an entry of the destination
  Jobs,                \* the requests considered, a subset of Job
  Sources,             \* what may be at the source path
  defaultLimtReadDir,  \* how many names are read at once
  Errnos,              \* the other errors a system call may return
  waitNFSCcliLimit,    \* how often a path that does not exist is looked at
  NfsLag,              \* for how many looks an NFS client may hide a path
  MaxFaults,           \* bound: failing calls and kills
  MaxRuns,             \* bound: how often the job is started
  MaxOthers            \* bound: entries others create at the destination

(* rel: source and destination are the same path, or the destination is the *)
(* directory the source is in, or neither.                                  *)
Job == [valid : BOOLEAN, exclude : BOOLEAN, rel : {"apart", "same", "parent"}]

ASSUME NameAssumption == IsFiniteSet(Names) /\ Base \notin Names
ASSUME JobAssumption ==
  Jobs \subseteq Job /\ Sources \subseteq {"absent", "file", "dir"}
ASSUME SizeAssumption == defaultLimtReadDir \in Nat \ {0}
(* 39 is ENOTEMPTY, which package os takes for EEXIST.                      *)
ASSUME ErrnoAssumption == Errnos \subseteq (1..133) \ {ENOENT, EEXIST, 39}
ASSUME NfsAssumption ==
  waitNFSCcliLimit \in Nat /\ NfsLag \in Nat /\ NfsLag < waitNFSCcliLimit
ASSUME BoundAssumption == MaxFaults \in Nat /\ MaxRuns \in Nat /\ MaxOthers \in Nat

VARIABLES
  job,       \* the command line, the same in every run
  lag,       \* for how many looks the NFS client of this run's node hides a path
  pc,        \* the system call the process is about to make
  exitCode,  \* what the process exited with
  retryNum,  \* srcRetryNum, then destRetryNum
  srcInfo,   \* what the process saw at the source
  nameList,  \* the names of the batch that are still to be moved
  respSize,  \* how many names the batch had
  child,     \* the name that os.Stat did not find at the destination
  src,       \* what is at the source path
  srcKids,   \* the names in it
  dest,      \* what is at the destination path
  destKids,  \* and its entries
  faults, runs, others

control == <<pc, exitCode, retryNum, srcInfo, nameList, respSize, child>>
files   == <<src, srcKids, dest, destKids>>
bounds  == <<runs, others>>
setup   == <<job, lag>>
vars    == <<setup, control, files, faults, bounds>>

Entry    == {"absent", "file", "dir", "moved"}
Foreign  == {"file", "dir"}
DestName == Names \cup {Base}
Running  == {"args", "statSrc", "statDest", "rename", "renameInto", "statNew",
             "open", "read", "child", "renameChild"}
Ended    == {"exited", "crashed"}

----------------------------------------------------------------------------
Init ==
  /\ job \in Jobs /\ lag \in 0..NfsLag
  /\ pc = "args" /\ exitCode = Empty /\ retryNum = 0 /\ srcInfo = "absent"
  /\ nameList = {} /\ respSize = 0 /\ child = Base
  /\ src \in Sources
  /\ srcKids \in SUBSET Names /\ (src # "dir" => srcKids = {})
  /\ dest \in {"absent"} \cup Foreign
  /\ destKids \in [DestName -> {"absent"} \cup Foreign]
  /\ dest # "dir" => \A k \in DestName : destKids[k] = "absent"
  /\ job.rel = "same" => dest = src
  /\ job.rel = "parent" => dest = "dir" /\ destKids[Base] = src
  /\ faults = 0 /\ runs = 1 /\ others = 0

Exit(code) == pc' = "exited" /\ exitCode' = code
Goto(next) == pc' = next /\ exitCode' = exitCode

NoFault == faults' = faults
Fault   == faults < MaxFaults /\ faults' = faults + 1

FailsWithErrno ==
  Fault /\ \E e \in Errnos : Exit(ExitCodeConvertWithErr(Errno(e)))

(* The formats of the arguments and the file systems of the mount points.   *)
CheckArgs ==
  /\ pc = "args"
  /\ \/ job.valid /\ Goto("statSrc") /\ NoFault
     \/ ~job.valid /\ Exit(ErrInvalidArgument) /\ NoFault
     \/ job.valid /\ FailsWithErrno
     \/ /\ job.valid /\ Fault
        /\ Exit(ExitCodeConvertWithErr(ErrUnavailableFileSystem))
  /\ UNCHANGED <<setup, retryNum, srcInfo, nameList, respSize, child, files,
                 bounds>>

RetriesSpentLate == retryNum > waitNFSCcliLimit
RetriesSpent     == retryNum >= waitNFSCcliLimit

CountNoLook == retryNum' = retryNum
CountLook   == retryNum' = retryNum + 1

(* Wait for the source, which must be there.                                *)
StatSrc ==
  /\ pc = "statSrc"
  /\ IF RetriesSpent
     THEN Exit(ErrNoSuchFileOrDir) /\ NoFault /\ UNCHANGED <<retryNum, srcInfo>>
     ELSE \/ /\ src # "absent" /\ srcInfo' = src
             /\ Goto("statDest") /\ NoFault /\ retryNum' = 0
          \/ /\ src = "absent" \/ retryNum < lag
             /\ CountLook
             /\ NoFault /\ UNCHANGED <<pc, exitCode, srcInfo>>
          \/ FailsWithErrno /\ UNCHANGED <<retryNum, srcInfo>>
  /\ UNCHANGED <<setup, nameList, respSize, child, files, bounds>>

----------------------------------------------------------------------------
(* What main does once it knows what is at both ends: an exit code, or the  *)
(* call it makes next.                                                      *)
DecideDir(destInfo) ==
  IF job.rel = "same"
  THEN Exit(IF job.exclude THEN ErrSrcAndDstAreSameFile
                           ELSE ErrDirectoryNestedItself)
  ELSE IF job.rel = "parent" /\ ~job.exclude THEN Exit(ErrSrcAndDstAreSameFile)
  ELSE IF job.exclude
  THEN \/ destInfo = "absent" /\ Exit(ErrNoSuchFileOrDir)
       \/ destInfo = "file"   /\ Exit(ErrNotDirectory)
       \/ destInfo = "dir"    /\ Goto("open")
  ELSE \/ destInfo = "absent" /\ Goto("rename")
       \/ destInfo = "file"   /\ Exit(ErrNotDirectory)
       \/ destInfo = "dir"    /\ Goto("renameInto")

DecideFile(destInfo) ==
  \/ destInfo = "absent" /\ Goto("rename")
  \/ /\ destInfo # "absent"
     /\ IF job.rel = "same" THEN Exit(ErrSrcAndDstAreSameFile)
        ELSE IF destInfo = "file" THEN Exit(ErrFileIsExists)
        ELSE Goto("statNew")

Decide(destInfo) ==
  IF srcInfo = "dir" THEN DecideDir(destInfo) ELSE DecideFile(destInfo)

(* Look for the destination, which need not be there.                       *)
StatDest ==
  /\ pc = "statDest"
  /\ IF RetriesSpent
     THEN Decide("absent") /\ NoFault /\ UNCHANGED retryNum
     ELSE \/ dest # "absent" /\ Decide(dest) /\ NoFault /\ UNCHANGED retryNum
          \/ /\ dest = "absent" \/ retryNum < lag
             /\ CountLook
             /\ NoFault /\ UNCHANGED <<pc, exitCode>>
          \/ FailsWithErrno /\ UNCHANGED retryNum
  /\ UNCHANGED <<setup, srcInfo, nameList, respSize, child, files, bounds>>

----------------------------------------------------------------------------
(* os.Rename onto an entry: package os refuses to replace a directory, the  *)
(* system call refuses to replace a file by a directory, and a file         *)
(* replaces a file.                                                         *)
RenameErr(kind, entry) ==
  IF entry = "dir" THEN EEXIST
  ELSE IF entry = "file" /\ kind = "dir" THEN ErrNotDirectory ELSE 0

RenameFails(kind, entry) ==
  \/ FailsWithErrno
  \/ /\ RenameErr(kind, entry) # 0 /\ NoFault
     /\ Exit(ExitCodeConvertWithErr(Errno(RenameErr(kind, entry))))

(* The destination was absent when main looked.                             *)
Rename ==
  /\ pc = "rename"
  /\ \/ /\ RenameErr(src, dest) = 0
        /\ src' = "absent" /\ srcKids' = {} /\ dest' = "moved"
        /\ Exit(Succeed) /\ NoFault
     \/ RenameFails(src, dest) /\ UNCHANGED <<src, srcKids, dest>>
  /\ UNCHANGED <<setup, retryNum, srcInfo, nameList, respSize, child, destKids,
                 bounds>>

(* The destination is a directory, and the source gets an entry in it.      *)
(* When that entry is the source itself, the call changes nothing.          *)
RenameInto ==
  /\ pc = "renameInto"
  /\ \/ /\ job.rel # "parent" /\ RenameErr(src, destKids[Base]) = 0
        /\ src' = "absent" /\ srcKids' = {}
        /\ destKids' = [destKids EXCEPT ![Base] = "moved"]
        /\ Exit(Succeed) /\ NoFault
     \/ /\ job.rel = "parent"
        /\ Exit(Succeed) /\ NoFault
        /\ UNCHANGED <<src, srcKids, destKids>>
     \/ /\ RenameFails(src, destKids[Base])
        /\ UNCHANGED <<src, srcKids, destKids>>
  /\ UNCHANGED <<setup, retryNum, srcInfo, nameList, respSize, child, dest, bounds>>

(* One look at the new path of a file: any error, not only ENOENT, counts   *)
(* as "not there".                                                          *)
StatNew ==
  /\ pc = "statNew"
  /\ \/ destKids[Base] # "absent" /\ Exit(ErrFileIsExists) /\ NoFault
     \/ /\ destKids[Base] = "absent" \/ lag > 0
        /\ Goto("renameInto") /\ NoFault
     \/ Fault /\ Goto("renameInto")
  /\ UNCHANGED <<setup, retryNum, srcInfo, nameList, respSize, child, files,
                 bounds>>

----------------------------------------------------------------------------
(* renameChild: open the source and read the next batch of names; io.EOF    *)
(* ends the move.                                                           *)
Open ==
  /\ pc = "open"
  /\ (Goto("read") /\ NoFault) \/ FailsWithErrno
  /\ UNCHANGED <<setup, retryNum, srcInfo, nameList, respSize, child, files,
                 bounds>>

ReadNames ==
  /\ pc = "read"
  /\ \/ /\ srcKids = {} /\ Exit(Succeed) /\ NoFault
        /\ UNCHANGED <<nameList, respSize>>
     \/ /\ srcKids # {} /\ Goto("child") /\ NoFault
        /\ nameList' \in SUBSET srcKids
        /\ \/ Cardinality(nameList') = defaultLimtReadDir
           \/ Cardinality(srcKids) < defaultLimtReadDir /\ nameList' = srcKids
        /\ respSize' = Cardinality(nameList')
     \/ FailsWithErrno /\ UNCHANGED <<nameList, respSize>>
  /\ UNCHANGED <<setup, retryNum, srcInfo, child, files, bounds>>

OccupiedByDir(name) == destKids[name] = "dir"
Occupied(name)      == destKids[name] # "absent"

(* One look at the new path of a child.                                     *)
StatChild(name) ==
  /\ pc = "child" /\ name \in nameList
  /\ \/ Occupied(name) /\ Exit(ErrFileIsExists) /\ NoFault /\ UNCHANGED child
     \/ /\ ~Occupied(name) \/ lag > 0
        /\ Goto("renameChild") /\ child' = name /\ NoFault
     \/ FailsWithErrno /\ UNCHANGED child
  /\ UNCHANGED <<setup, retryNum, srcInfo, nameList, respSize, files, bounds>>

StillListed(name) == nameList
Unlisted(name)    == nameList \ {name}

RenameChild ==
  /\ pc = "renameChild"
  /\ \/ /\ RenameErr("file", destKids[child]) = 0
        /\ srcKids' = srcKids \ {child}
        /\ destKids' = [destKids EXCEPT ![child] = "moved"]
        /\ nameList' = Unlisted(child)
        /\ Goto("child") /\ NoFault
     \/ /\ RenameFails("file", destKids[child])
        /\ UNCHANGED <<srcKids, destKids, nameList>>
  /\ UNCHANGED <<setup, retryNum, srcInfo, respSize, child, src, dest, bounds>>

AtEndOfFull == respSize <= defaultLimtReadDir
AtEnd       == respSize < defaultLimtReadDir

EndBatch ==
  /\ pc = "child" /\ nameList = {}
  /\ IF AtEnd THEN Exit(Succeed) ELSE Goto("open")
  /\ NoFault
  /\ UNCHANGED <<setup, retryNum, srcInfo, nameList, respSize, child, files,
                 bounds>>

----------------------------------------------------------------------------
(* The process is killed.                                                   *)
Crash ==
  /\ pc \in Running /\ Fault
  /\ pc' = "crashed"
  /\ UNCHANGED <<setup, exitCode, retryNum, srcInfo, nameList, respSize, child,
                 files, bounds>>

(* The same job is started again, perhaps on another node.                  *)
Rerun ==
  /\ pc \in Ended /\ runs < MaxRuns
  /\ runs' = runs + 1
  /\ pc' = "args" /\ exitCode' = Empty /\ retryNum' = 0 /\ srcInfo' = "absent"
  /\ nameList' = {} /\ respSize' = 0 /\ child' = Base
  /\ lag' \in 0..NfsLag
  /\ UNCHANGED <<job, files, faults, others>>

(* Somebody else creates the destination or an entry in it.                 *)
OthersCreate ==
  /\ pc \in Running /\ others < MaxOthers /\ others' = others + 1
  /\ \/ /\ dest = "absent" /\ job.rel # "same"
        /\ dest' \in Foreign /\ UNCHANGED destKids
     \/ /\ dest = "dir"
        /\ \E k \in DestName, e \in Foreign :
             /\ destKids[k] = "absent"
             /\ k = Base => job.rel = "apart"
             /\ destKids' = [destKids EXCEPT ![k] = e]
        /\ UNCHANGED dest
  /\ UNCHANGED <<setup, control, src, srcKids, faults, runs>>

Process ==
  \/ CheckArgs \/ StatSrc \/ StatDest \/ Rename \/ RenameInto \/ StatNew
  \/ Open \/ ReadNames \/ RenameChild \/ EndBatch
  \/ \E name \in Names : StatChild(name)

Done == pc \in Ended /\ UNCHANGED vars

Next == Process \/ Crash \/ Rerun \/ OthersCreate \/ Done

Spec == Init /\ [][Next]_vars

(* The process takes its next step as long as it runs.                      *)
FairSpec == Spec /\ WF_vars(Process)

----------------------------------------------------------------------------
(* Every variable has a value the code can give it; the wait loops never    *)
(* count beyond their limit, and no batch is longer than the limit.         *)
TypeOK ==
  /\ job \in Jobs /\ lag \in 0..NfsLag /\ pc \in Running \cup Ended
  /\ exitCode \in 0..255 \cup {Empty}
  /\ retryNum \in 0..waitNFSCcliLimit
  /\ srcInfo \in {"absent"} \cup Foreign
  /\ nameList \subseteq Names /\ respSize \in 0..defaultLimtReadDir
  /\ child \in DestName
  /\ src \in {"absent"} \cup Foreign /\ srcKids \subseteq Names
  /\ dest \in Entry /\ destKids \in [DestName -> Entry]
  /\ faults \in 0..MaxFaults /\ runs \in Nat /\ others \in 0..MaxOthers

(* Exit code 0 means that the move is complete, in the run that reports it: *)
(* no child is left in the source after any number of batches and earlier   *)
(* runs, and a source moved as a whole is gone and is at the destination.   *)
SuccessMeansMoved ==
  pc = "exited" /\ exitCode = Succeed =>
    IF srcInfo = "dir" /\ job.exclude THEN srcKids = {}
    ELSE \/ job.rel = "parent"
         \/ src = "absent" /\ "moved" \in {dest, destKids[Base]}

(* Exit code EEXIST is given only for an entry of somebody else: what an    *)
(* earlier, killed run has moved is never in the way of the next run.       *)
RefusalIsReal ==
  pc = "exited" /\ exitCode = ErrFileIsExists =>
    IF srcInfo = "dir" /\ job.exclude
    THEN \E n \in srcKids : destKids[n] \in Foreign
    ELSE dest \in Foreign /\ destKids[Base] # "moved"

(* What a step does to the entries of somebody else at the destination:     *)
(* nothing.                                                                 *)
Keeps ==
  /\ dest \in Foreign => dest' = dest
  /\ \A k \in DestName : destKids[k] \in Foreign => destKids'[k] = destKids[k]

(* A directory, or the children of one, never replaces anything, through    *)
(* all failures, kills and restarts, as long as nobody else creates entries *)
(* and the NFS client is not stale.                                         *)
DirReplacesNothing ==
  [][srcInfo = "dir" /\ lag = 0 /\ others = 0 => Keeps]_vars

(* Every run ends.                                                          *)
RunEnds == pc \in Running ~> pc \in Ended

----------------------------------------------------------------------------
InLoop == {"open", "read", "child", "renameChild"}

(* Why success is complete: only a move of children is in the loop, and a   *)
(* short batch holds every child that is left.                              *)
MoveInv ==
  /\ pc \in InLoop => srcInfo = "dir" /\ job.exclude
  /\ pc \in {"rename", "renameInto", "statNew"} =>
       ~(srcInfo = "dir" /\ job.exclude)
  /\ pc \in {"child", "renameChild"} /\ respSize < defaultLimtReadDir =>
       srcKids \subseteq nameList
  /\ SuccessMeansMoved

(* Why no run is refused for what this job moved: what is moved is gone     *)
(* from the source, and a run that goes on has seen the source as it is.    *)
MovedInv ==
  /\ "moved" \in {dest, destKids[Base]} => src = "absent"
  /\ \A n \in Names : destKids[n] = "moved" => n \notin srcKids
  /\ pc \in Running \ {"args", "statSrc"} => src # "absent" /\ src = srcInfo
  /\ pc \in {"statNew", "renameInto"} => dest = "dir"
  /\ pc \in {"child", "renameChild"} => nameList \subseteq srcKids
  /\ pc = "renameChild" => child \in nameList
  /\ RefusalIsReal

(* Why nothing is replaced: the loop that waits for the destination ends    *)
(* only when it is absent, and the call before a rename has found the new   *)
(* path free.                                                               *)
KeepInv ==
  /\ pc = "statDest" /\ retryNum > lag => dest = "absent" \/ others > 0
  /\ pc = "rename" => dest = "absent" \/ others > 0
  /\ pc = "renameChild" /\ lag = 0 => destKids[child] = "absent" \/ others > 0
=============================================================================
