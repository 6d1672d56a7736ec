------------------------------ MODULE RmWrapper ------------------------------
(****************************************************************************)
(* cmd/rm_wrapper: remove a file, a directory, or, with -reserved-dir, what *)
(* is inside a directory.  The last is the loop removeChild: open the       *)
(* directory, read a batch of at most reqSize names, remove each of them,   *)
(* close and open again until a short batch shows that the end is reached.  *)
(*                                                                          *)
(* A batch is the set of its names, and they are removed in any order: the  *)
(* order of a directory is unspecified.  A child is a name; what is inside  *)
(* it matters only in that its removal may fail.                            *)
(****************************************************************************)
EXTENDS ExitCodes, FiniteSets

CONSTANTS
  Names,             \* the names a child may have
  Matching,          \* those that match one of the -suffix patterns
  Jobs,              \* the requests considered, a subset of Job
  reqSize,           \* how many names are read at once
  Errnos,            \* the errors (other than ENOENT) a system call may return
  waitNFSCcliLimit,  \* how often a path that does not exist is looked at
  NfsLag,            \* for how many looks the NFS client may hide a path
  MaxFaults          \* bound: calls that fail once

(* filtered is whether -suffix is given.                                    *)
Job == [valid : BOOLEAN, reserved : BOOLEAN, filtered : BOOLEAN]

ASSUME NameAssumption == IsFiniteSet(Names) /\ Matching \subseteq Names
ASSUME JobAssumption == Jobs \subseteq Job
ASSUME SizeAssumption == reqSize \in Nat \ {0}
ASSUME ErrnoAssumption == Errnos \subseteq (1..133) \ {ENOENT}
ASSUME NfsAssumption ==
  waitNFSCcliLimit \in Nat /\ NfsLag \in Nat /\ NfsLag < waitNFSCcliLimit
ASSUME BoundAssumption == MaxFaults \in Nat

NoErr == 0

VARIABLES
  job,        \* the command line
  pc,         \* the system call the process is about to make
  exitCode,   \* what the process exited with
  retryNum,   \* looks at the path that did not find it
  target,     \* what is at the path to remove
  children,   \* the names in the directory
  stubborn,   \* those whose removal always fails
  unread,     \* the names the open directory has not returned yet
  nameList,   \* the names of the batch that are still to be treated
  respSize,   \* how many names the batch had
  numErr,     \* how many removals of the batch failed
  removeErr,  \* the first error of a removal
  result,     \* what removeChild returned, Empty before
  faults,
  failed,     \* ghost: the names whose last removal failed
  allRead     \* ghost: 1 once removeChild stopped at the end of the directory

world == <<job, stubborn>>
loop  == <<unread, nameList, respSize, numErr, removeErr, failed>>
outcome == <<result, allRead>>
vars  == <<world, pc, exitCode, retryNum, target, children, loop, outcome,
           faults>>

Running == {"args", "stat", "removeFile", "removeAll", "open", "read", "child"}

----------------------------------------------------------------------------
(* Any file or directory may be there, in particular what an earlier run    *)
(* left when it failed or was killed.                                       *)
Init ==
  /\ job \in Jobs
  /\ pc = "args" /\ exitCode = Empty /\ retryNum = 0
  /\ target \in {"absent", "file", "dir"}
  /\ children \in SUBSET Names /\ (target # "dir" => children = {})
  /\ stubborn \in SUBSET children
  /\ unread = {} /\ nameList = {} /\ respSize = 0 /\ numErr = 0
  /\ removeErr = NoErr /\ result = Empty
  /\ faults = 0 /\ failed = {} /\ allRead = 0

Exit(code) == pc' = "exited" /\ exitCode' = code
Goto(next) == pc' = next /\ exitCode' = exitCode

NoFault == faults' = faults
Fault   == faults < MaxFaults /\ faults' = faults + 1

FailsWithErrno ==
  Fault /\ \E e \in Errnos : Exit(ExitCodeConvertWithErr(Errno(e)))

(* The format of the arguments and the file system of the mount point.      *)
CheckArgs ==
  /\ pc = "args"
  /\ \/ job.valid /\ Goto("stat") /\ NoFault
     \/ ~job.valid /\ Exit(ErrInvalidArgument) /\ NoFault
     \/ job.valid /\ FailsWithErrno
     \/ /\ job.valid /\ Fault
        /\ Exit(ExitCodeConvertWithErr(ErrUnavailableFileSystem))
  /\ UNCHANGED <<world, retryNum, target, children, loop, outcome>>

RetriesSpentLate == retryNum > waitNFSCcliLimit
RetriesSpentSoon == retryNum >= 1
RetriesSpent     == retryNum >= waitNFSCcliLimit

(* The three cases of main once the path is found.                          *)
Removal == IF target = "file" THEN "removeFile"
           ELSE IF job.reserved THEN "open" ELSE "removeAll"

(* A path that stays absent has nothing to remove: success.                 *)
StatTarget ==
  /\ pc = "stat"
  /\ IF RetriesSpent
     THEN Exit(Succeed) /\ NoFault /\ UNCHANGED retryNum
     ELSE \/ target # "absent" /\ Goto(Removal) /\ NoFault /\ UNCHANGED retryNum
          \/ /\ target = "absent" \/ retryNum < NfsLag
             /\ retryNum' = retryNum + 1
             /\ NoFault /\ UNCHANGED <<pc, exitCode>>
          \/ FailsWithErrno /\ UNCHANGED retryNum
  /\ UNCHANGED <<world, target, children, loop, outcome>>

(* os.Remove; a file that is already gone counts as removed.                *)
RemoveFile ==
  /\ pc = "removeFile"
  /\ \/ target' = "absent" /\ Exit(Succeed) /\ NoFault
     \/ FailsWithErrno /\ UNCHANGED target
  /\ UNCHANGED <<world, retryNum, children, loop, outcome>>

(* os.RemoveAll of the whole directory: a failure leaves part of it.        *)
RemoveAll ==
  /\ pc = "removeAll"
  /\ \/ /\ stubborn \cap children = {}
        /\ target' = "absent" /\ children' = {}
        /\ Exit(Succeed) /\ NoFault
     \/ /\ target # "absent"
        /\ children' \in SUBSET children
        /\ stubborn \cap children \subseteq children'
        /\ UNCHANGED target
        /\ \/ FailsWithErrno
           \/ /\ stubborn \cap children # {} /\ NoFault
              /\ \E e \in Errnos : Exit(ExitCodeConvertWithErr(Errno(e)))
  /\ UNCHANGED <<world, retryNum, loop, outcome>>

----------------------------------------------------------------------------
(* removeChild returns err to main.  main exits with Succeed when err is    *)
(* nil; otherwise it computes a code that it does not use, and returns,     *)
(* which ends the process with 0 as well.                                   *)
Return(err, end) ==
  /\ result' = err /\ allRead' = end
  /\ Exit(Succeed)

ReturnsErrno == Fault /\ \E e \in Errnos : Return(e, 0)

(* A directory that is gone by now is removed as far as the caller cares.   *)
Open ==
  /\ pc = "open"
  /\ \/ /\ target = "absent" /\ Return(NoErr, 0) /\ NoFault
        /\ UNCHANGED unread
     \/ /\ target # "absent" /\ Goto("read") /\ NoFault
        /\ unread' = children /\ UNCHANGED outcome
     \/ ReturnsErrno /\ UNCHANGED unread
  /\ UNCHANGED <<world, retryNum, target, children, nameList, respSize, numErr,
                 removeErr, failed>>

(* Readdirnames returns reqSize names as long as there are that many, and   *)
(* io.EOF, which ends removeChild with nil, when there is none.             *)
ReadNames ==
  /\ pc = "read"
  /\ numErr' = 0
  /\ \/ /\ unread = {} /\ Return(NoErr, 1) /\ NoFault
        /\ UNCHANGED <<unread, nameList, respSize>>
     \/ /\ target = "absent" /\ Return(NoErr, 0) /\ NoFault
        /\ UNCHANGED <<unread, nameList, respSize>>
     \/ ReturnsErrno /\ UNCHANGED <<unread, nameList, respSize>>
     \/ /\ unread # {} /\ Goto("child") /\ NoFault /\ UNCHANGED outcome
        /\ nameList' \in SUBSET unread
        /\ \/ Cardinality(nameList') = reqSize
           \/ Cardinality(unread) < reqSize /\ nameList' = unread
        /\ unread' = unread \ nameList'
        /\ respSize' = Cardinality(nameList')
  /\ UNCHANGED <<world, retryNum, target, children, removeErr, failed>>

isNeedRemove(name) == name \in Matching

(* One name of the batch.  A removal may make the operating system          *)
(* reshuffle the directory, and an open directory may then skip names.      *)
RemoveName(name) ==
  /\ pc = "child" /\ name \in nameList
  /\ nameList' = nameList \ {name}
  /\ \/ /\ job.filtered /\ ~isNeedRemove(name) /\ NoFault
        /\ UNCHANGED <<children, unread, numErr, removeErr, failed>>
     \/ /\ job.filtered => isNeedRemove(name)
        /\ name \notin stubborn \/ name \notin children
        /\ NoFault
        /\ children' = children \ {name}
        /\ unread' \in SUBSET unread
        /\ failed' = failed \ {name}
        /\ UNCHANGED <<numErr, removeErr>>
     \/ /\ job.filtered => isNeedRemove(name)
        /\ name \in children
        /\ IF name \in stubborn THEN NoFault ELSE Fault
        /\ \E e \in Errnos :
             removeErr' = IF removeErr = NoErr THEN e ELSE removeErr
        /\ numErr' = numErr + 1
        /\ failed' = failed \cup {name}
        /\ UNCHANGED <<children, unread>>
  /\ UNCHANGED <<world, pc, exitCode, retryNum, target, respSize, outcome>>

(* Only when every removal of a full batch failed is the next batch read    *)
(* from the directory that is already open.                                 *)
KeepReadingFull == respSize = reqSize
KeepReading     == numErr = reqSize

AtEndWhenEmpty == respSize = 0
AtEnd          == respSize < reqSize

EndBatch ==
  /\ pc = "child" /\ nameList = {}
  /\ \/ KeepReading /\ Goto("read") /\ UNCHANGED outcome
     \/ ~KeepReading /\ AtEnd /\ Return(removeErr, 1)
     \/ ~KeepReading /\ ~AtEnd /\ Goto("open") /\ UNCHANGED outcome
  /\ NoFault
  /\ UNCHANGED <<world, retryNum, target, children, loop>>

----------------------------------------------------------------------------
(* Another process removes what is at the path, at any time.                *)
OthersRemove ==
  /\ pc \in Running \ {"args"}
  /\ target # "absent"
  /\ target' = "absent" /\ children' = {}
  /\ Fault
  /\ UNCHANGED <<world, pc, exitCode, retryNum, loop, outcome>>

Process ==
  \/ CheckArgs \/ StatTarget \/ RemoveFile \/ RemoveAll
  \/ Open \/ ReadNames \/ EndBatch
  \/ \E name \in Names : RemoveName(name)

Done == pc = "exited" /\ UNCHANGED vars

Next == Process \/ OthersRemove \/ Done

Spec == Init /\ [][Next]_vars

(* The process takes its next step as long as it runs.                      *)
FairSpec == Spec /\ WF_vars(Process)

----------------------------------------------------------------------------
(* Every variable has a value the code can give it; the wait loop never     *)
(* counts beyond its limit, and no batch is longer than reqSize.            *)
TypeOK ==
  /\ job \in Jobs /\ pc \in Running \cup {"exited"}
  /\ exitCode \in 0..255 \cup {Empty}
  /\ retryNum \in 0..waitNFSCcliLimit
  /\ target \in {"absent", "file", "dir"}
  /\ children \subseteq Names /\ stubborn \subseteq Names
  /\ unread \subseteq Names /\ nameList \subseteq Names
  /\ failed \subseteq Names
  /\ respSize \in 0..reqSize /\ numErr \in 0..reqSize
  /\ removeErr \in Errnos \cup {NoErr}
  /\ result \in Errnos \cup {NoErr, Empty}
  /\ faults \in 0..MaxFaults /\ allRead \in {0, 1}

(* The children a request with -reserved-dir is meant to remove.            *)
Wanted == IF job.filtered THEN children \cap Matching ELSE children

(* When the path itself is to be removed (a file, or a directory without    *)
(* -reserved-dir), exit code 0 means that nothing is there any more: not    *)
(* even a path that the NFS client had hidden is left behind.               *)
SuccessMeansRemoved ==
  pc = "exited" /\ exitCode = Succeed /\ result = Empty => target = "absent"

(* removeChild that stops at the end of the directory has tried every name: *)
(* a child it was to remove is there only if its last removal failed,       *)
(* although the directory reshuffles while it is being read.                *)
NothingIsSkipped == allRead = 1 => Wanted \subseteq failed

(* A request without -suffix ends whatever its children refuse, and so does *)
(* one with -suffix whose directory fits into one batch.                    *)
UnfilteredRunEnds ==
  (~job.filtered \/ Cardinality(children) < reqSize) ~> pc = "exited"

(* "path is dir: if reserved dir: remove dir -> create empty dir with same  *)
(* name" (comment in main): exit code 0 means that the directory is empty,  *)
(* or has no child that matches a pattern.                                  *)
SuccessMeansEmptied ==
  pc = "exited" /\ exitCode = Succeed /\ target = "dir" => Wanted = {}

----------------------------------------------------------------------------
(* Why nothing is skipped.  Between batches every child that is to go is    *)
(* unread or has failed.  Within a batch it may also be in the batch, or    *)
(* fewer removals than names have failed, so that the directory is opened   *)
(* again; but a short batch is the last one and leaves nothing unread.      *)
LoopInv ==
  /\ pc = "read" => Wanted \subseteq unread \cup failed
  /\ pc = "child" =>
       /\ numErr + Cardinality(nameList) <= respSize
       /\ \/ Wanted \subseteq unread \cup nameList \cup failed
          \/ numErr + Cardinality(nameList) < respSize
       /\ respSize < reqSize => Wanted \subseteq nameList \cup failed
  /\ NothingIsSkipped
  /\ allRead = 1 => pc = "exited"

(* Why a hidden path is not given up: the loop has looked more often than   *)
(* the NFS client can hide it only if it is absent.                         *)
StatInv ==
  /\ pc \in {"args", "stat"} /\ retryNum > NfsLag => target = "absent"
  /\ result # Empty => pc = "exited"
  /\ SuccessMeansRemoved
=============================================================================
