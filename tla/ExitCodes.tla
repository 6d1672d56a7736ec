------------------------------ MODULE ExitCodes ------------------------------
(****************************************************************************)
(* The exit codes of the wrapper and the three conversions into them:       *)
(* from an exit code of rsync (pkg/rsync_wrapper/exit_code.go), from the    *)
(* text rsync printed, and from a Go error (pkg/exit_code/exit_code.go).    *)
(*                                                                          *)
(* A line of output is abstracted to the set of standard error messages it  *)
(* contains; the texts of the messages are abstracted to their names.       *)
(****************************************************************************)
EXTENDS Integers, Sequences

----------------------------------------------------------------------------
(* pkg/exit_code: what the wrapper exits with.                              *)
Succeed                 == 0
ErrNoSuchFileOrDir      == 2
ErrIOError              == 5
ErrPermissionDenied     == 13
ErrDeviceIsBusy         == 16
ErrFileIsExists         == 17
ErrNotDirectory         == 20
ErrIsDirectory          == 21
ErrInvalidArgument      == 22
ErrNoSpaceLeftOnDevice  == 28
ErrFileSystemIsReadOnly == 30
ErrFileStale            == 116
ErrDiskQuota            == 122
ErrChecksumRefuse       == 201
ErrUnknownFSType        == 202
ErrSrcAndDstAreSameFile == 203
ErrDirectoryNestedItself == 204
ErrRetryLimit           == 208
ErrCopyFileSucceed      == 254
ErrSystem               == 255
Empty                   == -999

----------------------------------------------------------------------------
(* pkg/rsync_wrapper: what an rsync process, or the attempt to run one,     *)
(* ended with.  Killed is what os/exec reports for a process that a signal  *)
(* ended: ExitCode() is -1.                                                 *)
ErrOK          == 0
ErrSyntax      == 1
ErrProtocol    == 2
ErrFileselect  == 3
ErrUnsupported == 4
ErrStartclient == 5
ErrSocketio    == 10
ErrFileio      == 11
ErrStreamio    == 12
ErrMessageio   == 13
ErrPartial     == 23
ErrVanished    == 24
ErrCreatePipe  == -10
ErrStartCmd    == -11
ErrWaitProcess == -12
Killed         == -1

unRecoverableErrList ==
  {ErrSyntax, ErrProtocol, ErrFileselect, ErrUnsupported, ErrStartclient}

IsErrUnRecoverable(errCode) == errCode \in unRecoverableErrList

(* rsyncExitCodeMap with the default of the lookup: every code the map      *)
(* sends to ErrSystem, and every code it lacks (ErrVanished and Killed are  *)
(* two), falls to the last case.                                            *)
ExitCodeConvert(errCode) ==
  IF errCode = ErrOK THEN Succeed
  ELSE IF errCode \in {ErrSyntax, ErrUnsupported} THEN ErrInvalidArgument
  ELSE IF errCode = ErrFileselect THEN ErrNoSuchFileOrDir
  ELSE IF errCode \in {ErrSocketio, ErrFileio, ErrStreamio, ErrMessageio}
       THEN ErrIOError
  ELSE IF errCode = ErrPartial THEN ErrPermissionDenied
  ELSE ErrSystem

----------------------------------------------------------------------------
(* The messages searched for, in the order in which they are tried, and the *)
(* code of each: one sequence for stdExitCodeMsgList and stdExitCodeMap.    *)
stdExitCodeMsgList ==
  << "NOENT", "IOError", "PermissionDenided", "DeviceBusy", "FileIsExists",
     "NotDirectory", "IsDirectory", "Inval", "NoSpace", "FSReadOnly",
     "DiskQuota", "FileStale" >>

stdExitCodeMap ==
  << ErrNoSuchFileOrDir, ErrIOError, ErrPermissionDenied, ErrDeviceIsBusy,
     ErrFileIsExists, ErrNotDirectory, ErrIsDirectory, ErrInvalidArgument,
     ErrNoSpaceLeftOnDevice, ErrFileSystemIsReadOnly, ErrDiskQuota,
     ErrFileStale >>

stdExitCodes == {stdExitCodeMap[i] : i \in 1..12}

(* The positions in stdExitCodeMsgList of the messages a line contains.     *)
MsgsIn(line) == {i \in 1..12 : stdExitCodeMsgList[i] \in line}

(* The lines are scanned from the last to the first; the first line that    *)
(* contains a message decides, by the first such message of the list.       *)
ExitCodeConvertWithStderr(errStrList) ==
  LET matching == {n \in 1..Len(errStrList) : MsgsIn(errStrList[n]) # {}}
      deciding == CHOOSE n \in matching : \A m \in matching : m <= n
      msgs     == MsgsIn(errStrList[deciding])
      first    == CHOOSE i \in msgs : \A j \in msgs : i <= j
  IN  IF matching = {} THEN [code |-> Succeed, ok |-> FALSE]
                       ELSE [code |-> stdExitCodeMap[first], ok |-> TRUE]

----------------------------------------------------------------------------
(* A Go error is a record: "is" says which error value it wraps, and errno   *)
(* is the number when that is an errno of the operating system (EPERM is 1, *)
(* ENOTEMPTY is 39; package os puts each in one class with a neighbour).    *)
ENOENT == 2
EEXIST == 17

Errno(n) == [is |-> "errno", errno |-> n]
ErrUnavailableFileSystem == [is |-> "unavailable filesystem", errno |-> 0]
ErrNotEqual == [is |-> "not equal", errno |-> 0]

ExitCodeConvertWithErr(err) ==
  IF err = ErrUnavailableFileSystem THEN ErrUnknownFSType
  ELSE IF err = ErrNotEqual THEN ErrChecksumRefuse
  ELSE IF err.is # "errno" THEN ErrSystem
  ELSE IF err.errno \in {1, ErrPermissionDenied} THEN ErrPermissionDenied
  ELSE IF err.errno \in {EEXIST, 39} THEN ErrFileIsExists
  ELSE err.errno
=============================================================================
