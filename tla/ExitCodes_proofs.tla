-------------------------- MODULE ExitCodes_proofs --------------------------
(* Facts about the conversions, for the proofs about the commands.          *)
EXTENDS ExitCodes, TLAPS, WellFoundedInduction

(* The conversion of an errno (ExitCodeConvertWithErr) yields an errno, so  *)
(* no failing system call ends a process with 0 or one of the custom codes. *)
LEMMA ErrnoCodes ==
  ASSUME NEW e \in 1..133
  PROVE  ExitCodeConvertWithErr(Errno(e)) \in 1..133
<1>1. /\ Errno(e) # ErrUnavailableFileSystem /\ Errno(e) # ErrNotEqual
      /\ Errno(e).is = "errno" /\ Errno(e).errno = e
  BY DEF Errno, ErrUnavailableFileSystem, ErrNotEqual
<1> QED
  BY <1>1 DEF ExitCodeConvertWithErr, ErrPermissionDenied, EEXIST,
              ErrFileIsExists

(* The code for a mount point on a file system of the wrong type.           *)
LEMMA MountCode ==
  ExitCodeConvertWithErr(ErrUnavailableFileSystem) = ErrUnknownFSType
BY DEF ExitCodeConvertWithErr

----------------------------------------------------------------------------
(* A set of numbers has a least element.                                    *)
LEMMA LeastNumber ==
  ASSUME NEW T, T \subseteq Nat, T # {}
  PROVE  \E x \in T : \A y \in T : x <= y
<1>1. PICK x \in T : \A y \in T : ~ (<<y, x>> \in OpToRel(<, Nat))
  BY NatLessThanWellFounded, WFMin, Zenon
<1>2. \A y \in T : ~ (y < x)
  BY <1>1, Zenon DEF OpToRel
<1> QED
  BY <1>2

(* A set of numbers up to n has a greatest element: n minus the least       *)
(* distance from n.                                                         *)
LEMMA GreatestNumber ==
  ASSUME NEW n \in Nat, NEW T, T \subseteq 1..n, T # {}
  PROVE  \E x \in T : \A y \in T : y <= x
<1> DEFINE D == {d \in Nat : n - d \in T}
<1>1. D # {}
  <2>1. PICK t \in T : TRUE
    OBVIOUS
  <2>2. n - t \in Nat /\ n - (n - t) = t
    OBVIOUS
  <2> QED
    BY <2>1, <2>2
<1>2. PICK d \in D : \A e \in D : d <= e
  BY <1>1, LeastNumber
<1>3. \A y \in T : n - y \in D
  OBVIOUS
<1>4. ASSUME NEW y \in T
      PROVE  y <= n - d
  <2>1. d <= n - y /\ d \in Nat /\ y \in Int
    BY <1>2, <1>3
  <2> QED
    BY <2>1
<1> QED
  BY <1>2, <1>4

(* Every code of stdExitCodeMap is an errno, and none of them is a code of  *)
(* the wrapper's own.                                                       *)
LEMMA StdCodes ==
  ASSUME NEW code \in stdExitCodes
  PROVE  code \in 2..122
BY DEF stdExitCodes, stdExitCodeMap, ErrNoSuchFileOrDir, ErrIOError,
   ErrPermissionDenied, ErrDeviceIsBusy, ErrFileIsExists, ErrNotDirectory,
   ErrIsDirectory, ErrInvalidArgument, ErrNoSpaceLeftOnDevice,
   ErrFileSystemIsReadOnly, ErrDiskQuota, ErrFileStale

(* A message of rsync is translated to the code of one of the messages of   *)
(* the list, whichever lines contain which of them: the scan from the last  *)
(* line finds one, and in it the first message.                             *)
LEMMA StderrCodes ==
  ASSUME NEW errStrList \in Seq(SUBSET STRING),
         ExitCodeConvertWithStderr(errStrList).ok
  PROVE  ExitCodeConvertWithStderr(errStrList).code \in stdExitCodes
<1> DEFINE matching == {n \in 1..Len(errStrList) : MsgsIn(errStrList[n]) # {}}
           deciding == CHOOSE n \in matching : \A m \in matching : m <= n
           msgs     == MsgsIn(errStrList[deciding])
           first    == CHOOSE i \in msgs : \A j \in msgs : i <= j
<1>1. matching # {}
  BY DEF ExitCodeConvertWithStderr
<1>2. Len(errStrList) \in Nat /\ matching \subseteq 1..Len(errStrList)
  OBVIOUS
<1>3. ExitCodeConvertWithStderr(errStrList).code = stdExitCodeMap[first]
  BY <1>1 DEF ExitCodeConvertWithStderr
<1>4. deciding \in matching
  <2> HIDE DEF matching
  <2>1. \E n \in matching : \A m \in matching : m <= n
    BY <1>1, <1>2, GreatestNumber
  <2> QED
    BY <2>1
<1>5. msgs # {}
  <2> HIDE DEF deciding
  <2> QED
    BY <1>4
<1>6. msgs \subseteq Nat /\ msgs \subseteq 1..12
  <2> HIDE DEF deciding
  <2> QED
    BY DEF MsgsIn
<1>7. first \in msgs
  <2> HIDE DEF msgs
  <2>1. \E i \in msgs : \A j \in msgs : i <= j
    BY <1>5, <1>6, LeastNumber
  <2> QED
    BY <2>1
<1> HIDE DEF first
<1> QED
  BY <1>3, <1>6, <1>7 DEF stdExitCodes

(* rsyncExitCodeMap never turns a failure of rsync into success or into one *)
(* of the wrapper's own codes below ErrSystem.                              *)
LEMMA ConvertedCodes ==
  ASSUME NEW errCode \in Int
  PROVE  /\ ExitCodeConvert(errCode) \in {0, 2, 5, 13, 22, 255}
         /\ errCode # ErrOK => ExitCodeConvert(errCode) # Succeed
BY DEF ExitCodeConvert, Succeed, ErrInvalidArgument, ErrNoSuchFileOrDir,
   ErrIOError, ErrPermissionDenied, ErrSystem
=============================================================================
