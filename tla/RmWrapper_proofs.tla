-------------------------- MODULE RmWrapper_proofs --------------------------
(****************************************************************************)
(* What RmWrapper guarantees for directories of every size, every batch     *)
(* size reqSize, every retry limit and every number of faults.              *)
(****************************************************************************)
EXTENDS RmWrapper, ExitCodes_proofs, FiniteSetTheorems

----------------------------------------------------------------------------
(* The failure of a call that ends the process: its exit code is an errno.  *)
LEMMA FailureCodes ==
  ASSUME FailsWithErrno
  PROVE  pc' = "exited" /\ exitCode' \in 1..133 /\ Fault
BY ErrnoAssumption, ErrnoCodes DEF FailsWithErrno, Exit

(* An error is neither nil nor the mark of "nothing returned yet".          *)
LEMMA ErrorsAreErrors ==
  \A e \in Errnos : e \in 1..133 /\ e # NoErr /\ e # Empty
BY ErrnoAssumption DEF NoErr, Empty

(* A fault uses up one of the faults there may be.                          *)
LEMMA FaultType ==
  ASSUME faults \in 0..MaxFaults, Fault
  PROVE  faults' \in 0..MaxFaults
BY BoundAssumption DEF Fault

(* The number of names of a batch, and of a batch with one name less.       *)
LEMMA BatchSize ==
  ASSUME NEW S \in SUBSET Names
  PROVE  /\ Cardinality(S) \in Nat
         /\ S = {} <=> Cardinality(S) = 0
         /\ \A x \in S : Cardinality(S \ {x}) = Cardinality(S) - 1
<1>1. IsFiniteSet(S)
  BY NameAssumption, FS_Subset
<1> QED
  BY <1>1, FS_CardinalityType, FS_EmptySet, FS_RemoveElement

----------------------------------------------------------------------------
(* Every step keeps every variable within its type; that a batch counts at  *)
(* most reqSize failures needs LoopInv.                                     *)
LEMMA TypeStep ==
  ASSUME TypeOK, LoopInv, [Next]_vars
  PROVE  TypeOK'
<1> USE FailureCodes, ErrorsAreErrors, FaultType, BoundAssumption,
        NfsAssumption, SizeAssumption
    DEF TypeOK, Running, Exit, Goto, NoFault, world, loop, outcome
<1>1. CASE CheckArgs
  BY <1>1, MountCode DEF CheckArgs, ErrInvalidArgument, ErrUnknownFSType
<1>2. CASE StatTarget
  BY <1>2 DEF StatTarget, RetriesSpent, Removal, Succeed
<1>3. CASE RemoveFile
  BY <1>3 DEF RemoveFile, Succeed
<1>4. CASE RemoveAll
  <2>1. children' \subseteq Names /\ target' \in {"absent", "dir", "file"}
    BY <1>4 DEF RemoveAll
  <2>2. /\ pc' = "exited" /\ exitCode' \in 0..255 \cup {Empty}
        /\ faults' \in 0..MaxFaults
    BY <1>4, ErrnoCodes DEF RemoveAll, Succeed
  <2> QED
    BY <1>4, <2>1, <2>2 DEF RemoveAll
<1>5. CASE Open
  BY <1>5 DEF Open, Return, ReturnsErrno, Succeed
<1>6. CASE ReadNames
  <2>1. /\ nameList' \subseteq Names /\ unread' \subseteq Names
        /\ respSize' \in 0..reqSize
    <3>1. CASE UNCHANGED <<unread, nameList, respSize>>
      BY <3>1
    <3>2. CASE /\ nameList' \in SUBSET unread /\ unread' = unread \ nameList'
               /\ \/ Cardinality(nameList') = reqSize
                  \/ Cardinality(unread) < reqSize /\ nameList' = unread
               /\ respSize' = Cardinality(nameList')
      BY <3>2, BatchSize
    <3> QED
      BY <1>6, <3>1, <3>2 DEF ReadNames
  <2>2. /\ pc' \in Running \cup {"exited"}
        /\ exitCode' \in 0..255 \cup {Empty}
        /\ faults' \in 0..MaxFaults
        /\ result' \in Errnos \cup {NoErr, Empty} /\ allRead' \in {0, 1}
    BY <1>6 DEF ReadNames, Return, ReturnsErrno, Succeed
  <2> QED
    BY <1>6, <2>1, <2>2 DEF ReadNames
<1>7. ASSUME NEW name \in Names, RemoveName(name)
      PROVE  TypeOK'
  <2>1. numErr + 1 <= reqSize
    BY <1>7, BatchSize DEF RemoveName, LoopInv
  <2>2. /\ nameList' \subseteq Names /\ children' \subseteq Names
        /\ unread' \subseteq Names /\ failed' \subseteq Names
    BY <1>7 DEF RemoveName
  <2>3. numErr' \in 0..reqSize /\ removeErr' \in Errnos \cup {NoErr}
    BY <1>7, <2>1 DEF RemoveName
  <2>4. faults' \in 0..MaxFaults
    BY <1>7 DEF RemoveName
  <2> QED
    BY <1>7, <2>2, <2>3, <2>4 DEF RemoveName
<1>8. CASE EndBatch
  BY <1>8 DEF EndBatch, Return, Succeed
<1>9. CASE OthersRemove
  BY <1>9 DEF OthersRemove
<1>10. CASE UNCHANGED vars
  BY <1>10 DEF vars
<1> QED
  BY <1>1, <1>2, <1>3, <1>4, <1>5, <1>6, <1>7, <1>8, <1>9, <1>10
  DEF Next, Process, Done

----------------------------------------------------------------------------
(* Every step keeps LoopInv.  Outside the loop it says nothing new; the     *)
(* interesting steps are the read of a batch, the removal of a name, and    *)
(* the end of a batch, where the count decides how to go on.                *)
LEMMA LoopStep ==
  ASSUME TypeOK, LoopInv, [Next]_vars
  PROVE  LoopInv'
<1> USE FailureCodes, SizeAssumption
    DEF TypeOK, LoopInv, NothingIsSkipped, Wanted, Exit, Goto, NoFault, world,
        loop, outcome
<1>1. CASE CheckArgs
  BY <1>1 DEF CheckArgs
<1>2. CASE StatTarget
  BY <1>2 DEF StatTarget, Removal
<1>3. CASE RemoveFile
  BY <1>3 DEF RemoveFile
<1>4. CASE RemoveAll
  BY <1>4 DEF RemoveAll
<1>5. CASE Open
  BY <1>5 DEF Open, Return, ReturnsErrno
<1>6. CASE ReadNames
  <2>1. CASE UNCHANGED <<unread, nameList, respSize>>
    BY <1>6, <2>1, BatchSize DEF ReadNames, Return, ReturnsErrno
  <2>2. CASE /\ Goto("child") /\ NoFault /\ UNCHANGED outcome
             /\ nameList' \in SUBSET unread
             /\ \/ Cardinality(nameList') = reqSize
                \/ Cardinality(unread) < reqSize /\ nameList' = unread
             /\ unread' = unread \ nameList'
             /\ respSize' = Cardinality(nameList')
    <3>1. Cardinality(nameList') \in Nat
      BY <2>2, BatchSize
    <3>2. numErr' + Cardinality(nameList') <= respSize'
      BY <1>6, <2>2, <3>1 DEF ReadNames
    <3>3. Wanted \subseteq unread' \cup nameList' \cup failed
      BY <1>6, <2>2 DEF ReadNames
    <3>4. respSize' < reqSize => Wanted \subseteq nameList' \cup failed
      BY <1>6, <2>2, <3>1 DEF ReadNames
    <3> QED
      BY <1>6, <2>2, <3>2, <3>3, <3>4 DEF ReadNames
  <2> QED
    BY <1>6, <2>1, <2>2 DEF ReadNames
<1>7. ASSUME NEW name \in Names, RemoveName(name)
      PROVE  LoopInv'
  <2>1. /\ pc = "child" /\ pc' = "child" /\ name \in nameList
        /\ nameList' = nameList \ {name} /\ allRead' = allRead
        /\ respSize' = respSize /\ job' = job
    BY <1>7 DEF RemoveName
  <2>2. /\ Cardinality(nameList') = Cardinality(nameList) - 1
        /\ Cardinality(nameList) \in Nat
    BY <2>1, BatchSize
  <2>3. CASE /\ job.filtered /\ ~isNeedRemove(name)
             /\ UNCHANGED <<children, unread, numErr, removeErr, failed>>
    BY <2>1, <2>2, <2>3 DEF isNeedRemove
  <2>4. CASE /\ children' = children \ {name} /\ unread' \in SUBSET unread
             /\ failed' = failed \ {name}
             /\ UNCHANGED <<numErr, removeErr>>
    BY <2>1, <2>2, <2>4
  <2>5. CASE /\ numErr' = numErr + 1 /\ failed' = failed \cup {name}
             /\ UNCHANGED <<children, unread>>
    BY <2>1, <2>2, <2>5
  <2> QED
    BY <1>7, <2>3, <2>4, <2>5 DEF RemoveName
<1>8. CASE EndBatch
  <2>1. Cardinality(nameList) = 0 /\ nameList = {}
    BY <1>8, BatchSize DEF EndBatch
  <2>2. CASE KeepReading
    BY <1>8, <2>1, <2>2 DEF EndBatch, KeepReading
  <2>3. CASE ~KeepReading
    BY <1>8, <2>1, <2>3 DEF EndBatch, AtEnd, Return
  <2> QED
    BY <2>2, <2>3
<1>9. CASE OthersRemove
  BY <1>9 DEF OthersRemove
<1>10. CASE UNCHANGED vars
  BY <1>10 DEF vars
<1> QED
  BY <1>1, <1>2, <1>3, <1>4, <1>5, <1>6, <1>7, <1>8, <1>9, <1>10
  DEF Next, Process, Done

----------------------------------------------------------------------------
(* The type of the state and the invariant of removeChild's two loops hold  *)
(* in every reachable state.                                                *)
THEOREM LoopInvariant == Spec => [](TypeOK /\ LoopInv)
<1>1. Init => TypeOK /\ LoopInv
  BY BoundAssumption, NfsAssumption, SizeAssumption
  DEF Init, TypeOK, LoopInv, NothingIsSkipped, Running, NoErr, Empty
<1>2. TypeOK /\ LoopInv /\ [Next]_vars => (TypeOK /\ LoopInv)'
  BY TypeStep, LoopStep
<1> QED
  BY <1>1, <1>2, PTL DEF Spec

(* removeChild that reaches the end of the directory has tried every child  *)
(* it was to remove, for directories and batches of every size, although    *)
(* removing names makes the directory reshuffle.                            *)
THEOREM EveryNameIsTried == Spec => []NothingIsSkipped
<1>1. LoopInv => NothingIsSkipped
  BY DEF LoopInv
<1> QED
  BY <1>1, LoopInvariant, PTL

(* Exit code 0 for a path to be removed as a whole means that it is gone:   *)
(* the retries outlast the NFS client.                                      *)
THEOREM RemovedIsGone == Spec => []SuccessMeansRemoved
<1>1. Init => StatInv
  BY NfsAssumption DEF Init, StatInv, SuccessMeansRemoved
<1>2. TypeOK /\ StatInv /\ [Next]_vars => StatInv'
  <2> SUFFICES ASSUME TypeOK, StatInv, [Next]_vars PROVE StatInv'
    OBVIOUS
  <2> USE FailureCodes, ErrorsAreErrors, NfsAssumption
      DEF TypeOK, StatInv, SuccessMeansRemoved, Running, Exit, Goto, NoFault,
          world, loop, outcome, Succeed, NoErr, Empty
  <2>1. CASE CheckArgs
    BY <2>1, MountCode DEF CheckArgs, ErrInvalidArgument, ErrUnknownFSType
  <2>2. CASE StatTarget
    BY <2>2 DEF StatTarget, RetriesSpent, Removal
  <2>3. CASE RemoveFile
    BY <2>3 DEF RemoveFile
  <2>4. CASE RemoveAll
    BY <2>4, ErrnoCodes DEF RemoveAll
  <2>5. CASE Open
    BY <2>5 DEF Open, Return, ReturnsErrno
  <2>6. CASE ReadNames
    BY <2>6 DEF ReadNames, Return, ReturnsErrno
  <2>7. ASSUME NEW name \in Names, RemoveName(name)
        PROVE  StatInv'
    BY <2>7 DEF RemoveName
  <2>8. CASE EndBatch
    BY <2>8 DEF EndBatch, Return
  <2>9. CASE OthersRemove
    BY <2>9 DEF OthersRemove
  <2>10. CASE UNCHANGED vars
    BY <2>10 DEF vars
  <2> QED
    BY <2>1, <2>2, <2>3, <2>4, <2>5, <2>6, <2>7, <2>8, <2>9, <2>10
    DEF Next, Process, Done
<1>3. StatInv => SuccessMeansRemoved
  BY DEF StatInv
<1> QED
  BY <1>1, <1>2, <1>3, LoopInvariant, PTL DEF Spec
=============================================================================
