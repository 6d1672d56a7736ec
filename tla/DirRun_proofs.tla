---------------------------- MODULE DirRun_proofs ----------------------------
(****************************************************************************)
(* Proofs about the copy of a directory: the retry budget, what Run returns *)
(* and reports, and the reports of the goroutines of the attempts.  The     *)
(* facts hold for any number of retries, attempts and lines, any size of    *)
(* the pipe and any set of results of rsync.                                *)
(****************************************************************************)
EXTENDS DirRun, ExitCodes_proofs

(* The types of the variables, in full.                                     *)
Result  == [exitCode : Int, stdErr : Seq(SUBSET STRING)]
Numbers == [cur : Nat, tot : Nat]

TypeInv ==
  /\ req \in Reqs
  /\ pc \in {"loop", "start", "wait", "judge", "done", "exited", "panic"}
  /\ currentRetryNum \in Nat /\ att \in Nat /\ vanished \in Nat
  /\ res \in Result /\ outcome \in Result
  /\ finalExitCode \in Int /\ stderrReports \in Seq(Int)
  /\ rsync \in {"none", "running", "writing", "exited"} /\ printed \in Nat
  /\ pipe \in [Attempts -> Seq(LineKinds)]
  /\ reader \in [Attempts -> {"none", "check", "read", "storeCur", "storeTot",
                              "ended"}]
  /\ reporter \in [Attempts -> {"none", "new", "select", "load", "post",
                                "ended"}]
  /\ inHand \in [Attempts -> Nat] /\ cur \in [Attempts -> Nat]
  /\ tot \in [Attempts -> Nat]
  /\ loaded \in [Attempts -> Numbers] /\ posted \in [Attempts -> Numbers]

(* The count of attempts and the two counters of Run, at each place of its  *)
(* loop; when the retries are spent, the attempt before was one that        *)
(* JudgeRetry counted.                                                      *)
BudgetInv ==
  /\ pc = "loop" => /\ att = vanished + currentRetryNum
                    /\ currentRetryNum <= Limit(req) + 1
                    /\ RetriesSpent => NoStderrCode /\ res.exitCode # ErrOK
  /\ pc \in {"start", "wait", "judge"} =>
       /\ att = vanished + currentRetryNum + 1
       /\ currentRetryNum <= Limit(req)
  /\ att <= vanished + Limit(req) + 1
  /\ currentRetryNum <= Limit(req) + 1
  /\ vanished <= req.vanish
  /\ rsync = "exited" /\ outcome.exitCode = ErrVanished => vanished < req.vanish
  /\ pc = "judge" /\ Vanished => vanished < req.vanish
  /\ rsync # "none" => pc \in {"wait", "panic"}
  /\ pc \in {"start", "wait", "judge"} => att >= 1
  /\ rsync # "none" => att >= 1

(* What Run returns and what it has reported.                               *)
VerdictInv ==
  /\ pc \in {"loop", "start", "wait", "judge"} => stderrReports = <<>>
  /\ pc = "done" /\ finalExitCode = ErrRetryLimit =>
       att = vanished + Limit(req) + 1 /\ res.exitCode # ErrOK
  /\ NoFalseSuccess
  /\ UnexplainedFailureIsReported

(* The lines of an attempt: those in the pipe and the one in the reader's   *)
(* hand are among the ones rsync has printed.                               *)
PipeInv ==
  /\ printed <= MaxLines
  /\ rsync = "writing" => printed < req.lines[att]
  /\ rsync # "none" => inHand[att] + Len(pipe[att]) <= printed
  /\ \A a \in Attempts :
       /\ Len(pipe[a]) <= PipeCap
       /\ inHand[a] + Len(pipe[a]) <= MaxLines
       /\ a > att => reader[a] = "none" /\ reporter[a] = "none"
       /\ a > att \/ (a = att /\ pc = "start") => inHand[a] = 0 /\ pipe[a] = <<>>

(* The two words of an attempt between the stores, and the report of an     *)
(* attempt between the loads.                                               *)
StoredInv(a) ==
  /\ cur[a] = IF reader[a] = "storeCur" THEN inHand[a] - 1 ELSE inHand[a]
  /\ tot[a] = IF reader[a] \in {"storeCur", "storeTot"} THEN inHand[a] - 1
                                                        ELSE inHand[a]

ReportedInv(a) ==
  /\ posted[a].cur <= cur[a] /\ posted[a].tot <= tot[a]
  /\ posted[a].tot >= posted[a].cur - 1
  /\ reporter[a] \in {"load", "post"} =>
       posted[a].cur <= loaded[a].cur /\ loaded[a].cur <= cur[a]
  /\ reporter[a] = "post" =>
       /\ posted[a].tot <= loaded[a].tot /\ loaded[a].tot <= tot[a]
       /\ loaded[a].tot >= loaded[a].cur - 1

WordInv == \A a \in Attempts : StoredInv(a) /\ ReportedInv(a)

----------------------------------------------------------------------------
(* A request has a number of retries, of lines and of vanished attempts     *)
(* within the bounds.                                                       *)
LEMMA ReqFacts ==
  ASSUME NEW r \in Reqs
  PROVE  /\ r.progress \in BOOLEAN /\ r.stderr \in BOOLEAN
         /\ r.positive \in BOOLEAN /\ r.limit \in Int
         /\ r.kinds \subseteq LineKinds /\ r.ends \subseteq Results
         /\ r.lines \in [Attempts -> 0..MaxLines]
         /\ r.vanish \in 0..MaxVanished
         /\ Limit(r) \in Nat /\ Limit(r) <= MaxLimit
BY DirAssumption DEF Req, Limit

(* The current attempt is one that there are words for.                     *)
LEMMA AttRange ==
  ASSUME TypeInv, BudgetInv
  PROVE  att <= MaxLimit + 1 + MaxVanished /\ (att >= 1 => att \in Attempts)
<1>1. req \in Reqs /\ att \in Nat /\ vanished \in Nat
  BY DEF TypeInv
<1>2. Limit(req) \in Nat /\ Limit(req) <= MaxLimit /\ req.vanish \in 0..MaxVanished
  BY <1>1, ReqFacts
<1>3. att <= vanished + Limit(req) + 1 /\ vanished <= req.vanish
  BY DEF BudgetInv
<1> QED
  BY <1>1, <1>2, <1>3, DirAssumption DEF Attempts

\* An attempt that has not ended has reported nothing.
LEMMA EmptyResult ==
  ASSUME NEW c \in Int
  PROVE  [exitCode |-> c, stdErr |-> <<>>] \in Result
<1>1. <<>> \in Seq(SUBSET STRING)
  OBVIOUS
<1> QED
  BY <1>1 DEF Result

(* The code that ends the copy for a message of rsync.                      *)
LEMMA StderrCode ==
  ASSUME res \in Result, FromStderr.ok
  PROVE  /\ FromStderr.code \in Int
         /\ FromStderr.code # ErrRetryLimit /\ FromStderr.code # Succeed
<1>1. res.stdErr \in Seq(SUBSET STRING)
  BY DEF Result
<1>2. FromStderr.code \in stdExitCodes
  BY <1>1, StderrCodes, Zenon DEF FromStderr
<1>3. FromStderr.code \in 2..122
  BY <1>2, StdCodes, Zenon
<1>4. \A c \in 2..122 : c \in Int /\ c # ErrRetryLimit /\ c # Succeed
  BY DEF ErrRetryLimit, Succeed
<1> QED
  BY <1>3, <1>4, Zenon

(* The code of a failed attempt is a number other than 0.                   *)
LEMMA FailureCode ==
  ASSUME res \in Result
  PROVE  /\ ExitCodeConvert(res.exitCode) \in Int
         /\ ExitCodeConvert(res.exitCode) # ErrRetryLimit
         /\ res.exitCode # ErrOK => ExitCodeConvert(res.exitCode) # Succeed
BY ConvertedCodes DEF Result, ErrRetryLimit

----------------------------------------------------------------------------
(* Each step keeps the types.                                               *)
LEMMA TypeStep ==
  ASSUME TypeInv, [Next]_vars
  PROVE  TypeInv'
<1> USE DEF TypeInv, runVars, attemptVars, rsyncVars, readerVars, reportVars
<1>1. CASE GiveUp
  BY <1>1, FailureCode
     DEF GiveUp, reportStderr, ErrRetryLimit
<1>2. CASE BeginAttempt
  <2>1. reader' \in [Attempts -> {"none", "check", "read", "storeCur",
                                  "storeTot", "ended"}]
    BY <1>2 DEF BeginAttempt
  <2>2. reporter' \in [Attempts -> {"none", "new", "select", "load", "post",
                                    "ended"}]
    BY <1>2 DEF BeginAttempt
  <2> QED
    BY <1>2, <2>1, <2>2 DEF BeginAttempt
<1>3. CASE CreatePipeFails
  <2>1. [exitCode |-> ErrCreatePipe, stdErr |-> <<>>] \in Result
    BY EmptyResult DEF ErrCreatePipe
  <2> QED
    BY <1>3, <2>1 DEF CreatePipeFails
<1>4. CASE Start
  <2>1. [exitCode |-> ErrStartCmd, stdErr |-> <<>>] \in Result
    BY EmptyResult DEF ErrStartCmd
  <2> QED
    BY <1>4, <2>1 DEF Start
<1>5. CASE Wait
  <2>1. res' \in Result
    BY <1>5 DEF Wait, Result, ErrWaitProcess
  <2>2. PICK kept \in 0..Len(pipe[att]) :
          pipe' = [pipe EXCEPT ![att] = SubSeq(pipe[att], 1, kept)]
    BY <1>5 DEF Wait
  <2>3. att \in Attempts => SubSeq(pipe[att], 1, kept) \in Seq(LineKinds)
    OBVIOUS
  <2>4. pipe' \in [Attempts -> Seq(LineKinds)]
    BY <2>2, <2>3
  <2> QED
    BY <1>5, <2>1, <2>4 DEF Wait
<1>6. CASE JudgeSuccess
  BY <1>6
     DEF JudgeSuccess, Return, Succeed
<1>7. CASE JudgeVanished
  BY <1>7
     DEF JudgeVanished, KeepRetryNum, Vanished
<1>8. CASE JudgeStderr
  <2>1. FromStderr.ok /\ res \in Result
    BY <1>8 DEF JudgeStderr
  <2>2. FromStderr.code \in Int
    BY <2>1, StderrCode, Zenon
  <2> QED
    BY <1>8, <2>2 DEF JudgeStderr, Return
<1>9. CASE JudgeUnRecoverable
  BY <1>9, FailureCode
     DEF JudgeUnRecoverable, Return, reportStderr, Vanished
<1>10. CASE JudgeRetry
  BY <1>10
     DEF JudgeRetry, Vanished
<1>11. CASE ProcessExit
  BY <1>11
     DEF ProcessExit
<1>12. CASE RsyncPrints
  BY <1>12
     DEF RsyncPrints
<1>13. CASE RsyncWrites
  <2>1. PICK k \in req.kinds : pipe' = [pipe EXCEPT ![att] = Append(@, k)]
    BY <1>13 DEF RsyncWrites
  <2>2. k \in LineKinds
    BY ReqFacts
  <2>3. att \in Attempts => Append(pipe[att], k) \in Seq(LineKinds)
    BY <2>2
  <2>4. pipe' \in [Attempts -> Seq(LineKinds)]
    BY <2>1, <2>3
  <2> QED
    BY <1>13, <2>4 DEF RsyncWrites
<1>14. CASE RsyncExits
  BY <1>14, ReqFacts, ResultAssumption
     DEF RsyncExits, Result
<1>15. ASSUME NEW a \in Attempts, ReaderChecks(a)
       PROVE  TypeInv'
  BY <1>15
     DEF ReaderChecks
<1>16. ASSUME NEW a \in Attempts, ReaderReads(a)
       PROVE  TypeInv'
  <2>1. pipe[a] # <<>> /\ pipe[a] \in Seq(LineKinds)
    BY <1>16 DEF ReaderReads
  <2>2. Tail(pipe[a]) \in Seq(LineKinds)
    BY <2>1
  <2>3. pipe' \in [Attempts -> Seq(LineKinds)]
    BY <1>16, <2>2 DEF ReaderReads
  <2>4. inHand' \in [Attempts -> Nat]
    BY <1>16 DEF ReaderReads
  <2>5. reader' \in [Attempts -> {"none", "check", "read", "storeCur",
                                  "storeTot", "ended"}]
    BY <1>16 DEF ReaderReads, AfterSkipped
  <2> QED
    BY <1>16, <2>3, <2>4, <2>5 DEF ReaderReads
<1>17. ASSUME NEW a \in Attempts, ReaderEnds(a)
       PROVE  TypeInv'
  BY <1>17
     DEF ReaderEnds
<1>18. ASSUME NEW a \in Attempts, StoreCur(a)
       PROVE  TypeInv'
  BY <1>18
     DEF StoreCur, Word
<1>19. ASSUME NEW a \in Attempts, StoreTot(a)
       PROVE  TypeInv'
  BY <1>19
     DEF StoreTot, Word
<1>20. ASSUME NEW a \in Attempts, ReporterBegins(a)
       PROVE  TypeInv'
  BY <1>20
     DEF ReporterBegins
<1>21. ASSUME NEW a \in Attempts, ReporterEnds(a)
       PROVE  TypeInv'
  BY <1>21
     DEF ReporterEnds
<1>22. ASSUME NEW a \in Attempts, ReporterTicks(a)
       PROVE  TypeInv'
  BY <1>22
     DEF ReporterTicks, Load, LoadOrder, Word, Numbers
<1>23. ASSUME NEW a \in Attempts, ReporterLoads(a)
       PROVE  TypeInv'
  BY <1>23
     DEF ReporterLoads, Load, LoadOrder, Word, Numbers
<1>24. ASSUME NEW a \in Attempts, ReporterPosts(a)
       PROVE  TypeInv'
  BY <1>24
     DEF ReporterPosts, NoNumbers, Numbers
<1>25. CASE UNCHANGED vars
  BY <1>25 DEF vars
<1> QED
  BY <1>1, <1>2, <1>3, <1>4, <1>5, <1>6, <1>7, <1>8, <1>9, <1>10, <1>11,
     <1>12, <1>13, <1>14, <1>15, <1>16, <1>17, <1>18, <1>19, <1>20, <1>21,
     <1>22, <1>23, <1>24, <1>25
     DEF Next, RunStep, RsyncStep, ReaderStep, ReporterStep, Terminated

(* Each step keeps the account of the attempts.                             *)
LEMMA BudgetStep ==
  ASSUME TypeInv, BudgetInv, [Next]_vars
  PROVE  BudgetInv'
<1> USE DEF BudgetInv, RetriesSpent, NoStderrCode, FromStderr, Vanished,
            runVars, attemptVars, rsyncVars, readerVars, reportVars
<1>a. /\ req \in Reqs /\ currentRetryNum \in Nat /\ att \in Nat
      /\ vanished \in Nat
      /\ pc \in {"loop", "start", "wait", "judge", "done", "exited", "panic"}
      /\ rsync \in {"none", "running", "writing", "exited"}
  BY DEF TypeInv
<1>b. Limit(req) \in Nat /\ req.vanish \in Nat
  BY <1>a, ReqFacts, DirAssumption
<1>1. CASE GiveUp
  BY <1>1, <1>a, <1>b
     DEF GiveUp, reportStderr
<1>2. CASE BeginAttempt
  BY <1>2, <1>a, <1>b
     DEF BeginAttempt
<1>3. CASE CreatePipeFails
  BY <1>3, <1>a, <1>b
     DEF CreatePipeFails, ErrCreatePipe, ErrVanished
<1>4. CASE Start
  BY <1>4, <1>a, <1>b
     DEF Start, ErrStartCmd, ErrVanished
<1>5. CASE Wait
  BY <1>5, <1>a, <1>b
     DEF Wait, ErrWaitProcess, ErrVanished
<1>6. CASE JudgeSuccess
  BY <1>6, <1>a, <1>b
     DEF JudgeSuccess, Return
<1>7. CASE JudgeVanished
  BY <1>7, <1>a, <1>b
     DEF JudgeVanished, KeepRetryNum
<1>8. CASE JudgeStderr
  BY <1>8, <1>a, <1>b
     DEF JudgeStderr, Return
<1>9. CASE JudgeUnRecoverable
  BY <1>9, <1>a, <1>b
     DEF JudgeUnRecoverable, Return
<1>10. CASE JudgeRetry
  BY <1>10, <1>a, <1>b
     DEF JudgeRetry
<1>11. CASE ProcessExit
  BY <1>11, <1>a, <1>b
     DEF ProcessExit
<1>12. CASE RsyncPrints
  BY <1>12, <1>a, <1>b
     DEF RsyncPrints, Alive
<1>13. CASE RsyncWrites
  BY <1>13, <1>a, <1>b
     DEF RsyncWrites, Alive
<1>14. CASE RsyncExits
  BY <1>14, <1>a, <1>b
     DEF RsyncExits, Alive
<1>15. ASSUME NEW a \in Attempts, ReaderChecks(a)
       PROVE  BudgetInv'
  BY <1>15, <1>a, <1>b
     DEF ReaderChecks, Alive
<1>16. ASSUME NEW a \in Attempts, ReaderReads(a)
       PROVE  BudgetInv'
  BY <1>16, <1>a, <1>b
     DEF ReaderReads, Alive
<1>17. ASSUME NEW a \in Attempts, ReaderEnds(a)
       PROVE  BudgetInv'
  BY <1>17, <1>a, <1>b
     DEF ReaderEnds, Alive
<1>18. ASSUME NEW a \in Attempts, StoreCur(a)
       PROVE  BudgetInv'
  BY <1>18, <1>a, <1>b
     DEF StoreCur, Alive
<1>19. ASSUME NEW a \in Attempts, StoreTot(a)
       PROVE  BudgetInv'
  BY <1>19, <1>a, <1>b
     DEF StoreTot, Alive
<1>20. ASSUME NEW a \in Attempts, ReporterBegins(a)
       PROVE  BudgetInv'
  BY <1>20, <1>a, <1>b
     DEF ReporterBegins, Alive
<1>21. ASSUME NEW a \in Attempts, ReporterEnds(a)
       PROVE  BudgetInv'
  BY <1>21, <1>a, <1>b
     DEF ReporterEnds, Alive
<1>22. ASSUME NEW a \in Attempts, ReporterTicks(a)
       PROVE  BudgetInv'
  BY <1>22, <1>a, <1>b
     DEF ReporterTicks, Alive
<1>23. ASSUME NEW a \in Attempts, ReporterLoads(a)
       PROVE  BudgetInv'
  BY <1>23, <1>a, <1>b
     DEF ReporterLoads, Alive
<1>24. ASSUME NEW a \in Attempts, ReporterPosts(a)
       PROVE  BudgetInv'
  BY <1>24, <1>a, <1>b
     DEF ReporterPosts, Alive
<1>25. CASE UNCHANGED vars
  BY <1>25 DEF vars
<1> QED
  BY <1>1, <1>2, <1>3, <1>4, <1>5, <1>6, <1>7, <1>8, <1>9, <1>10, <1>11,
     <1>12, <1>13, <1>14, <1>15, <1>16, <1>17, <1>18, <1>19, <1>20, <1>21,
     <1>22, <1>23, <1>24, <1>25
     DEF Next, RunStep, RsyncStep, ReaderStep, ReporterStep, Terminated

(* Each step keeps the agreement of the code, the reports and the last      *)
(* attempt.                                                                 *)
LEMMA VerdictStep ==
  ASSUME TypeInv, BudgetInv, VerdictInv, [Next]_vars
  PROVE  VerdictInv'
<1> USE DEF VerdictInv, NoFalseSuccess, UnexplainedFailureIsReported,
            NoStderrCode, FromStderr, Vanished, runVars, attemptVars,
            rsyncVars, readerVars, reportVars
<1>a. /\ req \in Reqs /\ currentRetryNum \in Nat /\ att \in Nat
      /\ vanished \in Nat /\ res \in Result /\ stderrReports \in Seq(Int)
      /\ pc \in {"loop", "start", "wait", "judge", "done", "exited", "panic"}
  BY DEF TypeInv
<1>b. Limit(req) \in Nat
  BY <1>a, ReqFacts
<1>1. CASE GiveUp
  <2>1. /\ att = vanished + Limit(req) + 1 /\ res.exitCode # ErrOK
        /\ NoStderrCode /\ stderrReports = <<>>
    BY <1>1, <1>a, <1>b DEF GiveUp, BudgetInv, RetriesSpent
  <2>2. finalExitCode' = 208 /\ req' = req
    BY <1>1 DEF GiveUp, ErrRetryLimit
  <2>3. req.stderr => /\ stderrReports' # <<>>
                      /\ stderrReports'[Len(stderrReports')] = 208
    BY <1>1, <2>1 DEF GiveUp, reportStderr, ErrRetryLimit
  <2> QED
    BY <1>1, <2>1, <2>2, <2>3 DEF GiveUp, Succeed, ErrRetryLimit
<1>2. CASE BeginAttempt
  BY <1>2, <1>a, <1>b
     DEF BeginAttempt
<1>3. CASE CreatePipeFails
  BY <1>3, <1>a, <1>b
     DEF CreatePipeFails, ErrCreatePipe, ErrVanished
<1>4. CASE Start
  BY <1>4, <1>a, <1>b
     DEF Start, ErrStartCmd, ErrVanished
<1>5. CASE Wait
  BY <1>5, <1>a, <1>b
     DEF Wait, ErrWaitProcess, ErrVanished
<1>6. CASE JudgeSuccess
  BY <1>6, <1>a, <1>b
     DEF JudgeSuccess, Return, Succeed, ErrRetryLimit
<1>7. CASE JudgeVanished
  BY <1>7, <1>a, <1>b
     DEF JudgeVanished, KeepRetryNum
<1>8. CASE JudgeStderr
  <2>1. FromStderr.ok /\ res \in Result
    BY <1>8, <1>a DEF JudgeStderr
  <2>2. FromStderr.code # ErrRetryLimit /\ FromStderr.code # Succeed
    BY <2>1, StderrCode, Zenon
  <2>3. ~ NoStderrCode
    BY <1>8 DEF JudgeStderr
  <2> QED
    BY <1>8, <2>2, <2>3 DEF JudgeStderr, Return
<1>9. CASE JudgeUnRecoverable
  <2> DEFINE code == ExitCodeConvert(res.exitCode)
  <2>1. code \in Int /\ code # Succeed /\ code # ErrRetryLimit
    BY <1>9, <1>a, FailureCode DEF JudgeUnRecoverable
  <2>2. /\ pc' = "done" /\ finalExitCode' = code
        /\ req' = req /\ res' = res /\ NoStderrCode
    BY <1>9 DEF JudgeUnRecoverable, Return
  <2>3. req.stderr => /\ stderrReports' # <<>>
                      /\ stderrReports'[Len(stderrReports')] = code
    BY <1>9, <1>a, <2>1 DEF JudgeUnRecoverable, reportStderr
  <2> HIDE DEF code
  <2> QED
    BY <2>1, <2>2, <2>3
<1>10. CASE JudgeRetry
  BY <1>10, <1>a, <1>b
     DEF JudgeRetry
<1>11. CASE ProcessExit
  BY <1>11, <1>a, <1>b
     DEF ProcessExit
<1>12. CASE RsyncPrints
  BY <1>12, <1>a, <1>b
     DEF RsyncPrints, Alive
<1>13. CASE RsyncWrites
  BY <1>13, <1>a, <1>b
     DEF RsyncWrites, Alive
<1>14. CASE RsyncExits
  BY <1>14, <1>a, <1>b
     DEF RsyncExits, Alive
<1>15. ASSUME NEW a \in Attempts, ReaderChecks(a)
       PROVE  VerdictInv'
  BY <1>15, <1>a, <1>b
     DEF ReaderChecks, Alive
<1>16. ASSUME NEW a \in Attempts, ReaderReads(a)
       PROVE  VerdictInv'
  BY <1>16, <1>a, <1>b
     DEF ReaderReads, Alive
<1>17. ASSUME NEW a \in Attempts, ReaderEnds(a)
       PROVE  VerdictInv'
  BY <1>17, <1>a, <1>b
     DEF ReaderEnds, Alive
<1>18. ASSUME NEW a \in Attempts, StoreCur(a)
       PROVE  VerdictInv'
  BY <1>18, <1>a, <1>b
     DEF StoreCur, Alive
<1>19. ASSUME NEW a \in Attempts, StoreTot(a)
       PROVE  VerdictInv'
  BY <1>19, <1>a, <1>b
     DEF StoreTot, Alive
<1>20. ASSUME NEW a \in Attempts, ReporterBegins(a)
       PROVE  VerdictInv'
  BY <1>20, <1>a, <1>b
     DEF ReporterBegins, Alive
<1>21. ASSUME NEW a \in Attempts, ReporterEnds(a)
       PROVE  VerdictInv'
  BY <1>21, <1>a, <1>b
     DEF ReporterEnds, Alive
<1>22. ASSUME NEW a \in Attempts, ReporterTicks(a)
       PROVE  VerdictInv'
  BY <1>22, <1>a, <1>b
     DEF ReporterTicks, Alive
<1>23. ASSUME NEW a \in Attempts, ReporterLoads(a)
       PROVE  VerdictInv'
  BY <1>23, <1>a, <1>b
     DEF ReporterLoads, Alive
<1>24. ASSUME NEW a \in Attempts, ReporterPosts(a)
       PROVE  VerdictInv'
  BY <1>24, <1>a, <1>b
     DEF ReporterPosts, Alive
<1>25. CASE UNCHANGED vars
  BY <1>25 DEF vars
<1> QED
  BY <1>1, <1>2, <1>3, <1>4, <1>5, <1>6, <1>7, <1>8, <1>9, <1>10, <1>11,
     <1>12, <1>13, <1>14, <1>15, <1>16, <1>17, <1>18, <1>19, <1>20, <1>21,
     <1>22, <1>23, <1>24, <1>25
     DEF Next, RunStep, RsyncStep, ReaderStep, ReporterStep, Terminated

(* Each step keeps the account of the lines.                                *)
LEMMA PipeStep ==
  ASSUME TypeInv, BudgetInv, PipeInv, [Next]_vars
  PROVE  PipeInv'
<1> USE DEF PipeInv, runVars, attemptVars, rsyncVars, readerVars, reportVars
<1>a. /\ req \in Reqs /\ att \in Nat /\ printed \in Nat
      /\ pipe \in [Attempts -> Seq(LineKinds)]
      /\ inHand \in [Attempts -> Nat]
      /\ DOMAIN reader = Attempts /\ DOMAIN reporter = Attempts
      /\ rsync \in {"none", "running", "writing", "exited"}
  BY DEF TypeInv
<1>b. req.lines \in [Attempts -> 0..MaxLines] /\ MaxLines \in Nat
  BY <1>a, ReqFacts, DirAssumption
<1>c. rsync # "none" => att \in Attempts /\ pc \in {"wait", "panic"}
  BY <1>a, AttRange DEF BudgetInv
<1>d. \A b \in Attempts : b \in Nat /\ b >= 1
  BY DirAssumption DEF Attempts
<1>1. CASE GiveUp
  BY <1>1, <1>a, <1>b, <1>c, <1>d
     DEF GiveUp, reportStderr
<1>2. CASE BeginAttempt
  BY <1>2, <1>a, <1>b, <1>c, <1>d
     DEF BeginAttempt, RetriesSpent
<1>3. CASE CreatePipeFails
  BY <1>3, <1>a, <1>b, <1>c, <1>d
     DEF CreatePipeFails, ErrCreatePipe, ErrVanished
<1>4. CASE Start
  <2>1. att \in Attempts
    BY <1>4, <1>a, AttRange DEF Start, BudgetInv
  <2>2. inHand[att] = 0 /\ pipe[att] = <<>> /\ Len(<<>>) = 0
    BY <1>4, <2>1 DEF Start
  <2>3. inHand'[att] + Len(pipe'[att]) <= printed' /\ printed' = 0
    BY <1>4, <2>2 DEF Start
  <2>4. rsync' # "writing" /\ att' = att
    BY <1>4, <1>c DEF Start
  <2> QED
    BY <1>4, <1>a, <1>b, <1>d, <2>3, <2>4 DEF Start
<1>5. CASE Wait
  <2>1. PICK kept \in 0..Len(pipe[att]) :
          pipe' = [pipe EXCEPT ![att] = SubSeq(pipe[att], 1, kept)]
    BY <1>5 DEF Wait
  <2>2. att \in Attempts
    BY <1>5, <1>a, AttRange DEF Wait, BudgetInv
  <2>3. Len(SubSeq(pipe[att], 1, kept)) = kept /\ kept <= Len(pipe[att])
    BY <1>a, <2>2
  <2>4. \A b \in Attempts : Len(pipe'[b]) <= Len(pipe[b]) /\ Len(pipe'[b]) \in Nat
    BY <1>a, <2>1, <2>2, <2>3
  <2>5. \A b \in Attempts : b > att => pipe'[b] = pipe[b]
    BY <1>a, <2>1, <2>2 DEF Attempts
  <2>6. \A b \in Attempts : Len(pipe[b]) \in Nat /\ inHand[b] \in Nat
    BY <1>a
  <2>7. /\ att' = att /\ inHand' = inHand /\ reader' = reader
        /\ reporter' = reporter /\ printed' = printed
        /\ pc' = "judge" /\ rsync' = "none"
    BY <1>5 DEF Wait
  <2>8. \A b \in Attempts : /\ Len(pipe'[b]) <= PipeCap
                            /\ inHand'[b] + Len(pipe'[b]) <= MaxLines
    BY <1>b, <2>4, <2>6, <2>7, DirAssumption
  <2> QED
    BY <2>5, <2>7, <2>8
<1>6. CASE JudgeSuccess
  BY <1>6, <1>a, <1>b, <1>c, <1>d
     DEF JudgeSuccess, Return
<1>7. CASE JudgeVanished
  BY <1>7, <1>a, <1>b, <1>c, <1>d
     DEF JudgeVanished, KeepRetryNum
<1>8. CASE JudgeStderr
  BY <1>8, <1>a, <1>b, <1>c, <1>d
     DEF JudgeStderr, Return
<1>9. CASE JudgeUnRecoverable
  BY <1>9, <1>a, <1>b, <1>c, <1>d
     DEF JudgeUnRecoverable, Return
<1>10. CASE JudgeRetry
  BY <1>10, <1>a, <1>b, <1>c, <1>d
     DEF JudgeRetry
<1>11. CASE ProcessExit
  BY <1>11, <1>a, <1>b, <1>c, <1>d
     DEF ProcessExit
<1>12. CASE RsyncPrints
  BY <1>12, <1>a, <1>b, <1>c, <1>d
     DEF RsyncPrints, Alive
<1>13. CASE RsyncWrites
  <2>1. PICK k \in req.kinds : pipe' = [pipe EXCEPT ![att] = Append(@, k)]
    BY <1>13 DEF RsyncWrites
  <2>2. att \in Attempts
    BY <1>13, <1>a, AttRange DEF RsyncWrites, BudgetInv
  <2>3. /\ Len(Append(pipe[att], k)) = Len(pipe[att]) + 1
        /\ Len(pipe[att]) \in Nat
    BY <1>a, <2>2
  <2>4. pipe'[att] = Append(pipe[att], k)
    BY <1>a, <2>1, <2>2
  <2>5. \A b \in Attempts : b # att => pipe'[b] = pipe[b]
    BY <1>a, <2>1
  <2>6. printed < req.lines[att] /\ req.lines[att] <= MaxLines
    BY <1>13, <1>a, <1>b, <2>2 DEF RsyncWrites
  <2>7. pc # "start" /\ rsync # "none" /\ Len(pipe[att]) < PipeCap
    BY <1>13 DEF RsyncWrites, BudgetInv
  <2> QED
    BY <1>13, <1>a, <1>b, <2>2, <2>3, <2>4, <2>5, <2>6, <2>7, DirAssumption
       DEF RsyncWrites
<1>14. CASE RsyncExits
  BY <1>14, <1>a, <1>b, <1>c, <1>d
     DEF RsyncExits, Alive
<1>15. ASSUME NEW a \in Attempts, ReaderChecks(a)
       PROVE  PipeInv'
  BY <1>15, <1>a, <1>b, <1>c, <1>d
     DEF ReaderChecks, Alive
<1>16. ASSUME NEW a \in Attempts, ReaderReads(a)
       PROVE  PipeInv'
  <2>1. pipe[a] # <<>> /\ pipe[a] \in Seq(LineKinds)
    BY <1>16, <1>a DEF ReaderReads
  <2>2. /\ Len(Tail(pipe[a])) = Len(pipe[a]) - 1
        /\ Len(pipe[a]) \in Nat \ {0}
    BY <2>1
  <2>3. pipe'[a] = Tail(pipe[a]) /\ inHand'[a] \in {inHand[a], inHand[a] + 1}
    BY <1>16, <1>a DEF ReaderReads
  <2>4. \A b \in Attempts : b # a => /\ pipe'[b] = pipe[b]
                                     /\ inHand'[b] = inHand[b]
                                     /\ reader'[b] = reader[b]
    BY <1>16, <1>a DEF ReaderReads
  <2>5. ~ (a > att) /\ ~ (a = att /\ pc = "start")
    BY <1>16, <2>1 DEF ReaderReads
  <2>6. pc' \in {pc, "panic"} /\ reporter' = reporter /\ att' = att
    BY <1>16 DEF ReaderReads
  <2>7. \A b \in Attempts : /\ Len(pipe'[b]) <= Len(pipe[b])
                            /\ inHand'[b] + Len(pipe'[b]) <= inHand[b] + Len(pipe[b])
                            /\ Len(pipe[b]) \in Nat /\ Len(pipe'[b]) \in Nat
                            /\ inHand[b] \in Nat /\ inHand'[b] \in Nat
    <3>1. ASSUME NEW b \in Attempts, b # a
          PROVE  pipe'[b] = pipe[b] /\ inHand'[b] = inHand[b]
      BY <3>1, <2>4
    <3>2. \A b \in Attempts : Len(pipe[b]) \in Nat /\ inHand[b] \in Nat
      BY <1>a
    <3>3. /\ Len(pipe'[a]) = Len(pipe[a]) - 1 /\ Len(pipe'[a]) \in Nat
          /\ inHand'[a] <= inHand[a] + 1 /\ inHand'[a] \in Nat
      BY <2>2, <2>3, <3>2
    <3>4. TAKE b \in Attempts
    <3>5. CASE b = a
      BY <3>2, <3>3, <3>5
    <3>6. CASE b # a
      BY <3>1, <3>2, <3>6
    <3> QED
      BY <3>5, <3>6
  <2>8. rsync # "none" => att \in Attempts
    BY <1>a, AttRange DEF BudgetInv
  <2>9. rsync' # "none" => inHand'[att'] + Len(pipe'[att']) <= printed'
    <3>1. rsync' = rsync /\ printed' = printed
      BY <1>16 DEF ReaderReads
    <3>2. SUFFICES ASSUME rsync # "none"
                   PROVE  inHand'[att] + Len(pipe'[att]) <= printed
      BY <2>6, <3>1
    <3>3. inHand[att] + Len(pipe[att]) <= printed /\ att \in Attempts
      BY <2>8, <3>2
    <3> QED
      BY <1>a, <2>7, <3>3
  <2>10. /\ printed' <= MaxLines
         /\ rsync' = "writing" => printed' < req'.lines[att']
    BY <1>16 DEF ReaderReads
  <2>11. ASSUME NEW b \in Attempts
         PROVE  /\ Len(pipe'[b]) <= PipeCap
                /\ inHand'[b] + Len(pipe'[b]) <= MaxLines
    BY <1>b, <2>7, DirAssumption
  <2>12. ASSUME NEW b \in Attempts
         PROVE  /\ b > att' => reader'[b] = "none" /\ reporter'[b] = "none"
                /\ b > att' \/ (b = att' /\ pc' = "start")
                     => inHand'[b] = 0 /\ pipe'[b] = <<>>
    BY <2>4, <2>5, <2>6
  <2> QED
    BY <2>9, <2>10, <2>11, <2>12
<1>17. ASSUME NEW a \in Attempts, ReaderEnds(a)
       PROVE  PipeInv'
  BY <1>17, <1>a, <1>b, <1>c, <1>d
     DEF ReaderEnds, Alive
<1>18. ASSUME NEW a \in Attempts, StoreCur(a)
       PROVE  PipeInv'
  BY <1>18, <1>a, <1>b, <1>c, <1>d
     DEF StoreCur, Alive, Word
<1>19. ASSUME NEW a \in Attempts, StoreTot(a)
       PROVE  PipeInv'
  BY <1>19, <1>a, <1>b, <1>c, <1>d
     DEF StoreTot, Alive, Word
<1>20. ASSUME NEW a \in Attempts, ReporterBegins(a)
       PROVE  PipeInv'
  BY <1>20, <1>a, <1>b, <1>c, <1>d
     DEF ReporterBegins, Alive
<1>21. ASSUME NEW a \in Attempts, ReporterEnds(a)
       PROVE  PipeInv'
  BY <1>21, <1>a, <1>b, <1>c, <1>d
     DEF ReporterEnds, Alive
<1>22. ASSUME NEW a \in Attempts, ReporterTicks(a)
       PROVE  PipeInv'
  BY <1>22, <1>a, <1>b, <1>c, <1>d
     DEF ReporterTicks, Alive
<1>23. ASSUME NEW a \in Attempts, ReporterLoads(a)
       PROVE  PipeInv'
  BY <1>23, <1>a, <1>b, <1>c, <1>d
     DEF ReporterLoads, Alive
<1>24. ASSUME NEW a \in Attempts, ReporterPosts(a)
       PROVE  PipeInv'
  BY <1>24, <1>a, <1>b, <1>c, <1>d
     DEF ReporterPosts, Alive
<1>25. CASE UNCHANGED vars
  BY <1>25 DEF vars
<1> QED
  BY <1>1, <1>2, <1>3, <1>4, <1>5, <1>6, <1>7, <1>8, <1>9, <1>10, <1>11,
     <1>12, <1>13, <1>14, <1>15, <1>16, <1>17, <1>18, <1>19, <1>20, <1>21,
     <1>22, <1>23, <1>24, <1>25
     DEF Next, RunStep, RsyncStep, ReaderStep, ReporterStep, Terminated

(* Each step keeps the order of the stores and loads of the words.          *)
LEMMA WordStep ==
  ASSUME TypeInv, PipeInv, WordInv, [Next]_vars
  PROVE  WordInv'
<1> USE DEF WordInv, StoredInv, ReportedInv, Numbers, runVars, attemptVars,
            rsyncVars, readerVars, reportVars
<1>a. /\ att \in Nat
      /\ reader \in [Attempts -> {"none", "check", "read", "storeCur",
                                  "storeTot", "ended"}]
      /\ reporter \in [Attempts -> {"none", "new", "select", "load", "post",
                                    "ended"}]
      /\ inHand \in [Attempts -> Nat] /\ cur \in [Attempts -> Nat]
      /\ tot \in [Attempts -> Nat]
      /\ loaded \in [Attempts -> Numbers] /\ posted \in [Attempts -> Numbers]
  BY DEF TypeInv
<1>1. CASE GiveUp
  BY <1>1
     DEF GiveUp
<1>2. CASE BeginAttempt
  <2> SUFFICES ASSUME NEW b \in Attempts
               PROVE  StoredInv(b)' /\ ReportedInv(b)'
    OBVIOUS
  <2>1. CASE b # att + 1
    BY <1>2, <1>a, <2>1 DEF BeginAttempt
  <2>2. CASE b = att + 1
    <3>1. reader[b] = "none" /\ reporter[b] = "none"
      BY <1>a, <2>2 DEF PipeInv
    <3>2. reader'[b] \in {"none", "check"} /\ reporter'[b] \in {"none", "new"}
      BY <1>2, <1>a, <2>2, <3>1 DEF BeginAttempt
    <3> QED
      BY <1>2, <1>a, <3>1, <3>2 DEF BeginAttempt
  <2> QED
    BY <2>1, <2>2
<1>3. CASE CreatePipeFails
  BY <1>3
     DEF CreatePipeFails
<1>4. CASE Start
  BY <1>4
     DEF Start
<1>5. CASE Wait
  BY <1>5
     DEF Wait
<1>6. CASE JudgeSuccess
  BY <1>6
     DEF JudgeSuccess
<1>7. CASE JudgeVanished
  BY <1>7
     DEF JudgeVanished
<1>8. CASE JudgeStderr
  BY <1>8
     DEF JudgeStderr
<1>9. CASE JudgeUnRecoverable
  BY <1>9
     DEF JudgeUnRecoverable
<1>10. CASE JudgeRetry
  BY <1>10
     DEF JudgeRetry
<1>11. CASE ProcessExit
  BY <1>11
     DEF ProcessExit
<1>12. CASE RsyncPrints
  BY <1>12
     DEF RsyncPrints
<1>13. CASE RsyncWrites
  BY <1>13
     DEF RsyncWrites
<1>14. CASE RsyncExits
  BY <1>14
     DEF RsyncExits
<1>15. ASSUME NEW a \in Attempts, ReaderChecks(a)
       PROVE  WordInv'
  <2> SUFFICES ASSUME NEW b \in Attempts
               PROVE  StoredInv(b)' /\ ReportedInv(b)'
    OBVIOUS
  <2>1. CASE b # a
    BY <1>15, <1>a, <2>1
       DEF ReaderChecks
  <2>2. CASE b = a
    BY <1>15, <1>a, <2>2
       DEF ReaderChecks
  <2> QED
    BY <2>1, <2>2
<1>16. ASSUME NEW a \in Attempts, ReaderReads(a)
       PROVE  WordInv'
  <2> SUFFICES ASSUME NEW b \in Attempts
               PROVE  StoredInv(b)' /\ ReportedInv(b)'
    OBVIOUS
  <2>1. CASE b # a
    BY <1>16, <1>a, <2>1
       DEF ReaderReads, AfterSkipped
  <2>2. CASE b = a
    BY <1>16, <1>a, <2>2
       DEF ReaderReads, AfterSkipped
  <2> QED
    BY <2>1, <2>2
<1>17. ASSUME NEW a \in Attempts, ReaderEnds(a)
       PROVE  WordInv'
  <2> SUFFICES ASSUME NEW b \in Attempts
               PROVE  StoredInv(b)' /\ ReportedInv(b)'
    OBVIOUS
  <2>1. CASE b # a
    BY <1>17, <1>a, <2>1
       DEF ReaderEnds
  <2>2. CASE b = a
    BY <1>17, <1>a, <2>2
       DEF ReaderEnds
  <2> QED
    BY <2>1, <2>2
<1>18. ASSUME NEW a \in Attempts, StoreCur(a)
       PROVE  WordInv'
  <2> SUFFICES ASSUME NEW b \in Attempts
               PROVE  StoredInv(b)' /\ ReportedInv(b)'
    OBVIOUS
  <2>1. CASE b # a
    BY <1>18, <1>a, <2>1
       DEF StoreCur, Word
  <2>2. CASE b = a
    BY <1>18, <1>a, <2>2
       DEF StoreCur, Word
  <2> QED
    BY <2>1, <2>2
<1>19. ASSUME NEW a \in Attempts, StoreTot(a)
       PROVE  WordInv'
  <2> SUFFICES ASSUME NEW b \in Attempts
               PROVE  StoredInv(b)' /\ ReportedInv(b)'
    OBVIOUS
  <2>1. CASE b # a
    BY <1>19, <1>a, <2>1
       DEF StoreTot, Word
  <2>2. CASE b = a
    BY <1>19, <1>a, <2>2
       DEF StoreTot, Word
  <2> QED
    BY <2>1, <2>2
<1>20. ASSUME NEW a \in Attempts, ReporterBegins(a)
       PROVE  WordInv'
  <2> SUFFICES ASSUME NEW b \in Attempts
               PROVE  StoredInv(b)' /\ ReportedInv(b)'
    OBVIOUS
  <2>1. CASE b # a
    BY <1>20, <1>a, <2>1
       DEF ReporterBegins
  <2>2. CASE b = a
    BY <1>20, <1>a, <2>2
       DEF ReporterBegins
  <2> QED
    BY <2>1, <2>2
<1>21. ASSUME NEW a \in Attempts, ReporterEnds(a)
       PROVE  WordInv'
  <2> SUFFICES ASSUME NEW b \in Attempts
               PROVE  StoredInv(b)' /\ ReportedInv(b)'
    OBVIOUS
  <2>1. CASE b # a
    BY <1>21, <1>a, <2>1
       DEF ReporterEnds
  <2>2. CASE b = a
    BY <1>21, <1>a, <2>2
       DEF ReporterEnds
  <2> QED
    BY <2>1, <2>2
<1>22. ASSUME NEW a \in Attempts, ReporterTicks(a)
       PROVE  WordInv'
  <2> SUFFICES ASSUME NEW b \in Attempts
               PROVE  StoredInv(b)' /\ ReportedInv(b)'
    OBVIOUS
  <2>1. CASE b # a
    BY <1>22, <1>a, <2>1
       DEF ReporterTicks, Load, LoadOrder, Word, Numbers
  <2>2. CASE b = a
    BY <1>22, <1>a, <2>2
       DEF ReporterTicks, Load, LoadOrder, Word, Numbers
  <2> QED
    BY <2>1, <2>2
<1>23. ASSUME NEW a \in Attempts, ReporterLoads(a)
       PROVE  WordInv'
  <2> SUFFICES ASSUME NEW b \in Attempts
               PROVE  StoredInv(b)' /\ ReportedInv(b)'
    OBVIOUS
  <2>1. CASE b # a
    BY <1>23, <1>a, <2>1
       DEF ReporterLoads, Load, LoadOrder, Word, Numbers
  <2>2. CASE b = a
    BY <1>23, <1>a, <2>2
       DEF ReporterLoads, Load, LoadOrder, Word, Numbers
  <2> QED
    BY <2>1, <2>2
<1>24. ASSUME NEW a \in Attempts, ReporterPosts(a)
       PROVE  WordInv'
  <2> SUFFICES ASSUME NEW b \in Attempts
               PROVE  StoredInv(b)' /\ ReportedInv(b)'
    OBVIOUS
  <2>1. CASE b # a
    BY <1>24, <1>a, <2>1
       DEF ReporterPosts, NoNumbers, Numbers
  <2>2. CASE b = a
    BY <1>24, <1>a, <2>2
       DEF ReporterPosts, NoNumbers, Numbers
  <2> QED
    BY <2>1, <2>2
<1>25. CASE UNCHANGED vars
  BY <1>25 DEF vars
<1> QED
  BY <1>1, <1>2, <1>3, <1>4, <1>5, <1>6, <1>7, <1>8, <1>9, <1>10, <1>11,
     <1>12, <1>13, <1>14, <1>15, <1>16, <1>17, <1>18, <1>19, <1>20, <1>21,
     <1>22, <1>23, <1>24, <1>25
     DEF Next, RunStep, RsyncStep, ReaderStep, ReporterStep, Terminated

----------------------------------------------------------------------------
(* The inductive invariant: the account of the attempts bounds the words an *)
(* attempt may use, the account of the lines bounds the numbers in them.    *)
DirInv == TypeInv /\ BudgetInv /\ VerdictInv /\ PipeInv /\ WordInv

\* The invariant holds at first.
LEMMA InitInv == Init => DirInv
<1> SUFFICES ASSUME Init
             PROVE  DirInv
  OBVIOUS
<1>1. req \in Reqs /\ Limit(req) \in Nat /\ req.vanish \in Nat
  BY ReqFacts, DirAssumption DEF Init
<1>2. NoResult \in Result
  BY EmptyResult DEF NoResult, ErrOK
<1>3. TypeInv
  BY <1>1, <1>2 DEF Init, TypeInv, NoNumbers, Numbers, Empty
<1>4. BudgetInv
  BY <1>1 DEF Init, BudgetInv, RetriesSpent, Vanished, NoResult, ErrOK, ErrVanished
<1>5. VerdictInv
  BY DEF Init, VerdictInv, NoFalseSuccess, UnexplainedFailureIsReported
<1>6. PipeInv
  <2>1. Len(<<>>) = 0
    OBVIOUS
  <2> QED
    BY <2>1, DirAssumption DEF Init, PipeInv
<1>7. WordInv
  BY DEF Init, WordInv, StoredInv, ReportedInv, NoNumbers
<1> QED
  BY <1>3, <1>4, <1>5, <1>6, <1>7 DEF DirInv

\* Every step keeps it.
LEMMA InvStep == DirInv /\ [Next]_vars => DirInv'
BY TypeStep, BudgetStep, VerdictStep, PipeStep, WordStep DEF DirInv

(* Every state of a copy has the inductive invariant.                       *)
THEOREM DirInvariant == Spec => []DirInv
BY InitInv, InvStep, PTL DEF Spec

\* It gives the types.
LEMMA InvGivesType == DirInv => TypeOK
<1> SUFFICES ASSUME DirInv
             PROVE  TypeOK
  OBVIOUS
<1> USE DEF DirInv
<1>1. /\ req \in Reqs /\ currentRetryNum \in Nat /\ att \in Nat
      /\ vanished \in Nat /\ printed \in Nat
  BY DEF TypeInv
<1>2. /\ Limit(req) \in Nat /\ Limit(req) <= MaxLimit
      /\ req.vanish \in 0..MaxVanished
  BY <1>1, ReqFacts
<1>3. currentRetryNum \in 0..(MaxLimit + 1) /\ vanished \in 0..MaxVanished
  BY <1>1, <1>2, DirAssumption DEF BudgetInv
<1>4. printed \in 0..MaxLines
  BY <1>1, DirAssumption DEF PipeInv
<1>5. att \in {0} \cup Attempts
  BY <1>1, AttRange
<1>6. ASSUME NEW a \in Attempts
      PROVE  {cur[a], tot[a], inHand[a]} \subseteq 0..MaxLines
  <2>1. pipe[a] \in Seq(LineKinds)
    BY DEF TypeInv
  <2>2. Len(pipe[a]) \in Nat
    BY <2>1
  <2>3. cur[a] \in Nat /\ tot[a] \in Nat /\ inHand[a] \in Nat
    BY DEF TypeInv
  <2>4. inHand[a] + Len(pipe[a]) <= MaxLines
    BY DEF PipeInv
  <2>5. cur[a] <= inHand[a] /\ tot[a] <= inHand[a]
    BY <2>3 DEF WordInv, StoredInv
  <2> QED
    BY <2>2, <2>3, <2>4, <2>5, DirAssumption
<1>7. ASSUME NEW a \in Attempts
      PROVE  /\ Len(pipe[a]) <= PipeCap
             /\ a > att => reader[a] = "none" /\ reporter[a] = "none"
  BY DEF PipeInv
<1>8. res.exitCode \in Int /\ (rsync # "none" => pc \in {"wait", "panic"})
  BY DEF TypeInv, Result, BudgetInv
<1> QED
  BY <1>1, <1>3, <1>4, <1>5, <1>6, <1>7, <1>8 DEF TypeOK, TypeInv

(* Each variable keeps its type; in particular every attempt has words and  *)
(* a pipe of its own, and no number exceeds the lines of an attempt.        *)
THEOREM TypeCorrect == Spec => []TypeOK
BY DirInvariant, InvGivesType, PTL

(* rsync is started at most once more than there are retries, and code 208  *)
(* is returned only when all of them were used.                             *)
THEOREM RetryBudgetKept == Spec => []RetryBudget
<1>1. DirInv => RetryBudget
  <2> SUFFICES ASSUME DirInv
               PROVE  RetryBudget
    OBVIOUS
  <2>1. req \in Reqs /\ att \in Nat /\ vanished \in Nat
    BY DEF DirInv, TypeInv
  <2>2. Limit(req) \in Nat
    BY <2>1, ReqFacts
  <2> QED
    BY <2>1, <2>2 DEF DirInv, BudgetInv, VerdictInv, RetryBudget
<1> QED
  BY <1>1, DirInvariant, PTL

(* Run returns 0 only if the last rsync process ended with 0.               *)
THEOREM SuccessIsReal == Spec => []NoFalseSuccess
<1>1. DirInv => NoFalseSuccess
  BY DEF DirInv, VerdictInv
<1> QED
  BY <1>1, DirInvariant, PTL

(* A failure that rsync does not explain is reported with the code that Run *)
(* returns, and nothing else is.                                            *)
THEOREM FailuresReported == Spec => []UnexplainedFailureIsReported
<1>1. DirInv => UnexplainedFailureIsReported
  BY DEF DirInv, VerdictInv
<1> QED
  BY <1>1, DirInvariant, PTL

(* A report never pairs a number with a total older than that of the line   *)
(* before, although neither the stores nor the loads are atomic together.   *)
THEOREM ReportsConsistent == Spec => []ReportSkew
<1>1. DirInv => ReportSkew
  BY DEF DirInv, WordInv, ReportedInv, ReportSkew
<1> QED
  BY <1>1, DirInvariant, PTL

(* The reports of one attempt never go back.                                *)
THEOREM ReportsOnlyAdvance == Spec => ReportsNeverRecede
<1>1. ASSUME DirInv, [Next]_vars
      PROVE  \A a \in Attempts : /\ posted'[a].cur >= posted[a].cur
                                 /\ posted'[a].tot >= posted[a].tot
  <2>1. /\ posted \in [Attempts -> Numbers] /\ loaded \in [Attempts -> Numbers]
    BY <1>1 DEF DirInv, TypeInv
  <2>2. CASE UNCHANGED posted
    BY <2>1, <2>2 DEF Numbers
  <2>3. ASSUME NEW b \in Attempts, ReporterPosts(b)
        PROVE  \A a \in Attempts : /\ posted'[a].cur >= posted[a].cur
                                   /\ posted'[a].tot >= posted[a].tot
    <3>1. reporter[b] = "post" /\ ReportedInv(b)
      BY <1>1, <2>3 DEF ReporterPosts, DirInv, WordInv
    <3>2. loaded[b].cur >= posted[b].cur /\ loaded[b].tot >= posted[b].tot
      BY <2>1, <3>1 DEF ReportedInv, Numbers
    <3> QED
      BY <2>1, <2>3, <3>2 DEF ReporterPosts, Numbers
  <2>4. UNCHANGED posted \/ \E b \in Attempts : ReporterPosts(b)
    BY <1>1 DEF Next, RunStep, RsyncStep, ReaderStep, ReporterStep, Terminated,
       vars, runVars, attemptVars, rsyncVars, readerVars, reportVars,
       GiveUp, BeginAttempt, CreatePipeFails, Start, Wait, JudgeSuccess,
       JudgeVanished, JudgeStderr, JudgeUnRecoverable, JudgeRetry, ProcessExit,
       RsyncPrints, RsyncWrites, RsyncExits, ReaderChecks, ReaderReads,
       ReaderEnds, StoreCur, StoreTot, ReporterBegins, ReporterEnds,
       ReporterTicks, ReporterLoads
  <2> QED
    BY <2>2, <2>3, <2>4
<1> QED
  BY <1>1, DirInvariant, PTL DEF Spec, ReportsNeverRecede
==============================================================================
