------------------------------- MODULE DirRun -------------------------------
(****************************************************************************)
(* The copy of a directory: dir.Run starts rsync until it succeeds, fails   *)
(* for good or has used up its retries.  With -progress every attempt has   *)
(* two goroutines of its own: readStdout takes the lines rsync prints from  *)
(* a pipe and stores the two numbers of each in two shared words,           *)
(* reportProgress loads the words at every tick and posts them.  Both end   *)
(* some time after the attempt has ended, and may outlive it.               *)
(*                                                                          *)
(* A line of rsync is abstracted to its kind, and a number stored from it   *)
(* to its position among the progress lines of the attempt, so that a       *)
(* report shows which lines its two numbers were taken from.                *)
(****************************************************************************)
EXTENDS ExitCodes

CONSTANTS
  Reqs,           \* the requests considered, a subset of Req
  Results,        \* how an rsync process may end: its exit code and stderr
  LineKinds,      \* the kinds of lines rsync may print
  retryMaxLimit,  \* the number of retries when none is given
  MaxLimit,       \* bound: the largest number of retries of a request
  MaxVanished,    \* bound: how often rsync ends because files vanished
  MaxLines,       \* bound: lines rsync prints in one attempt
  PipeCap         \* lines that fit into the pipe

Attempts == 1..(MaxLimit + 1 + MaxVanished)

(* positive: -report-interval is a positive number of seconds.  lines,      *)
(* kinds, ends and vanish say what happens to it: how many lines of which   *)
(* kinds rsync may print in each attempt, how it may end, and how often     *)
(* because files vanished.                                                  *)
Req == [progress : BOOLEAN, stderr : BOOLEAN, positive : BOOLEAN, limit : Int,
        lines : [Attempts -> 0..MaxLines], kinds : SUBSET LineKinds, ends : SUBSET Results, vanish : 0..MaxVanished]

(* currentRetryLimit                                                        *)
Limit(r) == IF r.limit < 0 THEN retryMaxLimit ELSE r.limit

ASSUME DirAssumption ==
  /\ Reqs \subseteq Req
  /\ retryMaxLimit \in Nat /\ MaxLimit \in Nat /\ MaxVanished \in Nat
  /\ \A r \in Reqs : Limit(r) <= MaxLimit
  /\ MaxLines \in Nat /\ PipeCap \in Nat \ {0}

(* progress: "99-200"; skipped: empty, longer than the buffer, or with text *)
(* before its '-'; noDash: a line, or the rest of a long one, without '-'.  *)
ASSUME LineAssumption == LineKinds \subseteq {"progress", "skipped", "noDash"}

ASSUME ResultAssumption ==
  Results \subseteq [exitCode : Int, stdErr : Seq(SUBSET STRING)]

VARIABLES
  req,
  pc,               \* where Run and runRsync are
  currentRetryNum,
  res,              \* the result of the last attempt
  finalExitCode,
  stderrReports,    \* the codes reportStderr has posted
  rsync,            \* the process of the current attempt
  outcome,          \* how that process ended
  printed,          \* lines it has printed
  pipe,             \* its standard output, per attempt
  reader, inHand,   \* readStdout of each attempt, and the line it has parsed
  cur, tot,         \* curProgressNum and totalProgressNum of each attempt
  reporter, loaded, \* reportProgress of each attempt, and what it loaded
  posted,           \* the last report of each attempt that was delivered
  att,              \* ghost: attempts begun
  vanished          \* ghost: attempts not counted as retries

runVars     == <<req, currentRetryNum, finalExitCode, stderrReports, vanished>>
attemptVars == <<att, res>>
rsyncVars   == <<rsync, outcome, printed>>
readerVars  == <<reader, inHand, cur, tot>>
reportVars  == <<reporter, loaded, posted>>
vars == <<pc, runVars, attemptVars, rsyncVars, pipe, readerVars, reportVars>>

NoNumbers == [cur |-> 0, tot |-> 0]
NoResult == [exitCode |-> ErrOK, stdErr |-> <<>>]

Init ==
  /\ req \in Reqs
  /\ pc = "loop" /\ currentRetryNum = 0 /\ finalExitCode = Empty
  /\ res = NoResult /\ stderrReports = <<>>
  /\ rsync = "none" /\ outcome = NoResult /\ printed = 0
  /\ pipe = [a \in Attempts |-> <<>>]
  /\ reader = [a \in Attempts |-> "none"]
  /\ inHand = [a \in Attempts |-> 0]
  /\ cur = [a \in Attempts |-> 0] /\ tot = [a \in Attempts |-> 0]
  /\ reporter = [a \in Attempts |-> "none"]
  /\ loaded = [a \in Attempts |-> NoNumbers]
  /\ posted = [a \in Attempts |-> NoNumbers]
  /\ att = 0 /\ vanished = 0

----------------------------------------------------------------------------
(* Run, at the head of its loop.                                            *)
RetriesSpent == currentRetryNum > Limit(req)

(* The reports Run sends before it returns; it ignores their failure.       *)
reportFirst(codes) ==
  stderrReports' = IF req.stderr THEN <<codes[1]>> ELSE stderrReports
reportStderr(codes) ==
  stderrReports' = IF req.stderr THEN stderrReports \o codes ELSE stderrReports

GiveUp ==
  /\ pc = "loop" /\ RetriesSpent
  /\ reportStderr(<<ExitCodeConvert(res.exitCode), ErrRetryLimit>>)
  /\ finalExitCode' = ErrRetryLimit
  /\ pc' = "done"
  /\ UNCHANGED <<req, currentRetryNum, vanished, attemptVars, rsyncVars, pipe,
                 readerVars, reportVars>>

(* runRsync up to cmd.Start: the pipe and the two goroutines.               *)
BeginAttempt ==
  /\ pc = "loop" /\ ~RetriesSpent
  /\ att' = att + 1
  /\ pc' = "start"
  /\ IF req.progress
     THEN /\ reader' = [reader EXCEPT ![att + 1] = "check"]
          /\ reporter' = [reporter EXCEPT ![att + 1] = "new"]
     ELSE UNCHANGED <<reader, reporter>>
  /\ UNCHANGED <<res, runVars, rsyncVars, pipe, inHand, cur, tot, loaded, posted>>

(* cmd.StdoutPipe fails: no goroutine is started.                           *)
CreatePipeFails ==
  /\ pc = "loop" /\ ~RetriesSpent /\ req.progress
  /\ att' = att + 1
  /\ res' = [exitCode |-> ErrCreatePipe, stdErr |-> <<>>]
  /\ pc' = "judge"
  /\ UNCHANGED <<runVars, rsyncVars, pipe, readerVars, reportVars>>

Start ==
  /\ pc = "start"
  /\ \/ rsync' = "running" /\ pc' = "wait" /\ UNCHANGED res
     \/ /\ res' = [exitCode |-> ErrStartCmd, stdErr |-> <<>>]
        /\ pc' = "judge" /\ UNCHANGED rsync
  /\ printed' = 0
  /\ UNCHANGED <<outcome, att, runVars, pipe, readerVars, reportVars>>

(* cmd.Wait closes the pipe: of the lines not yet read, the reader keeps    *)
(* those that are in its buffer already.                                    *)
Wait ==
  /\ pc = "wait" /\ rsync = "exited"
  /\ \/ res' = outcome
     \/ res' = [exitCode |-> ErrWaitProcess, stdErr |-> outcome.stdErr]
  /\ rsync' = "none"
  /\ \E kept \in 0..Len(pipe[att]) :
       pipe' = [pipe EXCEPT ![att] = SubSeq(pipe[att], 1, kept)]
  /\ pc' = "judge"
  /\ UNCHANGED <<att, outcome, printed, runVars, readerVars, reportVars>>

----------------------------------------------------------------------------
(* Run, after an attempt.  A vanished file is looked for before the text of *)
(* stderr is, and costs no retry.                                           *)
Vanished == res.exitCode = ErrVanished

CodeOrZero == [ExitCodeConvertWithStderr(res.stdErr) EXCEPT !.ok = TRUE]
FromStderr == ExitCodeConvertWithStderr(res.stdErr)

Return(code) == finalExitCode' = code /\ pc' = "done"

JudgeSuccess ==
  /\ pc = "judge" /\ res.exitCode = ErrOK
  /\ Return(Succeed)
  /\ UNCHANGED <<req, currentRetryNum, stderrReports, vanished, attemptVars,
                 rsyncVars, pipe, readerVars, reportVars>>

CountVanished == currentRetryNum' = currentRetryNum + 1
KeepRetryNum  == currentRetryNum' = currentRetryNum

JudgeVanished ==
  /\ pc = "judge" /\ Vanished
  /\ vanished' = vanished + 1
  /\ KeepRetryNum
  /\ pc' = "loop"
  /\ UNCHANGED <<req, finalExitCode, stderrReports, attemptVars, rsyncVars, pipe,
                 readerVars, reportVars>>

(* A standard message in stderr decides at once, without any report.        *)
JudgeStderr ==
  /\ pc = "judge" /\ res.exitCode # ErrOK /\ ~Vanished
  /\ res.stdErr # <<>> /\ FromStderr.ok
  /\ Return(FromStderr.code)
  /\ UNCHANGED <<req, currentRetryNum, stderrReports, vanished, attemptVars,
                 rsyncVars, pipe, readerVars, reportVars>>

NoStderrCode == res.stdErr = <<>> \/ ~FromStderr.ok

JudgeUnRecoverable ==
  /\ pc = "judge" /\ res.exitCode # ErrOK /\ ~Vanished /\ NoStderrCode
  /\ IsErrUnRecoverable(res.exitCode)
  /\ Return(ExitCodeConvert(res.exitCode))
  /\ reportStderr(<<ExitCodeConvert(res.exitCode)>>)
  /\ UNCHANGED <<req, currentRetryNum, vanished, attemptVars, rsyncVars, pipe,
                 readerVars, reportVars>>

JudgeRetry ==
  /\ pc = "judge" /\ res.exitCode # ErrOK /\ ~Vanished /\ NoStderrCode
  /\ ~IsErrUnRecoverable(res.exitCode)
  /\ currentRetryNum' = currentRetryNum + 1
  /\ pc' = "loop"
  /\ UNCHANGED <<req, finalExitCode, stderrReports, vanished, attemptVars,
                 rsyncVars, pipe, readerVars, reportVars>>

(* main sleeps for five seconds and ends the process with every goroutine.  *)
ProcessExit ==
  /\ pc = "done"
  /\ pc' = "exited"
  /\ UNCHANGED <<runVars, attemptVars, rsyncVars, pipe, readerVars, reportVars>>

----------------------------------------------------------------------------
(* The rsync process: it prints, blocks in the middle of that while the     *)
(* pipe is full, and ends.                                                  *)
Alive == pc \notin {"exited", "panic"}

RsyncPrints ==
  /\ Alive /\ rsync = "running" /\ req.progress
  /\ printed < req.lines[att]
  /\ rsync' = "writing"
  /\ UNCHANGED <<pc, printed, outcome, pipe, runVars, attemptVars, readerVars,
                 reportVars>>

RsyncWrites ==
  /\ Alive /\ rsync = "writing"
  /\ Len(pipe[att]) < PipeCap
  /\ printed' = printed + 1
  /\ \E k \in req.kinds :
       pipe' = [pipe EXCEPT ![att] = Append(@, k)]
  /\ rsync' = "running"
  /\ UNCHANGED <<pc, outcome, runVars, attemptVars, readerVars, reportVars>>

RsyncExits ==
  /\ Alive /\ rsync = "running"
  /\ \E r \in req.ends :
       /\ r.exitCode = ErrVanished => vanished < req.vanish
       /\ outcome' = r
  /\ rsync' = "exited"
  /\ UNCHANGED <<pc, printed, pipe, runVars, attemptVars, readerVars, reportVars>>

----------------------------------------------------------------------------
(* The context of an attempt is cancelled when runRsync returns.            *)
Cancelled(a) == a < att \/ (a = att /\ pc \notin {"start", "wait"})

(* No process holds the writing end of the pipe any more.                   *)
WriteEndClosed(a) == Cancelled(a) \/ (a = att /\ rsync = "exited")

(* readStdout of attempt a.                                                 *)
ReaderChecks(a) ==
  /\ Alive /\ reader[a] = "check"
  /\ reader' = [reader EXCEPT ![a] = IF Cancelled(a) THEN "ended" ELSE "read"]
  /\ UNCHANGED <<pc, inHand, cur, tot, runVars, attemptVars, rsyncVars, pipe,
                 reportVars>>

(* What becomes of the reader with a line: progressParse slices the line up *)
(* to its '-', whether or not there is one.                                 *)
AfterBadLine == "ended"
AfterSkipped == "check"

ReaderReads(a) ==
  /\ Alive /\ reader[a] = "read" /\ pipe[a] # <<>>
  /\ pc' = IF Head(pipe[a]) = "noDash" THEN "panic" ELSE pc
  /\ IF Head(pipe[a]) = "progress"
     THEN /\ inHand' = [inHand EXCEPT ![a] = @ + 1]
          /\ reader' = [reader EXCEPT ![a] = "storeCur"]
     ELSE /\ reader' = [reader EXCEPT ![a] = AfterSkipped]
          /\ UNCHANGED inHand
  /\ pipe' = [pipe EXCEPT ![a] = Tail(@)]
  /\ UNCHANGED <<cur, tot, runVars, attemptVars, rsyncVars, reportVars>>

ReaderEnds(a) ==
  /\ Alive /\ reader[a] = "read" /\ pipe[a] = <<>> /\ WriteEndClosed(a)
  /\ reader' = [reader EXCEPT ![a] = "ended"]
  /\ UNCHANGED <<pc, inHand, cur, tot, runVars, attemptVars, rsyncVars, pipe,
                 reportVars>>

(* The words an attempt's goroutines share: allocated by each runRsync.     *)
OneWord(a) == 1
Word(a)    == a

(* The two numbers of a line are stored one after the other.                *)
StoreCur(a) ==
  /\ Alive /\ reader[a] = "storeCur"
  /\ cur' = [cur EXCEPT ![Word(a)] = inHand[a]]
  /\ reader' = [reader EXCEPT ![a] = "storeTot"]
  /\ UNCHANGED <<pc, inHand, tot, runVars, attemptVars, rsyncVars, pipe, reportVars>>

StoreTot(a) ==
  /\ Alive /\ reader[a] = "storeTot"
  /\ tot' = [tot EXCEPT ![Word(a)] = inHand[a]]
  /\ reader' = [reader EXCEPT ![a] = "check"]
  /\ UNCHANGED <<pc, inHand, cur, runVars, attemptVars, rsyncVars, pipe, reportVars>>

----------------------------------------------------------------------------
(* reportProgress of attempt a: a positive interval is not copied, and      *)
(* time.NewTicker panics on the zero that is left.                          *)
ReporterBegins(a) ==
  /\ Alive /\ reporter[a] = "new"
  /\ pc' = IF req.positive THEN "panic" ELSE pc
  /\ reporter' = [reporter EXCEPT ![a] = "select"]
  /\ UNCHANGED <<loaded, posted, runVars, attemptVars, rsyncVars, pipe, readerVars>>

ReporterEnds(a) ==
  /\ Alive /\ reporter[a] = "select" /\ Cancelled(a)
  /\ reporter' = [reporter EXCEPT ![a] = "ended"]
  /\ UNCHANGED <<pc, loaded, posted, runVars, attemptVars, rsyncVars, pipe,
                 readerVars>>

(* The two words are loaded one after the other, in the order of the stores.*)
TotalFirst == <<"tot", "cur">>
LoadOrder  == <<"cur", "tot">>

Load(a, which) ==
  [loaded[a] EXCEPT ![which] = IF which = "cur" THEN cur[Word(a)] ELSE tot[Word(a)]]

(* A tick; if the context is cancelled too, select picks either.            *)
ReporterTicks(a) ==
  /\ Alive /\ reporter[a] = "select"
  /\ loaded' = [loaded EXCEPT ![a] = Load(a, LoadOrder[1])]
  /\ reporter' = [reporter EXCEPT ![a] = "load"]
  /\ UNCHANGED <<pc, posted, runVars, attemptVars, rsyncVars, pipe, readerVars>>

ReporterLoads(a) ==
  /\ Alive /\ reporter[a] = "load"
  /\ loaded' = [loaded EXCEPT ![a] = Load(a, LoadOrder[2])]
  /\ reporter' = [reporter EXCEPT ![a] = "post"]
  /\ UNCHANGED <<pc, posted, runVars, attemptVars, rsyncVars, pipe, readerVars>>

(* rc.Report: the report arrives, or the failure is logged.  What was       *)
(* loaded is of no further use.                                             *)
ReporterPosts(a) ==
  /\ Alive /\ reporter[a] = "post"
  /\ posted' \in {posted, [posted EXCEPT ![a] = loaded[a]]}
  /\ loaded' = [loaded EXCEPT ![a] = NoNumbers]
  /\ reporter' = [reporter EXCEPT ![a] = "select"]
  /\ UNCHANGED <<pc, runVars, attemptVars, rsyncVars, pipe, readerVars>>

----------------------------------------------------------------------------
RunStep ==
  \/ GiveUp \/ BeginAttempt \/ CreatePipeFails \/ Start \/ Wait
  \/ JudgeSuccess \/ JudgeVanished \/ JudgeStderr \/ JudgeUnRecoverable
  \/ JudgeRetry \/ ProcessExit

RsyncStep == RsyncPrints \/ RsyncWrites \/ RsyncExits

ReaderStep(a) ==
  \/ ReaderChecks(a) \/ ReaderReads(a) \/ ReaderEnds(a)
  \/ StoreCur(a) \/ StoreTot(a)

ReporterStep(a) ==
  \/ ReporterBegins(a) \/ ReporterEnds(a) \/ ReporterTicks(a)
  \/ ReporterLoads(a) \/ ReporterPosts(a)

Terminated == ~Alive /\ UNCHANGED vars

Next ==
  \/ RunStep \/ RsyncStep
  \/ \E a \in Attempts : ReaderStep(a) \/ ReporterStep(a)
  \/ Terminated

Spec == Init /\ [][Next]_vars

(* The Go scheduler runs every goroutine that can run, and rsync ends when  *)
(* it can; no tick and no end of a reporter is needed for that.             *)
FairSpec ==
  /\ Spec
  /\ WF_vars(RunStep) /\ WF_vars(RsyncWrites) /\ WF_vars(RsyncExits)
  /\ \A a \in Attempts : WF_vars(ReaderStep(a))

----------------------------------------------------------------------------
(* Each variable within its type; no attempt beyond the ones there are      *)
(* words for, no reader without an attempt, and no process of an attempt    *)
(* that has been judged.                                                    *)
TypeOK ==
  /\ req \in Reqs
  /\ pc \in {"loop", "start", "wait", "judge", "done", "exited", "panic"}
  /\ currentRetryNum \in 0..(MaxLimit + 1)
  /\ res.exitCode \in Int /\ finalExitCode \in Int
  /\ rsync \in {"none", "running", "writing", "exited"} /\ printed \in 0..MaxLines
  /\ rsync # "none" => pc \in {"wait", "panic"}
  /\ att \in {0} \cup Attempts /\ vanished \in 0..MaxVanished
  /\ \A a \in Attempts :
       /\ Len(pipe[a]) <= PipeCap
       /\ reader[a] \in {"none", "check", "read", "storeCur", "storeTot", "ended"}
       /\ reporter[a] \in {"none", "new", "select", "load", "post", "ended"}
       /\ a > att => reader[a] = "none" /\ reporter[a] = "none"
       /\ {cur[a], tot[a], inHand[a]} \subseteq 0..MaxLines

(* rsync is started at most once more than there are retries, attempts that *)
(* ended because files vanished aside; exit code 208 (ErrRetryLimit) means  *)
(* that all of them were used and the last one failed.                      *)
RetryBudget ==
  /\ att - vanished <= Limit(req) + 1
  /\ pc = "done" /\ finalExitCode = ErrRetryLimit =>
       att - vanished = Limit(req) + 1 /\ res.exitCode # ErrOK

(* Run returns 0 only if the last rsync process ended with 0.               *)
NoFalseSuccess == pc = "done" /\ finalExitCode = Succeed => res.exitCode = ErrOK

(* With -stderr, a failure that no message of rsync explains is reported,   *)
(* last with the code that Run returns; neither the attempts that are       *)
(* repeated nor a success after them are.                                   *)
UnexplainedFailureIsReported ==
  pc = "done" /\ req.stderr =>
    IF finalExitCode # Succeed /\ NoStderrCode
    THEN stderrReports # <<>> /\ stderrReports[Len(stderrReports)] = finalExitCode
    ELSE stderrReports = <<>>

(* Stores and loads of the two words are not atomic together, but a report  *)
(* never pairs a current number with a total that is older than that of the *)
(* line just before.                                                        *)
ReportSkew == \A a \in Attempts : posted[a].tot >= posted[a].cur - 1

(* The reports of one attempt never go back, however late its goroutines    *)
(* run, and although those of the next attempt start again from zero.       *)
ReportsNeverRecede ==
  [][\A a \in Attempts : /\ posted'[a].cur >= posted[a].cur
                         /\ posted'[a].tot >= posted[a].tot]_vars

(* Run ends: the reader keeps taking lines until rsync has ended, so that   *)
(* rsync is never left waiting on a full pipe and cmd.Wait on rsync.        *)
RunTerminates == <>(pc \in {"exited", "panic"})

=============================================================================
