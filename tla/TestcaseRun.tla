---------------------------- MODULE TestcaseRun ----------------------------
(***************************************************************************)
(* The test cases of one submission.  The server (testcases.go,            *)
(* supervisor_executor.go) starts one `docker exec` of the supervisor      *)
(* (cmd/yexsupervisor) in the sandbox, waits for it until a budget of wall *)
(* time runs out, decodes the results it printed and turns them into a     *)
(* verdict.  The supervisor runs one program per case and cleans up after  *)
(* it.  They are two processes: the server can stop waiting while the      *)
(* supervisor, and what the program left behind, go on in the container.   *)
(*                                                                         *)
(* Times are milliseconds, memory is in KB as wait4 reports it.            *)
(***************************************************************************)
EXTENDS Integers, Sequences, FiniteSets, FiniteSetsExt

CONSTANTS Cases,           \* len(job.TestCases)
          TimeLimitMs,     \* job.Limits.TimeLimitMs
          MemoryLimitMb,   \* job.Limits.MemoryLimitMb
          Cpus,            \* CPU times a program may take
          Walls,           \* wall times of programs that end by themselves
          Rss,             \* memory a program may take
          CaseOverheadMs,  \* wall time the supervisor spends around a case
          MaxFaults        \* bound on what goes wrong outside the program

ASSUME CasesAssumption  == Cases \in 1..500
ASSUME LimitsAssumption == TimeLimitMs \in 1..10000 /\ MemoryLimitMb \in 1..512
\* supervisorTimeout of runTestCasesWithSandboxReset
BudgetMs == Cases * (TimeLimitMs + 25) + 5000

\* wallLimit of runCase
WallLimitMs == 2 * TimeLimitMs + 500

ASSUME SamplesAssumption ==
  /\ Cpus \subseteq Nat /\ Walls \subseteq 0..(WallLimitMs - 1) /\ Rss \subseteq Nat
  /\ CaseOverheadMs \in Nat /\ MaxFaults \in Nat

VARIABLES
  server,     \* where runTestCases is: supervising, restarting, judging, done
  judged,     \* cases the verdict loop has passed
  verdict,    \* the result runTestCases returns; NoVerdict before
  submission, \* the status ProcessSubmission records
  cancelled,  \* the context of the submission is done
  clock,      \* wall time since the supervisor was started, up to BudgetMs
  box,        \* the flags of the Sandbox that Release looks at
  sup,        \* where the supervisor is
  current,    \* the result of the case it is busy with
  out,        \* the results it has printed
  alive,      \* processes of the contestant are running outside a case
  dirty,      \* the contestant's files are in /workspace, /tmp or /dev/shm
  behaved,    \* what the program did in each case (history)
  faults      \* how much may still go wrong

serverVars == <<server, judged, verdict, submission, box>>
supVars    == <<sup, current, out, behaved>>
fsVars     == <<alive, dirty>>
vars == <<server, judged, verdict, submission, cancelled, clock, box, sup, current,
          out, alive, dirty, behaved, faults>>

-----------------------------------------------------------------------------
(* The program.  It runs on one CPU (--cpus 1).  One that blocks is killed *)
(* at the wall limit; a negative exit code stands for death by a signal.   *)

Behaviours ==
  {b \in [cpu: Cpus, wall: Walls \cup {WallLimitMs}, rss: Rss, exit: {-1, 0, 1},
          over: BOOLEAN, correct: BOOLEAN] :
      /\ b.cpu <= b.wall
      /\ b.wall >= WallLimitMs => b.exit = -1
      /\ b.correct => b.exit = 0 /\ ~b.over}

\* what runCase reports of it
CaseResult(b) ==
  LET timedOut == b.wall >= WallLimitMs \/ (b.cpu > 0 /\ b.cpu >= TimeLimitMs)
  IN [exit |-> IF timedOut THEN 124 ELSE b.exit, cpu |-> b.cpu, rss |-> b.rss,
      timedOut |-> timedOut, over |-> b.over, correct |-> b.correct]

\* a child that could not be started: ProcessState is nil
NotStarted == [cpu |-> 0, wall |-> 0, rss |-> 0, exit |-> 125, over |-> FALSE, correct |-> FALSE]

CaseResults == {CaseResult(b) : b \in Behaviours \cup {NotStarted}}
NoResult  == [exit |-> -2, cpu |-> 0, rss |-> 0, timedOut |-> FALSE, over |-> FALSE, correct |-> FALSE]
NoVerdict == [status |-> "none", passed |-> 0, runtime |-> 0, memory |-> 0]
Statuses  == {"accepted", "wrong_answer", "time_limit_exceeded", "runtime_error",
              "memory_limit_exceeded", "output_limit_exceeded", "infrastructure_error"}

\* Mutant: the output limit is forgotten.
StopsWithoutOutputLimit(r) == r.exit # 0 \/ r.timedOut

\* the supervisor's reason to run no further case (main.go) ...
SupervisorStops(r) == r.exit # 0 \/ r.timedOut \/ r.over

\* ... and the decoder's reason to expect no further result
DecoderStops(r) == r.exit # 0 \/ r.timedOut \/ r.over

TypeOK ==
  /\ server \in {"supervising", "restarting", "judging", "done"}
  /\ judged \in 0..Cases
  /\ verdict \in [status: Statuses \cup {"none"}, passed: 0..Cases, runtime: Nat, memory: Nat]
  /\ submission \in {"running", "finished", "failed"}
  /\ cancelled \in BOOLEAN /\ clock \in 0..BudgetMs
  /\ box \in [needsReplace: BOOLEAN, restarted: BOOLEAN]
  /\ sup \in {"start", "reset", "run", "kill", "clean", "write", "exited", "failed", "hung", "gone"}
  /\ current \in CaseResults \cup {NoResult}
  /\ out \in Seq(CaseResults) /\ Len(out) <= Cases
  /\ alive \in BOOLEAN /\ dirty \in BOOLEAN
  /\ behaved \in Seq(Behaviours \cup {NotStarted}) /\ Len(behaved) <= Cases
  /\ faults \in 0..MaxFaults

Init ==
  /\ server = "supervising" /\ judged = 0 /\ verdict = NoVerdict /\ submission = "running"
  /\ cancelled = FALSE /\ clock = 0 /\ box = [needsReplace |-> FALSE, restarted |-> FALSE]
  /\ sup = "start" /\ current = NoResult /\ out = <<>>
  /\ alive = FALSE /\ dirty = FALSE /\ behaved = <<>> /\ faults = MaxFaults

Fault == faults > 0 /\ faults' = faults - 1
NoFault == UNCHANGED faults

-----------------------------------------------------------------------------
(* The supervisor                                                          *)

\* The request is accepted and the staged workspace is recorded as baseline.
SupervisorStarts ==
  /\ sup = "start" /\ sup' = "reset" /\ NoFault
  /\ UNCHANGED <<serverVars, cancelled, clock, current, out, fsVars, behaved>>

ResetBeforeCase ==
  /\ sup = "reset" /\ sup' = "run" /\ dirty' = FALSE /\ NoFault
  /\ UNCHANGED <<serverVars, cancelled, clock, current, out, alive, behaved>>

\* runCase, to the kill of the process group at its end.  Processes that have
\* not died yet and files may stay behind.
RunCase(b) ==
  /\ sup = "run" /\ sup' = "kill" /\ NoFault
  /\ current' = CaseResult(b) /\ behaved' = Append(behaved, b)
  /\ clock' = Min({clock + b.wall + CaseOverheadMs, BudgetMs})
  /\ alive' \in BOOLEAN /\ dirty' \in BOOLEAN
  /\ UNCHANGED <<serverVars, cancelled, out>>

\* os.Executable or fork fails: the case ends with exit code 125.
ChildNotStarted ==
  /\ sup = "run" /\ sup' = "kill" /\ Fault
  /\ current' = CaseResult(NotStarted) /\ behaved' = Append(behaved, NotStarted)
  /\ UNCHANGED <<serverVars, cancelled, clock, out, fsVars>>

\* Mutant: one round of kills and no second scan.
KillRoundOnce ==
  /\ sup = "kill" /\ alive /\ sup' = "clean"
  /\ \/ alive' = FALSE /\ NoFault
     \/ alive' = TRUE /\ Fault
  /\ UNCHANGED <<serverVars, cancelled, clock, current, out, dirty, behaved>>

\* A round of cleanupContestantProcesses: scan, kill, scan again.  A process
\* that forks between the scan and the kill survives the round.
KillRound ==
  /\ sup = "kill" /\ alive
  /\ \/ alive' = FALSE /\ NoFault
     \/ alive' = TRUE /\ Fault
  /\ UNCHANGED <<serverVars, cancelled, clock, supVars, dirty>>

\* The scan finds nobody: the loop ends.
KillEnds ==
  /\ sup = "kill" /\ ~alive /\ sup' = "clean" /\ NoFault
  /\ UNCHANGED <<serverVars, cancelled, clock, current, out, fsVars, behaved>>

CleanCase ==
  /\ sup = "clean" /\ sup' = "write" /\ dirty' = FALSE /\ NoFault
  /\ UNCHANGED <<serverVars, cancelled, clock, current, out, alive, behaved>>

\* Mutant: one case too many.
WriteResultOneMore ==
  /\ sup = "write" /\ out' = Append(out, current) /\ current' = NoResult /\ NoFault
  /\ sup' = IF SupervisorStops(current) \/ Len(out) = Cases THEN "exited" ELSE "reset"
  /\ UNCHANGED <<serverVars, cancelled, clock, fsVars, behaved>>

WriteResult ==
  /\ sup = "write" /\ out' = Append(out, current) /\ current' = NoResult /\ NoFault
  /\ sup' = IF SupervisorStops(current) \/ Len(out') = Cases THEN "exited" ELSE "reset"
  /\ UNCHANGED <<serverVars, cancelled, clock, fsVars, behaved>>

\* Any error of runSupervisor: fatal, exit code 125.
SupervisorFails ==
  /\ sup \in {"start", "reset", "kill", "clean", "write"} /\ sup' = "failed" /\ Fault
  /\ UNCHANGED <<serverVars, cancelled, clock, current, out, fsVars, behaved>>

\* The container's memory limit kills the supervisor instead of the program.
SupervisorDies ==
  /\ sup = "run" /\ sup' = "failed" /\ Fault
  /\ alive' = TRUE /\ dirty' \in BOOLEAN
  /\ UNCHANGED <<serverVars, cancelled, clock, current, out, behaved>>

SupervisorHangs ==
  /\ sup \in {"start", "reset", "run", "kill", "clean", "write"} /\ sup' = "hung" /\ Fault
  /\ UNCHANGED <<serverVars, cancelled, clock, current, out, fsVars, behaved>>

\* Time passes for whoever waits for a supervisor that hangs.
TimePasses ==
  /\ sup = "hung" /\ clock < BudgetMs /\ clock' = BudgetMs /\ NoFault
  /\ UNCHANGED <<serverVars, cancelled, supVars, fsVars>>

\* What the program left running writes a file.
LeftoverWrites ==
  /\ alive /\ ~dirty /\ dirty' = TRUE /\ NoFault
  /\ UNCHANGED <<serverVars, cancelled, clock, supVars, alive>>

-----------------------------------------------------------------------------
(* The server                                                              *)

CtxDone == cancelled \/ clock >= BudgetMs

\* The context of the submission is cancelled: shutdown or a lost lease.
Cancel ==
  /\ ~cancelled /\ server # "done" /\ cancelled' = TRUE /\ Fault
  /\ UNCHANGED <<serverVars, clock, supVars, fsVars>>

\* runTestCases returns v; ProcessSubmission records it.
Return(v) ==
  /\ server' = "done" /\ verdict' = v
  /\ submission' = IF v.status = "infrastructure_error" THEN "failed" ELSE "finished"
  /\ UNCHANGED judged

Infrastructure == [status |-> "infrastructure_error", passed |-> 0, runtime |-> 0, memory |-> 0]

\* Mutant: docker exec without a deadline of its own.
RunInterruptedByCancelOnly ==
  /\ server = "supervising" /\ cancelled /\ server' = "restarting" /\ NoFault
  /\ UNCHANGED <<judged, verdict, submission, box, cancelled, clock, supVars, fsVars>>

\* Either context ends: the docker client is killed, what it started is not.
RunInterrupted ==
  /\ server = "supervising" /\ CtxDone /\ server' = "restarting" /\ NoFault
  /\ UNCHANGED <<judged, verdict, submission, box, cancelled, clock, supVars, fsVars>>

\* restartSandboxAfterInterruptedRun: docker restart ends every process of the
\* container and mounts its file systems anew.
RestartSandbox ==
  /\ server = "restarting" /\ Return(Infrastructure) /\ NoFault
  /\ sup' = "gone" /\ alive' = FALSE /\ dirty' = FALSE
  /\ box' = [box EXCEPT !.restarted = TRUE]
  /\ UNCHANGED <<cancelled, clock, current, out, behaved>>

\* Mutant: a failed restart does not condemn the sandbox.
RestartFailureIgnored ==
  /\ server = "restarting" /\ Return(Infrastructure) /\ Fault
  /\ UNCHANGED <<box, cancelled, clock, supVars, fsVars>>

RestartFails ==
  /\ server = "restarting" /\ Return(Infrastructure) /\ Fault
  /\ box' = [box EXCEPT !.needsReplace = TRUE]
  /\ UNCHANGED <<cancelled, clock, supVars, fsVars>>

\* docker exec fails although the supervisor may be at work
ExecFails ==
  /\ server = "supervising" /\ ~CtxDone /\ Return(Infrastructure) /\ Fault
  /\ box' = [box EXCEPT !.needsReplace = TRUE]
  /\ UNCHANGED <<cancelled, clock, supVars, fsVars>>

\* decodeSupervisorResults: a result after one that stops, no result, or too few
\* without one that stops, are errors.
Decodes(results) ==
  /\ results # <<>>
  /\ \A i \in 1..(Len(results) - 1) : ~DecoderStops(results[i])
  /\ Len(results) = Cases \/ DecoderStops(results[Len(results)])

SupervisorFailed ==
  /\ server = "supervising" /\ ~CtxDone
  /\ sup \in {"failed", "exited"} /\ (sup = "exited" => ~Decodes(out))
  /\ Return(Infrastructure) /\ NoFault
  /\ box' = [box EXCEPT !.needsReplace = TRUE]
  /\ UNCHANGED <<cancelled, clock, supVars, fsVars>>

SupervisorEnded ==
  /\ server = "supervising" /\ ~CtxDone /\ sup = "exited" /\ Decodes(out)
  /\ server' = "judging" /\ NoFault
  /\ UNCHANGED <<judged, verdict, submission, box, cancelled, clock, supVars, fsVars>>

\* Mutant: the exit code is looked at first.
CaseStatusExitFirst(r) ==
  IF r.exit # 0 THEN "runtime_error"
  ELSE IF r.over THEN "output_limit_exceeded"
  ELSE IF ~r.correct THEN "wrong_answer"
  ELSE "accepted"

\* The checks on one result, in the order of the code
CaseStatus(r) ==
  IF r.over THEN "output_limit_exceeded"
  ELSE IF r.timedOut THEN "time_limit_exceeded"
  ELSE IF r.exit = -1 /\ r.rss * 1024 >= (MemoryLimitMb * 1024 * 1024 * 9) \div 10
       THEN "memory_limit_exceeded"
  ELSE IF r.exit # 0 THEN "runtime_error"
  ELSE IF ~r.correct THEN "wrong_answer"
  ELSE "accepted"

MaxMemory(n)  == Max({out[i].rss : i \in 1..n})
MaxRuntime(n) == Max({out[i].cpu : i \in 1..n})

\* One turn of the verdict loop that returns: the case is not accepted, its
\* result is missing, or the context was cancelled in the meantime.
JudgeStops ==
  LET i == judged + 1
  IN /\ server = "judging" /\ judged < Cases
     /\ \/ (i <= Len(out) => cancelled) /\ Return(Infrastructure)
        \/ /\ i <= Len(out) /\ ~cancelled /\ CaseStatus(out[i]) # "accepted"
           /\ Return([status |-> CaseStatus(out[i]), passed |-> judged,
                      runtime |-> out[i].cpu, memory |-> MaxMemory(i)])
     /\ NoFault /\ UNCHANGED <<box, cancelled, clock, supVars, fsVars>>

JudgePasses ==
  /\ server = "judging" /\ judged < Cases /\ judged < Len(out) /\ ~cancelled
  /\ CaseStatus(out[judged + 1]) = "accepted"
  /\ judged' = judged + 1 /\ NoFault
  /\ UNCHANGED <<server, verdict, submission, box, cancelled, clock, supVars, fsVars>>

JudgeAccepts ==
  /\ server = "judging" /\ judged = Cases
  /\ Return([status |-> "accepted", passed |-> judged,
             runtime |-> MaxRuntime(Cases), memory |-> MaxMemory(Cases)])
  /\ NoFault /\ UNCHANGED <<box, cancelled, clock, supVars, fsVars>>

-----------------------------------------------------------------------------
SupervisorStep ==
  \/ SupervisorStarts \/ ResetBeforeCase \/ (\E b \in Behaviours : RunCase(b))
  \/ KillRound \/ KillEnds \/ CleanCase \/ WriteResult

ServerStep ==
  \/ RunInterrupted \/ RestartSandbox \/ SupervisorFailed \/ SupervisorEnded
  \/ JudgeStops \/ JudgePasses \/ JudgeAccepts

Fails ==
  \/ ChildNotStarted \/ SupervisorFails \/ SupervisorDies \/ SupervisorHangs
  \/ RestartFails \/ ExecFails \/ Cancel

Next == SupervisorStep \/ ServerStep \/ Fails \/ TimePasses \/ LeftoverWrites

Spec == Init /\ [][Next]_vars

\* The supervisor and the server are scheduled, and time does not stand still.
FairSpec == Spec /\ WF_vars(SupervisorStep) /\ WF_vars(ServerStep) /\ WF_vars(TimePasses)

-----------------------------------------------------------------------------
(* Properties                                                              *)

\* A case starts in a sandbox in which nothing of an earlier case runs or lies
\* about, whatever the earlier program forked or wrote while the supervisor
\* killed and cleaned (runSupervisor, cleanupContestantProcesses).
CaseStartsClean == sup = "run" => ~alive /\ ~dirty

\* When runTestCases returns, a sandbox that Release may hand on without
\* replacing it has no supervisor and no program running in it and none of the
\* contestant's files outside the staged workspace, also when the server gave up
\* on a supervisor that was still at work.
ReleasedIsQuiet ==
  server = "done" /\ ~box.needsReplace => sup \in {"exited", "gone"} /\ ~alive /\ ~dirty

\* What a verdict should be, from what the program did: the first case in which
\* it did not answer correctly within its limits decides.
Within(b) == b.wall < WallLimitMs /\ b.cpu < TimeLimitMs /\ ~b.over /\ b.exit = 0
FirstFailure == Min({i \in 1..Len(behaved) : ~(Within(behaved[i]) /\ behaved[i].correct)})
Blames(b) ==
  {s \in Statuses \ {"accepted", "infrastructure_error"} :
     /\ s = "output_limit_exceeded" <=> b.over
     /\ s = "wrong_answer" => Within(b)
     /\ s = "time_limit_exceeded" => b.wall >= WallLimitMs \/ b.cpu >= TimeLimitMs
     /\ s \in {"runtime_error", "memory_limit_exceeded"} =>
          b.exit # 0 /\ b.wall < WallLimitMs /\ b.cpu < TimeLimitMs
     /\ s = "memory_limit_exceeded" <=>
          (b.exit = -1 /\ ~b.over /\ 10 * b.rss >= 9 * MemoryLimitMb * 1024
             /\ b.wall < WallLimitMs /\ b.cpu < TimeLimitMs)}

\* A submission that gets a verdict gets the one its program earned: accepted
\* only if every case was run and answered within the limits, otherwise the
\* failure of the first case that was not, with the number of cases before it.
\* This relates two binaries: the supervisor stops early and skips cases, the
\* server decodes a shorter list and must never read past it or misjudge it.
VerdictIsEarned ==
  submission = "finished" =>
    \/ /\ verdict.status = "accepted" /\ verdict.passed = Cases /\ Len(behaved) = Cases
       /\ \A i \in 1..Cases : Within(behaved[i]) /\ behaved[i].correct
       /\ verdict.runtime = Max({behaved[i].cpu : i \in 1..Cases})
       /\ verdict.memory = Max({behaved[i].rss : i \in 1..Cases})
    \/ /\ \E i \in 1..Len(behaved) : ~(Within(behaved[i]) /\ behaved[i].correct)
       /\ verdict.passed = FirstFailure - 1
       /\ verdict.status \in Blames(behaved[FirstFailure])
       /\ verdict.runtime = behaved[FirstFailure].cpu
       /\ verdict.memory = Max({behaved[i].rss : i \in 1..FirstFailure})

\* A submission fails with an infrastructure error only when one of the faults of
\* the model happened: supervisor and decoder agree on the result stream and
\* the budget of the docker exec is no tighter than the limits of the cases.  Among
\* the faults are two the program has a part in: processes that outlive all kill
\* rounds, and a supervisor the memory limit of the container kills with it.  The
\* budget depends on the instance: it needs BudgetSuffices, see BlockedIsJudged for
\* what happens otherwise.
FailureHasCause == submission = "failed" => faults < MaxFaults

\* A program that blocks is stopped by the wall limit of its case and gets a
\* verdict, as long as nothing else goes wrong (docs/development.md:64).
BlockedIsJudged ==
  /\ server = "done" /\ faults = MaxFaults
  /\ \E i \in 1..Len(behaved) : behaved[i].wall >= WallLimitMs
  => submission = "finished"

\* runTestCases returns, also when the supervisor never answers.
RunReturns == <>(server = "done")

-----------------------------------------------------------------------------
(* The inductive invariant (TestcaseRunProofs)                             *)

\* the wall time all cases may take, against the budget for all of them
BudgetSuffices == Cases * (WallLimitMs + CaseOverheadMs) < BudgetMs

Working == {"start", "reset", "run", "kill", "clean", "write"}

\* What the supervisor printed is what the program did, case by case; it goes on
\* only after results that do not stop it, so what it leaves behind decodes.
ResultsInv ==
  /\ Len(behaved) \in {Len(out), Len(out) + 1}
  /\ \A i \in 1..Len(out) : out[i] = CaseResult(behaved[i])
  /\ sup \in {"start", "reset", "run", "exited"} => Len(behaved) = Len(out)
  /\ sup \in {"kill", "clean", "write"} =>
       Len(behaved) = Len(out) + 1 /\ current = CaseResult(behaved[Len(behaved)])
  /\ sup \in Working => Len(out) < Cases /\ \A i \in 1..Len(out) : ~SupervisorStops(out[i])
  /\ sup = "exited" => Decodes(out)

\* When processes and files of the contestant may be left.
QuietInv ==
  /\ sup \in {"start", "reset", "run", "clean", "write", "exited", "gone"} => ~alive
  /\ sup \in {"run", "write", "exited", "gone"} => ~dirty
  /\ server = "judging" => sup = "exited"

\* How far the verdict loop is, and what it has seen.
JudgeInv ==
  /\ server \in {"supervising", "restarting"} => judged = 0
  /\ server = "judging" => judged <= Len(out) /\ \A i \in 1..judged : CaseStatus(out[i]) = "accepted"
  /\ server # "done" => submission = "running"
  /\ submission = "finished" => server = "done" /\ sup = "exited"

\* What takes the supervisor or the clock off course counts as a fault.
CauseInv ==
  /\ cancelled \/ sup \in {"failed", "hung"} => faults < MaxFaults
  /\ faults = MaxFaults => clock <= Len(behaved) * (WallLimitMs + CaseOverheadMs)
  /\ server = "restarting" /\ BudgetSuffices => faults < MaxFaults
  /\ BudgetSuffices => FailureHasCause

IndInv == TypeOK /\ ResultsInv /\ QuietInv /\ ReleasedIsQuiet /\ JudgeInv /\ VerdictIsEarned /\ CauseInv

=============================================================================
