------------------------- MODULE TestcaseRunProofs -------------------------
(***************************************************************************)
(* Proofs about TestcaseRun, for any number of cases, any limits and any   *)
(* programs.                                                               *)
(***************************************************************************)
EXTENDS TestcaseRun, NumberTheorems, TLAPS

-----------------------------------------------------------------------------
(* Times and limits are numbers.                                           *)
LEMMA LimitTypes ==
  /\ BudgetMs \in Nat /\ WallLimitMs \in Nat /\ WallLimitMs > 0 /\ Cases \in Nat /\ Cases > 0
  /\ TimeLimitMs \in Nat /\ TimeLimitMs > 0 /\ WallLimitMs + CaseOverheadMs \in Nat
<1>1. WallLimitMs \in Nat /\ WallLimitMs > 0 /\ WallLimitMs + CaseOverheadMs \in Nat
  BY LimitsAssumption, SamplesAssumption DEF WallLimitMs
<1>2. /\ TimeLimitMs + 25 \in Nat /\ Cases \in Nat /\ Cases > 0
      /\ TimeLimitMs \in Nat /\ TimeLimitMs > 0
  BY CasesAssumption, LimitsAssumption
<1>3. \A x, y \in Nat : x * y \in Nat
  OBVIOUS
<1>4. Cases * (TimeLimitMs + 25) \in Nat
  BY <1>2, <1>3
<1>5. BudgetMs \in Nat
  BY <1>4 DEF BudgetMs
<1> QED
  BY <1>1, <1>2, <1>5

-----------------------------------------------------------------------------
(* Programs and their results.                                             *)

AllBehaviours == Behaviours \cup {NotStarted}

(* What a program may do.                                                  *)
LEMMA BehaviourFields ==
  ASSUME NEW b \in AllBehaviours
  PROVE  /\ b.cpu \in Nat /\ b.wall \in 0..WallLimitMs /\ b.rss \in Nat /\ b.exit \in {-1, 0, 1, 125}
         /\ b.over \in BOOLEAN /\ b.correct \in BOOLEAN
         /\ b.wall >= WallLimitMs => b.exit = -1
         /\ b.correct => b.exit = 0 /\ ~b.over
<1>1. CASE b \in Behaviours
  <2>1. /\ b \in [cpu: Cpus, wall: Walls \cup {WallLimitMs}, rss: Rss, exit: {-1, 0, 1},
                  over: BOOLEAN, correct: BOOLEAN]
        /\ b.wall >= WallLimitMs => b.exit = -1
        /\ b.correct => b.exit = 0 /\ ~b.over
    BY <1>1 DEF Behaviours
  <2>2. /\ \A x \in Walls \cup {WallLimitMs} : x \in 0..WallLimitMs
        /\ \A x \in Cpus : x \in Nat
        /\ \A x \in Rss : x \in Nat
    BY LimitTypes, SamplesAssumption
  <2>3. /\ b.cpu \in Cpus /\ b.wall \in Walls \cup {WallLimitMs} /\ b.rss \in Rss /\ b.exit \in {-1, 0, 1}
        /\ b.over \in BOOLEAN /\ b.correct \in BOOLEAN
    BY <2>1
  <2>4. b.cpu \in Nat /\ b.rss \in Nat
    BY <2>2, <2>3, Zenon
  <2>5. b.wall \in 0..WallLimitMs
    BY <2>2, <2>3, Zenon
  <2>6. b.exit \in {-1, 0, 1, 125}
    BY <2>3
  <2> QED
    BY <2>1, <2>3, <2>4, <2>5, <2>6
<1>2. CASE b = NotStarted
  BY <1>2, LimitTypes DEF NotStarted
<1> QED
  BY <1>1, <1>2 DEF AllBehaviours

(* What the supervisor reports of it.                                      *)
LEMMA ResultFields ==
  ASSUME NEW b \in AllBehaviours
  PROVE  /\ CaseResult(b) \in CaseResults
         /\ CaseResult(b).cpu = b.cpu /\ CaseResult(b).rss = b.rss
         /\ CaseResult(b).over = b.over /\ CaseResult(b).correct = b.correct
         /\ CaseResult(b).timedOut <=> b.wall >= WallLimitMs \/ (b.cpu > 0 /\ b.cpu >= TimeLimitMs)
         /\ CaseResult(b).exit = IF CaseResult(b).timedOut THEN 124 ELSE b.exit
<1>1. CaseResult(b) \in CaseResults
  BY DEF CaseResults, AllBehaviours
<1> DEFINE t == b.wall >= WallLimitMs \/ (b.cpu > 0 /\ b.cpu >= TimeLimitMs)
<1>2. CaseResult(b) = [exit |-> IF t THEN 124 ELSE b.exit, cpu |-> b.cpu, rss |-> b.rss,
                       timedOut |-> t, over |-> b.over, correct |-> b.correct]
  BY DEF CaseResult
<1> HIDE DEF t
<1>3. /\ CaseResult(b).cpu = b.cpu /\ CaseResult(b).rss = b.rss
      /\ CaseResult(b).over = b.over /\ CaseResult(b).correct = b.correct
      /\ CaseResult(b).timedOut = t
      /\ CaseResult(b).exit = IF t THEN 124 ELSE b.exit
  BY <1>2
<1>4. CaseResult(b).timedOut <=> t
  BY <1>3
<1> QED
  BY <1>1, <1>3, <1>4 DEF t

(* Nine tenths of the memory limit, in the units of the code and in KB.    *)
LEMMA MemoryThreshold ==
  ASSUME NEW r \in Nat
  PROVE  r * 1024 >= (MemoryLimitMb * 1024 * 1024 * 9) \div 10 <=> 10 * r >= 9 * MemoryLimitMb * 1024
  BY LimitsAssumption

(* The checks of the verdict loop blame a program for what it did, and     *)
(* pass only one that answered correctly within its limits.                *)
LEMMA StatusIsEarned ==
  ASSUME NEW b \in AllBehaviours
  PROVE  /\ CaseStatus(CaseResult(b)) = "accepted" <=> Within(b) /\ b.correct
         /\ CaseStatus(CaseResult(b)) = "accepted" => ~DecoderStops(CaseResult(b))
         /\ CaseStatus(CaseResult(b)) # "accepted" => CaseStatus(CaseResult(b)) \in Blames(b)
<1> DEFINE r == CaseResult(b)
<1>1. /\ b.cpu \in Nat /\ b.wall \in 0..WallLimitMs /\ b.rss \in Nat /\ b.exit \in {-1, 0, 1, 125}
      /\ b.over \in BOOLEAN /\ b.correct \in BOOLEAN
      /\ b.wall >= WallLimitMs => b.exit = -1
      /\ b.correct => b.exit = 0 /\ ~b.over
  BY BehaviourFields
<1>2. /\ r.rss = b.rss /\ (r.over <=> b.over) /\ (r.correct <=> b.correct)
      /\ r.timedOut <=> b.wall >= WallLimitMs \/ b.cpu >= TimeLimitMs
      /\ r.exit = IF r.timedOut THEN 124 ELSE b.exit
  BY <1>1, ResultFields, LimitTypes
<1>3. r.rss * 1024 >= (MemoryLimitMb * 1024 * 1024 * 9) \div 10 <=> 10 * b.rss >= 9 * MemoryLimitMb * 1024
  BY <1>1, <1>2, MemoryThreshold
<1> HIDE DEF r
<1>4. /\ b.over => CaseStatus(r) = "output_limit_exceeded"
      /\ ~b.over /\ r.timedOut => CaseStatus(r) = "time_limit_exceeded"
      /\ ~b.over /\ ~r.timedOut /\ b.exit = -1 /\ 10 * b.rss >= 9 * MemoryLimitMb * 1024
           => CaseStatus(r) = "memory_limit_exceeded"
      /\ ~b.over /\ ~r.timedOut /\ ~(b.exit = -1 /\ 10 * b.rss >= 9 * MemoryLimitMb * 1024) /\ b.exit # 0
           => CaseStatus(r) = "runtime_error"
      /\ ~b.over /\ ~r.timedOut /\ b.exit = 0 /\ ~b.correct => CaseStatus(r) = "wrong_answer"
      /\ ~b.over /\ ~r.timedOut /\ b.exit = 0 /\ b.correct => CaseStatus(r) = "accepted"
  BY <1>1, <1>2, <1>3 DEF CaseStatus
<1>5. ~(b.wall < WallLimitMs) <=> b.wall >= WallLimitMs
  BY <1>1, LimitTypes
<1>6. ~(b.cpu < TimeLimitMs) <=> b.cpu >= TimeLimitMs
  BY <1>1, LimitTypes
<1>7. CaseStatus(r) = "accepted" <=> Within(b) /\ b.correct
  BY <1>1, <1>2, <1>4, <1>5, <1>6 DEF Within
<1>8. CaseStatus(r) = "accepted" => ~DecoderStops(r)
  BY <1>1, <1>2, <1>4, <1>5, <1>6, <1>7 DEF Within, DecoderStops
<1>9. CaseStatus(r) # "accepted" => CaseStatus(r) \in Blames(b)
  BY <1>1, <1>2, <1>4, <1>5, <1>6 DEF Within, Blames, Statuses
<1> QED
  BY <1>7, <1>8, <1>9 DEF r

-----------------------------------------------------------------------------
(* The steps.                                                              *)

USE DEF serverVars, supVars, fsVars, NoFault, AllBehaviours

(* The steps of the server.                                                *)
ServerMoves ==
  \/ RunInterrupted \/ RestartSandbox \/ RestartFails \/ ExecFails \/ SupervisorFailed
  \/ SupervisorEnded \/ JudgeStops \/ JudgePasses \/ JudgeAccepts

(* The steps inside the container.                                         *)
ContainerMoves ==
  \/ SupervisorStarts \/ ResetBeforeCase \/ (\E b \in Behaviours : RunCase(b)) \/ ChildNotStarted
  \/ KillRound \/ KillEnds \/ CleanCase \/ WriteResult
  \/ SupervisorFails \/ SupervisorDies \/ SupervisorHangs \/ LeftoverWrites

(* Next, by where the step is made.                                        *)
LEMMA NextSteps == Next <=> ServerMoves \/ ContainerMoves \/ Cancel \/ TimePasses
  BY DEF Next, SupervisorStep, ServerStep, Fails, ServerMoves, ContainerMoves

(* A fault is counted within its bound.                                    *)
LEMMA FaultCounts ==
  ASSUME TypeOK, Fault
  PROVE  faults' \in 0..MaxFaults /\ faults' < MaxFaults
  BY SamplesAssumption DEF TypeOK, Fault

(* A step that goes wrong has its cause.                                   *)
LEMMA FaultIsCause ==
  ASSUME TypeOK, Fault
  PROVE  CauseInv'
  BY FaultCounts DEF CauseInv, FailureHasCause

-----------------------------------------------------------------------------
(* The container.                                                          *)

(* Appending to the record of what happened, or to the output.             *)
LEMMA AppendFields ==
  ASSUME NEW S, NEW q \in Seq(S), NEW e \in S
  PROVE  /\ Append(q, e) \in Seq(S) /\ Len(Append(q, e)) = Len(q) + 1 /\ Len(q) \in Nat
         /\ Append(q, e)[Len(q) + 1] = e
         /\ \A i \in 1..Len(q) : Append(q, e)[i] = q[i]
  OBVIOUS

(* The container leaves the server alone.                                  *)
LEMMA ContainerFrame ==
  ASSUME ContainerMoves
  PROVE  UNCHANGED <<serverVars, cancelled>>
  BY DEF ContainerMoves, SupervisorStarts, ResetBeforeCase, RunCase, ChildNotStarted, KillRound,
     KillEnds, CleanCase, WriteResult, SupervisorFails, SupervisorDies, SupervisorHangs, LeftoverWrites

(* It keeps the types.                                                     *)
LEMMA ContainerTypes ==
  ASSUME TypeOK, ResultsInv, ContainerMoves
  PROVE  TypeOK'
<1>1. UNCHANGED <<serverVars, cancelled>>
  BY ContainerFrame
<1>2. faults' \in 0..MaxFaults
  BY FaultCounts DEF ContainerMoves, SupervisorStarts, ResetBeforeCase, RunCase, ChildNotStarted, KillRound,
     KillEnds, CleanCase, WriteResult, SupervisorFails, SupervisorDies, SupervisorHangs, LeftoverWrites, TypeOK
<1>3. alive' \in BOOLEAN /\ dirty' \in BOOLEAN
  BY DEF ContainerMoves, SupervisorStarts, ResetBeforeCase, RunCase, ChildNotStarted, KillRound,
     KillEnds, CleanCase, WriteResult, SupervisorFails, SupervisorDies, SupervisorHangs, LeftoverWrites, TypeOK
<1>4. sup' \in {"start", "reset", "run", "kill", "clean", "write", "exited", "failed", "hung", "gone"}
  BY DEF ContainerMoves, SupervisorStarts, ResetBeforeCase, RunCase, ChildNotStarted, KillRound,
     KillEnds, CleanCase, WriteResult, SupervisorFails, SupervisorDies, SupervisorHangs, LeftoverWrites, TypeOK
<1> DEFINE Fields == /\ clock \in 0..BudgetMs /\ current \in CaseResults \cup {NoResult}
                     /\ out \in Seq(CaseResults) /\ Len(out) <= Cases
                     /\ behaved \in Seq(AllBehaviours) /\ Len(behaved) <= Cases
<1>5. Fields'
  <2>0. /\ clock \in 0..BudgetMs /\ current \in CaseResults \cup {NoResult}
        /\ out \in Seq(CaseResults) /\ Len(out) <= Cases
        /\ behaved \in Seq(AllBehaviours) /\ Len(behaved) <= Cases
    BY DEF TypeOK
  <2>1. ASSUME NEW b \in Behaviours, RunCase(b)
        PROVE  Fields'
    <3>1. /\ current' = CaseResult(b) /\ behaved' = Append(behaved, b) /\ UNCHANGED out
          /\ clock' = Min({clock + b.wall + CaseOverheadMs, BudgetMs}) /\ sup = "run"
      BY <2>1 DEF RunCase
    <3>2. Len(behaved') <= Cases /\ behaved' \in Seq(AllBehaviours)
      <4>1. Len(behaved) < Cases
        BY <3>1, LimitTypes DEF ResultsInv, Working
      <4> QED
        BY <2>0, <3>1, <4>1, AppendFields, LimitTypes
    <3>3. clock' \in 0..BudgetMs
      <4>1. clock + b.wall + CaseOverheadMs \in Nat
        BY <2>0, BehaviourFields, SamplesAssumption, LimitTypes
      <4>2. clock' \in {clock + b.wall + CaseOverheadMs, BudgetMs} /\ clock' <= BudgetMs
        BY <3>1, <4>1, MinOfTwo, LimitTypes
      <4> QED
        BY <4>1, <4>2, LimitTypes
    <3> QED
      BY <2>0, <3>1, <3>2, <3>3, ResultFields
  <2>2. CASE ChildNotStarted
    <3>1. /\ current' = CaseResult(NotStarted) /\ behaved' = Append(behaved, NotStarted)
          /\ UNCHANGED <<out, clock>> /\ sup = "run"
      BY <2>2 DEF ChildNotStarted
    <3>2. Len(behaved) < Cases
      BY <3>1, LimitTypes DEF ResultsInv, Working
    <3>3. Len(behaved') <= Cases /\ behaved' \in Seq(AllBehaviours)
      BY <2>0, <3>1, <3>2, AppendFields, LimitTypes
    <3> QED
      BY <2>0, <3>1, <3>3, ResultFields
  <2>3. CASE WriteResult
    <3>1. /\ out' = Append(out, current) /\ current' = NoResult /\ UNCHANGED <<clock, behaved>>
          /\ sup = "write"
      BY <2>3 DEF WriteResult
    <3>2. Len(out) < Cases /\ Len(behaved) = Len(out) + 1 /\ current = CaseResult(behaved[Len(behaved)])
      BY <3>1 DEF ResultsInv, Working
    <3>3. behaved[Len(behaved)] \in AllBehaviours
      BY <2>0, <3>2
    <3>4. current \in CaseResults
      BY <3>2, <3>3, ResultFields
    <3> QED
      BY <2>0, <3>1, <3>2, <3>4, AppendFields, LimitTypes
  <2>4. CASE UNCHANGED <<clock, current, out, behaved>>
    BY <2>0, <2>4
  <2> QED
    BY <2>1, <2>2, <2>3, <2>4 DEF ContainerMoves, SupervisorStarts, ResetBeforeCase, KillRound,
       KillEnds, CleanCase, SupervisorFails, SupervisorDies, SupervisorHangs, LeftoverWrites
<1> QED
  BY <1>1, <1>2, <1>3, <1>4, <1>5 DEF TypeOK

(* A case that has run is one more that happened, and no more printed.     *)
LEMMA CaseResultsKept ==
  ASSUME TypeOK, ResultsInv, sup = "run", sup' = "kill", NEW b \in AllBehaviours,
         current' = CaseResult(b), behaved' = Append(behaved, b), UNCHANGED out
  PROVE  ResultsInv'
<1>1. /\ Len(behaved') = Len(behaved) + 1 /\ Len(behaved) \in Nat /\ behaved'[Len(behaved')] = b
      /\ \A i \in 1..Len(behaved) : behaved'[i] = behaved[i]
  BY AppendFields DEF TypeOK
<1>2. /\ Len(behaved) = Len(out) /\ Len(out) < Cases
      /\ \A i \in 1..Len(out) : ~SupervisorStops(out[i]) /\ out[i] = CaseResult(behaved[i])
  BY DEF ResultsInv, Working
<1> QED
  BY <1>1, <1>2 DEF ResultsInv, Working

(* A result that is printed is the one of the case that was run; when it   *)
(* is the last, the decoder accepts the whole.                             *)
LEMMA WriteResultKept ==
  ASSUME TypeOK, ResultsInv, WriteResult
  PROVE  ResultsInv'
<1>1. /\ sup = "write" /\ out' = Append(out, current) /\ UNCHANGED behaved
      /\ sup' = IF SupervisorStops(current) \/ Len(out') = Cases THEN "exited" ELSE "reset"
  BY DEF WriteResult
<1>2. /\ Len(behaved) = Len(out) + 1 /\ Len(out) < Cases
      /\ current = CaseResult(behaved[Len(out) + 1])
      /\ \A i \in 1..Len(out) : ~SupervisorStops(out[i]) /\ out[i] = CaseResult(behaved[i])
  BY <1>1 DEF ResultsInv, Working
<1>3. behaved[Len(out) + 1] \in AllBehaviours /\ out \in Seq(CaseResults) /\ Len(out) \in Nat
  BY <1>2 DEF TypeOK
<1>4. current \in CaseResults
  BY <1>2, <1>3, ResultFields
<1>5. /\ Len(out') = Len(out) + 1 /\ out'[Len(out) + 1] = current /\ out' # <<>>
      /\ \A i \in 1..Len(out) : out'[i] = out[i]
  BY <1>1, <1>3, <1>4, AppendFields
<1>6. \A i \in 1..Len(out') : i = Len(out) + 1 \/ i \in 1..Len(out)
  BY <1>3, <1>5
<1>7. \A i \in 1..Len(out') : out'[i] = CaseResult(behaved[i])
  BY <1>2, <1>5, <1>6
<1>8. CASE SupervisorStops(current) \/ Len(out') = Cases
  <2>1. \A i \in 1..(Len(out') - 1) : ~DecoderStops(out'[i])
    BY <1>2, <1>3, <1>5 DEF SupervisorStops, DecoderStops
  <2>2. Len(out') = Cases \/ DecoderStops(out'[Len(out')])
    BY <1>5, <1>8 DEF SupervisorStops, DecoderStops
  <2>3. Decodes(out')
    BY <1>5, <2>1, <2>2 DEF Decodes
  <2>4. sup' = "exited"
    BY <1>1, <1>8
  <2> QED
    BY <1>1, <1>2, <1>5, <1>7, <2>3, <2>4 DEF ResultsInv, Working
<1>9. CASE ~(SupervisorStops(current) \/ Len(out') = Cases)
  <2>1. sup' = "reset"
    BY <1>1, <1>9
  <2>2. Len(out') < Cases
    BY <1>2, <1>3, <1>5, <1>9, LimitTypes
  <2>3. \A i \in 1..Len(out') : ~SupervisorStops(out'[i])
    BY <1>2, <1>5, <1>6, <1>9
  <2> QED
    BY <1>1, <1>2, <1>5, <1>7, <2>1, <2>2, <2>3 DEF ResultsInv, Working
<1> QED
  BY <1>8, <1>9

(* A step of the supervisor between cases, or its end.                     *)
LEMMA ResultsFrame ==
  ASSUME ResultsInv, UNCHANGED <<current, out, behaved>>,
         \/ sup' = sup
         \/ sup' \in {"failed", "hung", "gone"}
         \/ sup \in {"start", "reset"} /\ sup' \in {"reset", "run"}
         \/ sup \in {"kill", "clean"} /\ sup' \in {"clean", "write"}
  PROVE  ResultsInv'
  BY DEF ResultsInv, Working

(* The container keeps its output in step with what happened.              *)
LEMMA ContainerResults ==
  ASSUME TypeOK, ResultsInv, ContainerMoves
  PROVE  ResultsInv'
<1>1. ASSUME NEW b \in Behaviours, RunCase(b)
      PROVE  ResultsInv'
  BY <1>1, CaseResultsKept DEF RunCase
<1>2. CASE ChildNotStarted
  BY <1>2, CaseResultsKept DEF ChildNotStarted
<1>3. CASE WriteResult
  BY <1>3, WriteResultKept
<1>4. CASE \/ SupervisorStarts \/ ResetBeforeCase \/ KillRound \/ KillEnds \/ CleanCase
           \/ SupervisorFails \/ SupervisorDies \/ SupervisorHangs \/ LeftoverWrites
  BY <1>4, ResultsFrame DEF SupervisorStarts, ResetBeforeCase, KillRound, KillEnds, CleanCase,
     SupervisorFails, SupervisorDies, SupervisorHangs, LeftoverWrites
<1> QED
  BY <1>1, <1>2, <1>3, <1>4 DEF ContainerMoves

(* The kills end only when nobody is left, and the cleaning comes after    *)
(* them: nothing of a case is there when the next one starts, or when the  *)
(* supervisor has ended.                                                   *)
LEMMA ContainerQuiet ==
  ASSUME TypeOK, QuietInv, ReleasedIsQuiet, ContainerMoves
  PROVE  QuietInv' /\ ReleasedIsQuiet'
<1>1. UNCHANGED <<server, box>>
  BY ContainerFrame
<1>2. sup \in {"exited", "gone"} => sup' = sup /\ UNCHANGED <<alive, dirty>>
  BY DEF QuietInv, ContainerMoves, SupervisorStarts, ResetBeforeCase, RunCase, ChildNotStarted, KillRound,
     KillEnds, CleanCase, WriteResult, SupervisorFails, SupervisorDies, SupervisorHangs, LeftoverWrites
<1>3. ReleasedIsQuiet'
  BY <1>1, <1>2 DEF ReleasedIsQuiet
<1>4. server' = "judging" => sup' = "exited"
  BY <1>1, <1>2 DEF QuietInv
<1> DEFINE Quiet == /\ sup \in {"start", "reset", "run", "clean", "write", "exited", "gone"} => ~alive
                    /\ sup \in {"run", "write", "exited", "gone"} => ~dirty
<1>5. Quiet'
  <2>1. CASE SupervisorStarts \/ ResetBeforeCase
    BY <2>1 DEF SupervisorStarts, ResetBeforeCase, QuietInv
  <2>2. ASSUME NEW b \in Behaviours, RunCase(b)
        PROVE  Quiet'
    BY <2>2 DEF RunCase
  <2>3. CASE ChildNotStarted \/ KillRound
    BY <2>3 DEF ChildNotStarted, KillRound
  <2>4. CASE KillEnds \/ CleanCase \/ WriteResult
    BY <2>4 DEF KillEnds, CleanCase, WriteResult, QuietInv
  <2>5. CASE SupervisorFails \/ SupervisorDies \/ SupervisorHangs
    BY <2>5 DEF SupervisorFails, SupervisorDies, SupervisorHangs
  <2>6. CASE LeftoverWrites
    BY <2>6 DEF LeftoverWrites, QuietInv
  <2> QED
    BY <2>1, <2>2, <2>3, <2>4, <2>5, <2>6 DEF ContainerMoves
<1> QED
  BY <1>3, <1>4, <1>5 DEF QuietInv

(* A verdict that was reached stays earned, and the loop's progress true:  *)
(* the supervisor had ended before.                                        *)
LEMMA ContainerVerdict ==
  ASSUME TypeOK, QuietInv, JudgeInv, VerdictIsEarned, ContainerMoves
  PROVE  JudgeInv' /\ VerdictIsEarned'
<1>1. UNCHANGED <<server, judged, verdict, submission>>
  BY ContainerFrame
<1>2. sup = "exited" => UNCHANGED <<sup, out, behaved>>
  BY DEF QuietInv, ContainerMoves, SupervisorStarts, ResetBeforeCase, RunCase, ChildNotStarted, KillRound,
     KillEnds, CleanCase, WriteResult, SupervisorFails, SupervisorDies, SupervisorHangs, LeftoverWrites
<1>3. JudgeInv'
  BY <1>1, <1>2 DEF JudgeInv, QuietInv
<1>4. VerdictIsEarned'
  <2>1. CASE submission = "finished"
    <3>1. UNCHANGED <<submission, verdict, behaved>>
      BY <1>1, <1>2, <2>1 DEF JudgeInv
    <3> QED
      BY <3>1 DEF VerdictIsEarned, FirstFailure
  <2>2. CASE submission # "finished"
    BY <1>1, <2>2 DEF VerdictIsEarned
  <2> QED
    BY <2>1, <2>2
<1> QED
  BY <1>3, <1>4

(* One more case has one more share of the wall time.                      *)
LEMMA OneMoreShare ==
  ASSUME NEW n \in Nat, NEW k \in Nat
  PROVE  (n + 1) * k = n * k + k /\ n * k \in Nat
  OBVIOUS

(* Unless something went wrong, the clock shows no more than the shares of *)
(* the cases that were run.                                                *)
LEMMA ContainerCause ==
  ASSUME TypeOK, CauseInv, ContainerMoves
  PROVE  CauseInv'
<1> DEFINE K == WallLimitMs + CaseOverheadMs
<1>1. UNCHANGED <<server, submission, cancelled>>
  BY ContainerFrame
<1>2. CASE Fault
  BY <1>2, FaultIsCause
<1>3. ASSUME NEW b \in Behaviours, RunCase(b)
      PROVE  CauseInv'
  <2>1. /\ sup' = "kill" /\ UNCHANGED faults /\ behaved' = Append(behaved, b)
        /\ clock' = Min({clock + b.wall + CaseOverheadMs, BudgetMs})
    BY <1>3 DEF RunCase
  <2>2. Len(behaved') = Len(behaved) + 1 /\ Len(behaved) \in Nat
    BY <2>1, AppendFields DEF TypeOK
  <2>3. clock \in Nat /\ b.wall \in Nat /\ b.wall <= WallLimitMs /\ CaseOverheadMs \in Nat
    BY BehaviourFields, LimitTypes, SamplesAssumption DEF TypeOK
  <2>4. clock' <= clock + b.wall + CaseOverheadMs /\ clock' \in Nat
    <3>1. clock + b.wall + CaseOverheadMs \in Nat /\ BudgetMs \in Nat
      BY <2>3, LimitTypes
    <3>2. /\ clock' \in {clock + b.wall + CaseOverheadMs, BudgetMs}
          /\ clock' <= clock + b.wall + CaseOverheadMs
      BY <2>1, <3>1, MinOfTwo
    <3> QED
      BY <3>1, <3>2
  <2>5. K \in Nat /\ b.wall + CaseOverheadMs <= K
    BY <2>3, LimitTypes
  <2> HIDE DEF K
  <2>6. Len(behaved') * K = Len(behaved) * K + K /\ Len(behaved) * K \in Nat
    BY <2>2, <2>5, OneMoreShare
  <2>7. faults = MaxFaults => clock <= Len(behaved) * K
    BY DEF CauseInv, K
  <2>8. faults = MaxFaults => clock' <= Len(behaved') * K
    BY <2>3, <2>4, <2>5, <2>6, <2>7
  <2> QED
    BY <1>1, <2>1, <2>8 DEF CauseInv, FailureHasCause, K
<1>4. CASE /\ UNCHANGED <<faults, clock, behaved>>
           /\ sup' = sup \/ sup' \notin {"failed", "hung"}
  BY <1>1, <1>4 DEF CauseInv, FailureHasCause
<1>5. CASE SupervisorStarts \/ ResetBeforeCase \/ KillEnds \/ CleanCase \/ WriteResult \/ LeftoverWrites
  <2>1. UNCHANGED <<faults, clock, behaved>>
    BY <1>5 DEF SupervisorStarts, ResetBeforeCase, KillEnds, CleanCase, WriteResult, LeftoverWrites
  <2>2. sup' = sup \/ sup' \notin {"failed", "hung"}
    BY <1>5 DEF SupervisorStarts, ResetBeforeCase, KillEnds, CleanCase, WriteResult, LeftoverWrites
  <2> QED
    BY <1>4, <2>1, <2>2
<1>6. CASE KillRound
  BY <1>2, <1>4, <1>6 DEF KillRound
<1>7. CASE ChildNotStarted \/ SupervisorFails \/ SupervisorDies \/ SupervisorHangs
  BY <1>2, <1>7 DEF ChildNotStarted, SupervisorFails, SupervisorDies, SupervisorHangs
<1> QED
  BY <1>3, <1>5, <1>6, <1>7 DEF ContainerMoves

-----------------------------------------------------------------------------
(* The server.                                                             *)

(* The server leaves the record of the run alone; only the restart of the  *)
(* container reaches into it.                                              *)
LEMMA ServerFrame ==
  ASSUME ServerMoves
  PROVE  /\ UNCHANGED <<cancelled, clock, current, out, behaved>>
         /\ UNCHANGED <<sup, alive, dirty>> \/ RestartSandbox
  BY DEF ServerMoves, RunInterrupted, RestartSandbox, RestartFails, ExecFails, SupervisorFailed,
     SupervisorEnded, JudgeStops, JudgePasses, JudgeAccepts

(* A result has its numbers and its status.                                *)
LEMMA ResultTypes ==
  ASSUME NEW r \in CaseResults
  PROVE  r.cpu \in Nat /\ r.rss \in Nat /\ CaseStatus(r) \in Statuses
<1>1. PICK b \in AllBehaviours : r = CaseResult(b)
  BY DEF CaseResults
<1>2. r.cpu \in Nat /\ r.rss \in Nat
  BY <1>1, ResultFields, BehaviourFields
<1>3. CaseStatus(r) \in Statuses
  BY DEF CaseStatus, Statuses
<1> QED
  BY <1>2, <1>3

(* The largest memory and the largest runtime of some results are numbers. *)
LEMMA MaximaAreNumbers ==
  ASSUME TypeOK, NEW n \in 1..Len(out)
  PROVE  MaxMemory(n) \in Nat /\ MaxRuntime(n) \in Nat
<1>1. n \in Nat /\ n > 0 /\ \A i \in 1..n : out[i] \in CaseResults
  BY DEF TypeOK
<1>2. /\ [i \in 1..n |-> out[i].rss] \in [1..n -> Nat]
      /\ [i \in 1..n |-> out[i].cpu] \in [1..n -> Nat]
  BY <1>1, ResultTypes
<1>3. MaxMemory(n) \in Nat
  <2> DEFINE f == [i \in 1..n |-> out[i].rss]
  <2>1. {f[i] : i \in 1..n} = {out[i].rss : i \in 1..n}
    OBVIOUS
  <2>2. Max({f[i] : i \in 1..n}) \in Nat
    BY <1>1, <1>2, MaxIsNatural
  <2> QED
    BY <2>1, <2>2 DEF MaxMemory
<1>4. MaxRuntime(n) \in Nat
  <2> DEFINE f == [i \in 1..n |-> out[i].cpu]
  <2>1. {f[i] : i \in 1..n} = {out[i].cpu : i \in 1..n}
    OBVIOUS
  <2>2. Max({f[i] : i \in 1..n}) \in Nat
    BY <1>1, <1>2, MaxIsNatural
  <2> QED
    BY <2>1, <2>2 DEF MaxRuntime
<1> QED
  BY <1>3, <1>4

(* The server returns a well formed verdict, and keeps the types.          *)
LEMMA ServerTypes ==
  ASSUME TypeOK, JudgeInv, ServerMoves
  PROVE  TypeOK'
<1> DEFINE Verdicts == [status: Statuses \cup {"none"}, passed: 0..Cases, runtime: Nat, memory: Nat]
<1>1. /\ UNCHANGED <<cancelled, clock, current, out, behaved>>
      /\ UNCHANGED <<sup, alive, dirty>> \/ RestartSandbox
  BY ServerFrame
<1>2. faults' \in 0..MaxFaults
  BY FaultCounts DEF ServerMoves, RunInterrupted, RestartSandbox, RestartFails, ExecFails, SupervisorFailed,
     SupervisorEnded, JudgeStops, JudgePasses, JudgeAccepts, TypeOK
<1>3. /\ server' \in {"supervising", "restarting", "judging", "done"}
      /\ submission' \in {"running", "finished", "failed"}
  BY DEF ServerMoves, RunInterrupted, RestartSandbox, RestartFails, ExecFails, SupervisorFailed,
     SupervisorEnded, JudgeStops, JudgePasses, JudgeAccepts, Return, TypeOK
<1>4. judged' \in 0..Cases
  BY LimitTypes DEF ServerMoves, RunInterrupted, RestartSandbox, RestartFails, ExecFails, SupervisorFailed,
     SupervisorEnded, JudgeStops, JudgePasses, JudgeAccepts, Return, TypeOK
<1>5. box' \in [needsReplace: BOOLEAN, restarted: BOOLEAN]
  BY DEF ServerMoves, RunInterrupted, RestartSandbox, RestartFails, ExecFails, SupervisorFailed,
     SupervisorEnded, JudgeStops, JudgePasses, JudgeAccepts, TypeOK
<1>6. /\ sup' \in {"start", "reset", "run", "kill", "clean", "write", "exited", "failed", "hung", "gone"}
      /\ alive' \in BOOLEAN /\ dirty' \in BOOLEAN
  BY <1>1 DEF RestartSandbox, TypeOK
<1>7. verdict' \in Verdicts
  <2>1. Infrastructure \in Verdicts
    BY LimitTypes DEF Infrastructure, Statuses
  <2>2. CASE UNCHANGED verdict \/ verdict' = Infrastructure
    BY <2>1, <2>2 DEF TypeOK
  <2>3. CASE JudgeStops /\ verdict' # Infrastructure
    <3>1. /\ judged + 1 \in 1..Len(out) /\ judged \in 0..Cases
          /\ verdict' = [status |-> CaseStatus(out[judged + 1]), passed |-> judged,
                         runtime |-> out[judged + 1].cpu, memory |-> MaxMemory(judged + 1)]
      BY <2>3 DEF JudgeStops, Return, TypeOK
    <3>2. out[judged + 1] \in CaseResults
      BY <3>1 DEF TypeOK
    <3>3. out[judged + 1].cpu \in Nat /\ CaseStatus(out[judged + 1]) \in Statuses
      BY <3>2, ResultTypes
    <3>4. MaxMemory(judged + 1) \in Nat
      BY <3>1, MaximaAreNumbers
    <3> QED
      BY <3>1, <3>3, <3>4
  <2>4. CASE JudgeAccepts
    <3>1. /\ judged = Cases /\ Cases \in 1..Len(out)
          /\ verdict' = [status |-> "accepted", passed |-> judged,
                         runtime |-> MaxRuntime(Cases), memory |-> MaxMemory(Cases)]
      BY <2>4, LimitTypes DEF JudgeAccepts, Return, JudgeInv, TypeOK
    <3>2. MaxMemory(Cases) \in Nat /\ MaxRuntime(Cases) \in Nat
      BY <3>1, MaximaAreNumbers
    <3> QED
      BY <3>1, <3>2, LimitTypes DEF Statuses
  <2> QED
    BY <2>2, <2>3, <2>4 DEF ServerMoves, RunInterrupted, RestartSandbox, RestartFails, ExecFails,
       SupervisorFailed, SupervisorEnded, JudgePasses, Return
<1> QED
  BY <1>1, <1>2, <1>3, <1>4, <1>5, <1>6, <1>7 DEF TypeOK

(* The results stand, whatever the server does.                            *)
LEMMA ServerResults ==
  ASSUME ResultsInv, ServerMoves
  PROVE  ResultsInv'
<1>1. UNCHANGED <<current, out, behaved>> /\ (sup' = sup \/ sup' = "gone")
  BY ServerFrame DEF RestartSandbox
<1> QED
  BY <1>1, ResultsFrame

(* The server returns with a sandbox that is quiet or that it condemned.   *)
LEMMA ServerQuiet ==
  ASSUME TypeOK, QuietInv, ReleasedIsQuiet, ServerMoves
  PROVE  QuietInv' /\ ReleasedIsQuiet'
<1>1. CASE RunInterrupted \/ SupervisorEnded \/ JudgePasses
  BY <1>1 DEF RunInterrupted, SupervisorEnded, JudgePasses, QuietInv, ReleasedIsQuiet
<1>2. CASE RestartSandbox
  BY <1>2 DEF RestartSandbox, Return, QuietInv, ReleasedIsQuiet
<1>3. CASE RestartFails \/ ExecFails \/ SupervisorFailed
  <2>1. box'.needsReplace /\ server' = "done" /\ UNCHANGED <<sup, alive, dirty>>
    BY <1>3 DEF RestartFails, ExecFails, SupervisorFailed, Return, TypeOK
  <2> QED
    BY <2>1 DEF QuietInv, ReleasedIsQuiet
<1>4. CASE JudgeStops \/ JudgeAccepts
  <2>1. server' = "done" /\ UNCHANGED <<sup, alive, dirty>> /\ server = "judging"
    BY <1>4 DEF JudgeStops, JudgeAccepts, Return
  <2> QED
    BY <2>1 DEF QuietInv, ReleasedIsQuiet
<1> QED
  BY <1>1, <1>2, <1>3, <1>4 DEF ServerMoves

(* When the server judges, it has one result for each case that was run,   *)
(* and those it passed were answered correctly within the limits.          *)
LEMMA Judging ==
  ASSUME TypeOK, ResultsInv, QuietInv, JudgeInv, server = "judging"
  PROVE  /\ Len(behaved) = Len(out) /\ judged \in 0..Len(out) /\ Len(out) \in 0..Cases /\ sup = "exited"
         /\ \A i \in 1..Len(out) : behaved[i] \in AllBehaviours /\ out[i] = CaseResult(behaved[i])
         /\ \A i \in 1..judged : Within(behaved[i]) /\ behaved[i].correct
<1>1. /\ Len(behaved) = Len(out) /\ judged \in 0..Len(out) /\ Len(out) \in 0..Cases /\ sup = "exited"
      /\ \A i \in 1..Len(out) : out[i] = CaseResult(behaved[i])
      /\ \A i \in 1..judged : CaseStatus(out[i]) = "accepted"
  BY LimitTypes DEF TypeOK, ResultsInv, QuietInv, JudgeInv
<1>2. \A i \in 1..Len(out) : behaved[i] \in AllBehaviours
  BY <1>1 DEF TypeOK
<1>3. ASSUME NEW i \in 1..judged
      PROVE  Within(behaved[i]) /\ behaved[i].correct
  <2>1. i \in 1..Len(out)
    BY <1>1
  <2> QED
    BY <1>1, <1>2, <2>1, StatusIsEarned
<1> QED
  BY <1>1, <1>2, <1>3

(* The loop counts the cases it has passed.                                *)
LEMMA ServerJudges ==
  ASSUME TypeOK, ResultsInv, QuietInv, JudgeInv, ServerMoves
  PROVE  JudgeInv'
<1>1. CASE RunInterrupted \/ RestartSandbox \/ RestartFails \/ ExecFails \/ SupervisorFailed
  BY <1>1 DEF RunInterrupted, RestartSandbox, RestartFails, ExecFails, SupervisorFailed, Return,
     Infrastructure, JudgeInv
<1>2. CASE SupervisorEnded
  BY <1>2 DEF SupervisorEnded, JudgeInv, TypeOK
<1>3. CASE JudgeStops \/ JudgeAccepts
  <2>1. server' = "done" /\ server = "judging" /\ UNCHANGED sup
    BY <1>3 DEF JudgeStops, JudgeAccepts, Return
  <2> QED
    BY <2>1 DEF JudgeInv, QuietInv
<1>4. CASE JudgePasses
  <2>1. /\ judged' = judged + 1 /\ server = "judging" /\ judged < Len(out)
        /\ CaseStatus(out[judged + 1]) = "accepted"
        /\ UNCHANGED <<server, submission, sup, out>>
    BY <1>4 DEF JudgePasses
  <2>2. judged \in Nat /\ Len(out) \in Nat
    BY LimitTypes DEF TypeOK
  <2>3. \A i \in 1..judged' : i = judged + 1 \/ i \in 1..judged
    BY <2>1, <2>2
  <2> QED
    BY <2>1, <2>2, <2>3 DEF JudgeInv
<1> QED
  BY <1>1, <1>2, <1>3, <1>4 DEF ServerMoves

(* The verdict is the one the program earned: the case the loop stops at   *)
(* is the first one that failed.                                           *)
LEMMA ServerVerdict ==
  ASSUME TypeOK, ResultsInv, QuietInv, JudgeInv, VerdictIsEarned, ServerMoves
  PROVE  VerdictIsEarned'
<1>1. UNCHANGED <<out, behaved>>
  BY ServerFrame
<1>2. CASE submission' # "finished"
  BY <1>2 DEF VerdictIsEarned
<1>3. CASE RestartSandbox \/ RestartFails \/ ExecFails \/ SupervisorFailed
  BY <1>2, <1>3 DEF RestartSandbox, RestartFails, ExecFails, SupervisorFailed, Return, Infrastructure
<1>4. CASE RunInterrupted \/ SupervisorEnded \/ JudgePasses
  <2>1. UNCHANGED submission /\ server # "done"
    BY <1>4 DEF RunInterrupted, SupervisorEnded, JudgePasses
  <2> QED
    BY <1>2, <2>1 DEF JudgeInv
<1>5. CASE JudgeStops
  <2> DEFINE i == judged + 1
  <2>1. CASE verdict' = Infrastructure
    BY <1>2, <1>5, <2>1 DEF JudgeStops, Return, Infrastructure
  <2>2. CASE verdict' # Infrastructure
    <3>1. /\ i <= Len(out) /\ CaseStatus(out[i]) # "accepted" /\ server = "judging"
          /\ verdict' = [status |-> CaseStatus(out[i]), passed |-> judged,
                         runtime |-> out[i].cpu, memory |-> MaxMemory(i)]
      BY <1>5, <2>2 DEF JudgeStops, Return
    <3>2. /\ Len(behaved) = Len(out) /\ judged \in 0..Len(out) /\ Len(out) \in Nat
          /\ \A j \in 1..Len(out) : behaved[j] \in AllBehaviours /\ out[j] = CaseResult(behaved[j])
          /\ \A j \in 1..judged : Within(behaved[j]) /\ behaved[j].correct
      BY <3>1, Judging, LimitTypes
    <3>3. i \in 1..Len(out) /\ i \in Nat /\ i - 1 = judged
      BY <3>1, <3>2
    <3>4. behaved[i] \in AllBehaviours /\ out[i] = CaseResult(behaved[i])
      BY <3>2, <3>3
    <3>5. /\ ~(Within(behaved[i]) /\ behaved[i].correct)
          /\ CaseStatus(out[i]) \in Blames(behaved[i])
          /\ out[i].cpu = behaved[i].cpu
      BY <3>1, <3>4, StatusIsEarned, ResultFields
    <3> DEFINE F == {j \in 1..Len(behaved) : ~(Within(behaved[j]) /\ behaved[j].correct)}
    <3>6. FirstFailure = i
      <4>1. F \in SUBSET Nat
        BY <3>2
      <4>2. i \in F
        BY <3>2, <3>3, <3>5
      <4>3. \A j \in F : i <= j
        <5> SUFFICES ASSUME NEW j \in F, ~(i <= j) PROVE FALSE
          OBVIOUS
        <5>1. j \in 1..judged
          BY <3>2, <3>3
        <5> QED
          BY <3>2, <5>1
      <4> HIDE DEF F
      <4>4. Min(F) = i
        BY <4>1, <4>2, <4>3, MinIs
      <4> QED
        BY <4>4 DEF FirstFailure, F
    <3>7. {out[j].rss : j \in 1..i} = {behaved[j].rss : j \in 1..i}
      <4>1. \A j \in 1..i : out[j].rss = behaved[j].rss
        BY <3>2, <3>3, ResultFields
      <4> QED
        BY <4>1
    <3>8. MaxMemory(i) = Max({behaved[j].rss : j \in 1..i})
      BY <3>7 DEF MaxMemory
    <3>9. /\ verdict'.passed = i - 1 /\ verdict'.status = CaseStatus(out[i])
          /\ verdict'.runtime = out[i].cpu /\ verdict'.memory = MaxMemory(i)
      BY <3>1, <3>3
    <3>10. FirstFailure' = i
      BY <1>1, <3>6 DEF FirstFailure
    <3>11. \E j \in 1..Len(behaved') : ~(Within(behaved'[j]) /\ behaved'[j].correct)
      BY <1>1, <3>2, <3>3, <3>5
    <3> HIDE DEF i
    <3>12. /\ verdict'.passed = FirstFailure' - 1
           /\ verdict'.status \in Blames(behaved'[FirstFailure'])
           /\ verdict'.runtime = behaved'[FirstFailure'].cpu
           /\ verdict'.memory = Max({behaved'[j].rss : j \in 1..FirstFailure'})
      BY <1>1, <3>5, <3>8, <3>9, <3>10
    <3> QED
      BY <3>11, <3>12 DEF VerdictIsEarned
  <2> QED
    BY <2>1, <2>2
<1>6. CASE JudgeAccepts
  <2>1. /\ server = "judging" /\ judged = Cases
        /\ verdict' = [status |-> "accepted", passed |-> judged,
                       runtime |-> MaxRuntime(Cases), memory |-> MaxMemory(Cases)]
    BY <1>6 DEF JudgeAccepts, Return
  <2>2. /\ Len(behaved) = Cases /\ Len(out) = Cases
        /\ \A j \in 1..Cases : behaved[j] \in AllBehaviours /\ out[j] = CaseResult(behaved[j])
        /\ \A j \in 1..Cases : Within(behaved[j]) /\ behaved[j].correct
    BY <2>1, Judging, LimitTypes
  <2>3. \A j \in 1..Cases : out[j].rss = behaved[j].rss /\ out[j].cpu = behaved[j].cpu
    BY <2>2, ResultFields
  <2>4. /\ {out[j].rss : j \in 1..Cases} = {behaved[j].rss : j \in 1..Cases}
        /\ {out[j].cpu : j \in 1..Cases} = {behaved[j].cpu : j \in 1..Cases}
    BY <2>3
  <2>5. /\ verdict'.status = "accepted" /\ verdict'.passed = Cases
        /\ verdict'.runtime = Max({behaved[j].cpu : j \in 1..Cases})
        /\ verdict'.memory = Max({behaved[j].rss : j \in 1..Cases})
    BY <2>1, <2>4 DEF MaxRuntime, MaxMemory
  <2> QED
    BY <1>1, <2>2, <2>5 DEF VerdictIsEarned
<1> QED
  BY <1>3, <1>4, <1>5, <1>6 DEF ServerMoves

(* The wall time of some cases is at most that of all of them.             *)
LEMMA SharesAddUp ==
  ASSUME NEW m \in Nat, NEW n \in Nat, NEW k \in Nat, m <= n
  PROVE  m * k <= n * k
  OBVIOUS

(* A budget that suffices runs out only when something went wrong.         *)
LEMMA BudgetHasCause ==
  ASSUME TypeOK, CauseInv, BudgetSuffices, CtxDone
  PROVE  faults < MaxFaults
<1> DEFINE K == WallLimitMs + CaseOverheadMs
<1>1. CASE cancelled
  BY <1>1 DEF CauseInv
<1>2. CASE clock >= BudgetMs
  <2>1. /\ clock \in Nat /\ Len(behaved) \in Nat /\ Len(behaved) <= Cases
        /\ K \in Nat /\ Cases \in Nat /\ BudgetMs \in Nat
    BY LimitTypes DEF TypeOK
  <2>2. faults = MaxFaults => clock <= Len(behaved) * K
    BY DEF CauseInv
  <2>3. Cases * K < BudgetMs
    BY DEF BudgetSuffices
  <2> HIDE DEF K
  <2>4. Len(behaved) * K <= Cases * K /\ Len(behaved) * K \in Nat /\ Cases * K \in Nat
    BY <2>1, SharesAddUp, OneMoreShare
  <2>5. faults # MaxFaults
    BY <1>2, <2>1, <2>2, <2>3, <2>4
  <2>6. faults \in 0..MaxFaults /\ MaxFaults \in Nat
    BY SamplesAssumption DEF TypeOK
  <2> QED
    BY <2>5, <2>6
<1> QED
  BY <1>1, <1>2 DEF CtxDone

(* The verdict loop misses a result only when the context was cancelled:   *)
(* results that decode are as many as the cases, or end in one that is not *)
(* accepted.                                                               *)
LEMMA NoResultIsMissing ==
  ASSUME TypeOK, ResultsInv, QuietInv, JudgeInv, server = "judging", judged < Cases
  PROVE  judged + 1 <= Len(out)
<1>1. /\ Len(behaved) = Len(out) /\ judged \in 0..Len(out) /\ Len(out) \in Nat /\ sup = "exited"
      /\ \A i \in 1..Len(out) : behaved[i] \in AllBehaviours /\ out[i] = CaseResult(behaved[i])
      /\ \A i \in 1..judged : Within(behaved[i]) /\ behaved[i].correct
  BY Judging, LimitTypes
<1>2. Decodes(out)
  BY <1>1 DEF ResultsInv
<1> SUFFICES ASSUME judged = Len(out) PROVE FALSE
  BY <1>1
<1>3. out # <<>> /\ DecoderStops(out[Len(out)])
  BY <1>2, LimitTypes DEF Decodes
<1>4. Len(out) \in 1..Len(out)
  BY <1>1, <1>3 DEF TypeOK
<1>5. CaseStatus(out[Len(out)]) = "accepted"
  BY <1>1, <1>4, StatusIsEarned
<1> QED
  BY <1>1, <1>3, <1>4, <1>5, StatusIsEarned

(* The server fails a submission only for what counts as a fault.          *)
LEMMA ServerCause ==
  ASSUME TypeOK, ResultsInv, QuietInv, JudgeInv, CauseInv, ServerMoves
  PROVE  CauseInv'
<1>1. /\ UNCHANGED <<cancelled, clock, behaved>>
      /\ UNCHANGED sup \/ sup' = "gone"
  BY ServerFrame DEF RestartSandbox
<1>2. CASE Fault
  BY <1>2, FaultIsCause
<1>3. ASSUME UNCHANGED faults,
             server' = "restarting" /\ BudgetSuffices => faults < MaxFaults,
             submission' = "failed" /\ BudgetSuffices => faults < MaxFaults
      PROVE  CauseInv'
  BY <1>1, <1>3 DEF CauseInv, FailureHasCause
<1>4. CASE RestartFails \/ ExecFails
  BY <1>2, <1>4 DEF RestartFails, ExecFails
<1>5. CASE RunInterrupted
  <2>1. /\ CtxDone /\ UNCHANGED <<faults, submission>>
    BY <1>5 DEF RunInterrupted
  <2>2. BudgetSuffices => faults < MaxFaults
    BY <2>1, BudgetHasCause
  <2> QED
    BY <1>3, <2>1, <2>2
<1>6. CASE RestartSandbox
  <2>1. server = "restarting" /\ UNCHANGED faults
    BY <1>6 DEF RestartSandbox
  <2>2. BudgetSuffices => faults < MaxFaults
    BY <2>1 DEF CauseInv
  <2> QED
    BY <1>3, <2>1, <2>2
<1>7. CASE SupervisorFailed
  <2>1. UNCHANGED faults /\ sup \in {"failed", "exited"} /\ (sup = "exited" => ~Decodes(out))
    BY <1>7 DEF SupervisorFailed
  <2>2. faults < MaxFaults
    BY <2>1 DEF CauseInv, ResultsInv
  <2> QED
    BY <1>3, <2>1, <2>2
<1>8. CASE SupervisorEnded \/ JudgePasses
  <2>1. /\ UNCHANGED <<faults, submission>> /\ server' # "restarting"
        /\ server \in {"supervising", "judging"}
    BY <1>8 DEF SupervisorEnded, JudgePasses
  <2>2. submission # "failed"
    BY <2>1 DEF JudgeInv
  <2> QED
    BY <1>3, <2>1, <2>2
<1>9. CASE JudgeStops
  <2>1. server = "judging" /\ judged < Cases /\ server' = "done" /\ UNCHANGED faults
    BY <1>9 DEF JudgeStops, Return
  <2>2. judged + 1 <= Len(out)
    BY <2>1, NoResultIsMissing
  <2>3. CaseStatus(out[judged + 1]) # "infrastructure_error"
    BY DEF CaseStatus
  <2>4. submission' = "failed" => cancelled
    BY <1>9, <2>2, <2>3 DEF JudgeStops, Return
  <2>5. cancelled => faults < MaxFaults
    BY DEF CauseInv
  <2> QED
    BY <1>3, <2>1, <2>4, <2>5
<1>10. CASE JudgeAccepts
  BY <1>3, <1>10 DEF JudgeAccepts, Return
<1> QED
  BY <1>4, <1>5, <1>6, <1>7, <1>8, <1>9, <1>10 DEF ServerMoves

-----------------------------------------------------------------------------
(* The theorems.                                                           *)

(* The invariant holds at the start.                                       *)
LEMMA InitIndInv == Init => IndInv
<1> SUFFICES ASSUME Init PROVE IndInv
  OBVIOUS
<1> USE DEF Init
<1>1. TypeOK
  <2>1. verdict \in [status: Statuses \cup {"none"}, passed: 0..Cases, runtime: Nat, memory: Nat]
    BY LimitTypes DEF NoVerdict
  <2>2. faults \in 0..MaxFaults
    BY SamplesAssumption
  <2>3. judged \in 0..Cases /\ clock \in 0..BudgetMs
    BY LimitTypes
  <2>4. /\ out \in Seq(CaseResults) /\ Len(out) <= Cases
        /\ behaved \in Seq(AllBehaviours) /\ Len(behaved) <= Cases
    BY LimitTypes
  <2>5. /\ box \in [needsReplace: BOOLEAN, restarted: BOOLEAN]
        /\ current \in CaseResults \cup {NoResult} /\ cancelled \in BOOLEAN
        /\ alive \in BOOLEAN /\ dirty \in BOOLEAN
    OBVIOUS
  <2> QED
    BY <2>1, <2>2, <2>3, <2>4, <2>5 DEF TypeOK
<1>2. ResultsInv
  BY LimitTypes DEF ResultsInv, Working
<1>3. QuietInv /\ ReleasedIsQuiet /\ JudgeInv /\ VerdictIsEarned
  BY DEF QuietInv, ReleasedIsQuiet, JudgeInv, VerdictIsEarned
<1>4. CauseInv
  BY LimitTypes DEF CauseInv, FailureHasCause
<1> QED
  BY <1>1, <1>2, <1>3, <1>4 DEF IndInv

(* A cancelled context is a fault; nothing else changes.                   *)
LEMMA CancelKeeps ==
  ASSUME IndInv, Cancel
  PROVE  IndInv'
<1>1. TypeOK /\ Fault /\ cancelled' = TRUE /\ UNCHANGED <<serverVars, clock, supVars, fsVars>>
  BY DEF IndInv, Cancel
<1>2. TypeOK'
  BY <1>1, FaultCounts DEF TypeOK
<1>3. CauseInv'
  BY <1>1, FaultIsCause
<1>4. ResultsInv' /\ QuietInv' /\ ReleasedIsQuiet' /\ JudgeInv'
  BY <1>1 DEF IndInv, ResultsInv, Working, QuietInv, ReleasedIsQuiet, JudgeInv
<1>5. VerdictIsEarned'
  BY <1>1 DEF IndInv, VerdictIsEarned, FirstFailure
<1> QED
  BY <1>2, <1>3, <1>4, <1>5 DEF IndInv

(* Time passes only while the supervisor hangs, which is a fault.          *)
LEMMA TimeKeeps ==
  ASSUME IndInv, TimePasses
  PROVE  IndInv'
<1>1. /\ sup = "hung" /\ clock' = BudgetMs
      /\ UNCHANGED <<serverVars, cancelled, supVars, fsVars, faults>>
  BY DEF TimePasses
<1>2. TypeOK'
  BY <1>1, LimitTypes DEF IndInv, TypeOK
<1>3. CauseInv'
  <2>1. faults \in 0..MaxFaults /\ MaxFaults \in Nat /\ CauseInv
    BY SamplesAssumption DEF IndInv, TypeOK
  <2>2. faults # MaxFaults
    BY <1>1, <2>1 DEF CauseInv
  <2> QED
    BY <1>1, <2>1, <2>2 DEF CauseInv, FailureHasCause
<1>4. ResultsInv' /\ QuietInv' /\ ReleasedIsQuiet' /\ JudgeInv'
  BY <1>1 DEF IndInv, ResultsInv, Working, QuietInv, ReleasedIsQuiet, JudgeInv
<1>5. VerdictIsEarned'
  BY <1>1 DEF IndInv, VerdictIsEarned, FirstFailure
<1> QED
  BY <1>2, <1>3, <1>4, <1>5 DEF IndInv

(* Every step keeps the invariant.                                         *)
LEMMA NextIndInv == IndInv /\ [Next]_vars => IndInv'
<1> SUFFICES ASSUME IndInv, [Next]_vars PROVE IndInv'
  OBVIOUS
<1>0. TypeOK /\ ResultsInv /\ QuietInv /\ ReleasedIsQuiet /\ JudgeInv /\ VerdictIsEarned /\ CauseInv
  BY DEF IndInv
<1>1. CASE ContainerMoves
  <2>1. TypeOK' /\ ResultsInv'
    BY <1>0, <1>1, ContainerTypes, ContainerResults
  <2>2. QuietInv' /\ ReleasedIsQuiet'
    BY <1>0, <1>1, ContainerQuiet
  <2>3. JudgeInv' /\ VerdictIsEarned' /\ CauseInv'
    BY <1>0, <1>1, ContainerVerdict, ContainerCause
  <2> QED
    BY <2>1, <2>2, <2>3 DEF IndInv
<1>2. CASE ServerMoves
  <2>1. TypeOK' /\ ResultsInv'
    BY <1>0, <1>2, ServerTypes, ServerResults
  <2>2. QuietInv' /\ ReleasedIsQuiet'
    BY <1>0, <1>2, ServerQuiet
  <2>3. JudgeInv' /\ VerdictIsEarned' /\ CauseInv'
    BY <1>0, <1>2, ServerJudges, ServerVerdict, ServerCause
  <2> QED
    BY <2>1, <2>2, <2>3 DEF IndInv
<1>3. CASE Cancel
  BY <1>3, CancelKeeps
<1>4. CASE TimePasses
  BY <1>4, TimeKeeps
<1>5. CASE UNCHANGED vars
  <2>1. TypeOK' /\ ResultsInv' /\ QuietInv' /\ ReleasedIsQuiet'
    BY <1>0, <1>5 DEF vars, TypeOK, ResultsInv, Working, QuietInv, ReleasedIsQuiet
  <2>2. JudgeInv' /\ CauseInv'
    BY <1>0, <1>5 DEF vars, JudgeInv, CauseInv, FailureHasCause
  <2>3. VerdictIsEarned'
    BY <1>0, <1>5 DEF vars, VerdictIsEarned, FirstFailure
  <2> QED
    BY <2>1, <2>2, <2>3 DEF IndInv
<1> QED
  BY <1>1, <1>2, <1>3, <1>4, <1>5, NextSteps

(* The invariant holds throughout every run, whatever the programs do and  *)
(* however the server's time runs against the supervisor's.                *)
THEOREM Invariance == Spec => []IndInv
  BY InitIndInv, NextIndInv, PTL DEF Spec

(* Every variable keeps its type; the supervisor never prints more results *)
(* than there are cases (runSupervisor, runTestCases).                     *)
THEOREM TypeCorrect == Spec => []TypeOK
<1>1. IndInv => TypeOK
  BY DEF IndInv
<1> QED
  BY <1>1, Invariance, PTL

(* A case starts in a sandbox where nothing of an earlier case runs or     *)
(* lies about (cleanupContestantProcesses and the reset before each case). *)
THEOREM CleanStart == Spec => []CaseStartsClean
<1>1. IndInv => CaseStartsClean
  BY DEF IndInv, QuietInv, CaseStartsClean
<1> QED
  BY <1>1, Invariance, PTL

(* A sandbox that runTestCases gives back without condemning it is quiet,  *)
(* also when the server gave up on a supervisor that was still at work     *)
(* (restartSandboxAfterInterruptedRun, NeedsReplace).                      *)
THEOREM QuietRelease == Spec => []ReleasedIsQuiet
<1>1. IndInv => ReleasedIsQuiet
  BY DEF IndInv
<1> QED
  BY <1>1, Invariance, PTL

(* A verdict is the one the program earned: accepted only when every case  *)
(* was run and answered within the limits, else the failure of the first   *)
(* case that was not (decodeSupervisorResults and the verdict loop).       *)
THEOREM EarnedVerdict == Spec => []VerdictIsEarned
<1>1. IndInv => VerdictIsEarned
  BY DEF IndInv
<1> QED
  BY <1>1, Invariance, PTL

(* When the budget of the docker exec covers the wall limits of all the    *)
(* cases, a submission fails only after a fault (a Docker command, a kill  *)
(* round or the supervisor failed): supervisor and decoder agree on every  *)
(* stream of results.                                                      *)
THEOREM FailuresHaveCause == Spec => [](BudgetSuffices => FailureHasCause)
<1>1. IndInv => (BudgetSuffices => FailureHasCause)
  BY DEF IndInv, CauseInv
<1> QED
  BY <1>1, Invariance, PTL
=============================================================================
