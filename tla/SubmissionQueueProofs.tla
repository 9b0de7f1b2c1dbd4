------------------------ MODULE SubmissionQueueProofs ------------------------
(***************************************************************************)
(* Proofs about SubmissionQueue, for any number of submissions, servers,   *)
(* workers, attempts and ticks.                                            *)
(***************************************************************************)
EXTENDS SubmissionQueue, FiniteSetTheorems, TLAPS

USE SubmissionsAssumption, ServerOfAssumption, LeaseAssumption,
    AttemptsAssumption, StopsAssumption
USE DEF NoLease, Statuses, TerminalStatuses, ActivePcs,
        rowVars, admitVars, recoverVars, workerVars, serverVars

(* The part of the invariant that is about the table and the transactions  *)
(* on it, and the part that is about the workers' claims.                  *)
RowInv ==
  /\ ResultFromCurrentAttempt
  /\ QueuedHasAttemptLeft
  /\ RunningIsLeased
  /\ RecoveryReadsAreCurrent
  /\ AdmissionInv

WorkerInv == ExclusiveAttempt /\ ClaimInv

(* The inductive invariant is its three parts.                             *)
LEMMA IndInvParts == IndInv <=> TypeOK /\ RowInv /\ WorkerInv
  BY DEF IndInv, RowInv, WorkerInv

(* A step that leaves the table, the transactions on it and the admissions *)
(* alone preserves the invariants about them.                              *)
LEMMA RowInvFrame ==
  ASSUME RowInv, UNCHANGED <<rowVars, admission, expired>>
  PROVE  RowInv'
  BY DEF RowInv, ResultFromCurrentAttempt, QueuedHasAttemptLeft, RunningIsLeased,
         RecoveryReadsAreCurrent, AdmissionInv

(* A step that leaves the claims, the program counters and the attempts    *)
(* alone preserves the invariants about claims.                            *)
LEMMA WorkerInvFrame ==
  ASSUME WorkerInv, UNCHANGED <<attempt, claim, pc>>
  PROVE  WorkerInv'
  BY DEF WorkerInv, ExclusiveAttempt, ClaimInv

(* NoClaim is no claim, because attempts are counted from 1.               *)
LEMMA NoClaimIsNoClaim == NoClaim \notin Claims
  BY DEF NoClaim, Claims

(* A worker that lets its submission go keeps the invariants about claims. *)
LEMMA AbandonKeepsClaims ==
  ASSUME TypeOK, WorkerInv, NEW w \in Workers, Abandon(w), UNCHANGED attempt
  PROVE  /\ WorkerInv'
         /\ pc' \in [Workers -> {"off", "idle", "claimed"} \cup ActivePcs]
         /\ claim' \in [Workers -> Claims \cup {NoClaim}]
         /\ cancelled' \in [Workers -> BOOLEAN]
<1>1. /\ pc' \in [Workers -> {"off", "idle", "claimed"} \cup ActivePcs]
      /\ claim' \in [Workers -> Claims \cup {NoClaim}]
      /\ cancelled' \in [Workers -> BOOLEAN]
  BY DEF TypeOK, Abandon
<1>2. WorkerInv'
  BY DEF TypeOK, WorkerInv, ExclusiveAttempt, ClaimInv, Abandon
<1> QED
  BY <1>1, <1>2

(* Sending an UpdateSubmission statement preserves the invariant.          *)
LEMMA SendPreserves ==
  ASSUME IndInv, NEW w \in Workers, NEW target \in {"running"} \cup TerminalStatuses,
         pc[w] \in {"loaded", "judging"}, Send(w, target)
  PROVE  IndInv'
<1> USE IndInvParts
<1>1. claim[w] \in Claims
  BY DEF TypeOK, WorkerInv, ClaimInv
<1>2. /\ claim[w].sub \in Submissions
      /\ claim[w].attempt \in 1..MaxAttempts
  BY <1>1 DEF Claims
<1>3. (lease[claim[w].sub] > 0) \in BOOLEAN
  BY <1>2 DEF TypeOK
<1>4. inflight' \subseteq Updates
  <2> DEFINE u == [worker |-> w, sub |-> claim[w].sub, attempt |-> claim[w].attempt,
                   target |-> target, fresh |-> lease[claim[w].sub] > 0]
  <2>1. u \in Updates
    BY <1>2, <1>3 DEF Updates
  <2> QED
    BY <2>1 DEF TypeOK, Send
<1>5. TypeOK'
  BY <1>4 DEF TypeOK, Send
<1>6. RowInv'
  BY RowInvFrame DEF Send
<1>7. WorkerInv'
  BY DEF TypeOK, WorkerInv, ExclusiveAttempt, ClaimInv, Send
<1> QED
  BY <1>5, <1>6, <1>7 DEF IndInv, RowInv, WorkerInv

(* Running an UpdateSubmission statement preserves the invariant.          *)
LEMMA ExecUpdatePreserves ==
  ASSUME IndInv, NEW u \in inflight, ExecUpdate(u)
  PROVE  IndInv'
<1> USE IndInvParts
<1>1. /\ u.worker \in Workers
      /\ u.sub \in Submissions
      /\ u.attempt \in 1..MaxAttempts
      /\ u.target \in {"running"} \cup TerminalStatuses
  BY DEF TypeOK, Updates
<1>2. UNCHANGED <<attempt, created, admission, recovering, expired, server, stops>>
  BY DEF ExecUpdate, UpdateRow
<1>3. /\ RowInv'
      /\ status' \in [Submissions -> Statuses]
      /\ lease' \in [Submissions -> NoLease..LeaseDuration]
      /\ result' \in [Submissions -> 0..MaxAttempts]
  <2>1. CASE ~UpdateApplies(u)
    BY <1>2, <2>1, RowInvFrame DEF ExecUpdate, TypeOK
  <2>2. CASE UpdateApplies(u)
    <3>1. /\ UpdateRow(u)
          /\ status[u.sub] = "running"
          /\ attempt[u.sub] = u.attempt
          /\ \A v \in Servers : expired[v][u.sub] = 0
      BY <1>1, <2>2 DEF ExecUpdate, UpdateApplies, RowFree
    <3>2. /\ status' \in [Submissions -> Statuses]
          /\ lease' \in [Submissions -> NoLease..LeaseDuration]
          /\ result' \in [Submissions -> 0..MaxAttempts]
      BY <1>1, <3>1 DEF UpdateRow, TypeOK
    <3>3. ResultFromCurrentAttempt' /\ QueuedHasAttemptLeft'
      BY <1>1, <3>1 DEF UpdateRow, TypeOK, RowInv, ResultFromCurrentAttempt, QueuedHasAttemptLeft
    <3>4. RunningIsLeased'
      BY <1>1, <3>1 DEF UpdateRow, TypeOK, RowInv, RunningIsLeased
    <3>5. RecoveryReadsAreCurrent'
      BY <1>1, <1>2, <3>1 DEF UpdateRow, TypeOK, RowInv, RecoveryReadsAreCurrent
    <3>6. AdmissionInv'
      BY <1>1, <1>2, <3>1 DEF UpdateRow, TypeOK, RowInv, AdmissionInv
    <3> QED
      BY <3>2, <3>3, <3>4, <3>5, <3>6 DEF RowInv
  <2> QED
    BY <2>1, <2>2
<1>4. /\ WorkerInv'
      /\ pc' \in [Workers -> {"off", "idle", "claimed"} \cup ActivePcs]
      /\ claim' \in [Workers -> Claims \cup {NoClaim}]
      /\ cancelled' \in [Workers -> BOOLEAN]
  <2>1. CASE ~Awaits(u.worker, u)
    BY <1>2, <2>1, WorkerInvFrame DEF ExecUpdate, TypeOK
  <2>2. CASE Awaits(u.worker, u) /\ UpdateApplies(u) /\ u.target = "running"
    <3>1. /\ pc[u.worker] = "saving"
          /\ pc' = [pc EXCEPT ![u.worker] = "judging"]
          /\ UNCHANGED <<claim, cancelled>>
      BY <2>2 DEF ExecUpdate, Awaits
    <3>2. WorkerInv'
      BY <1>1, <1>2, <3>1 DEF TypeOK, WorkerInv, ExclusiveAttempt, ClaimInv
    <3> QED
      BY <1>1, <3>1, <3>2 DEF TypeOK
  <2>3. CASE Awaits(u.worker, u) /\ ~(UpdateApplies(u) /\ u.target = "running")
    BY <1>1, <1>2, <2>3, AbandonKeepsClaims DEF ExecUpdate
  <2> QED
    BY <2>1, <2>2, <2>3
<1>5. inflight' \subseteq Updates
  BY DEF ExecUpdate, TypeOK
<1>6. TypeOK'
  BY <1>2, <1>3, <1>4, <1>5 DEF TypeOK
<1> QED
  BY <1>3, <1>4, <1>6 DEF IndInv, RowInv, WorkerInv

(* Every step of an admission transaction preserves the invariant.         *)
LEMMA AdmissionPreserves ==
  ASSUME IndInv, Admission
  PROVE  IndInv'
<1> USE IndInvParts
<1>1. PICK s \in Submissions : AdmitBegin(s) \/ AdmitCount(s) \/ AdmitCommit(s) \/ AdmitAbort(s)
  BY DEF Admission
<1>2. WorkerInv'
  BY <1>1, WorkerInvFrame DEF AdmitBegin, AdmitCount, AdmitCommit, AdmitAbort
<1>3. CASE AdmitBegin(s)
  <2>1. Cardinality({t \in Submissions : created[t] # 0}) \in Nat
    BY FS_Subset, FS_CardinalityType
  <2>2. TypeOK'
    BY <1>3, <2>1 DEF AdmitBegin, TypeOK
  <2>3. RowInv'
    BY <1>3 DEF AdmitBegin, TypeOK, RowInv, ResultFromCurrentAttempt, QueuedHasAttemptLeft,
                RunningIsLeased, RecoveryReadsAreCurrent, AdmissionInv
  <2> QED
    BY <1>2, <2>2, <2>3 DEF IndInv, RowInv, WorkerInv
<1>4. CASE AdmitCount(s) \/ AdmitAbort(s)
  <2>1. TypeOK'
    BY <1>4 DEF AdmitCount, AdmitAbort, TypeOK
  <2>2. RowInv'
    BY <1>4 DEF AdmitCount, AdmitAbort, TypeOK, RowInv, ResultFromCurrentAttempt,
                QueuedHasAttemptLeft, RunningIsLeased, RecoveryReadsAreCurrent, AdmissionInv
  <2> QED
    BY <1>2, <2>1, <2>2 DEF IndInv, RowInv, WorkerInv
<1>5. CASE AdmitCommit(s)
  <2>1. TypeOK'
    BY <1>5 DEF AdmitCommit, TypeOK
  <2>2. RowInv'
    BY <1>5 DEF AdmitCommit, TypeOK, RowInv, ResultFromCurrentAttempt, QueuedHasAttemptLeft,
                RunningIsLeased, RecoveryReadsAreCurrent, AdmissionInv
  <2> QED
    BY <1>2, <2>1, <2>2 DEF IndInv, RowInv, WorkerInv
<1> QED
  BY <1>1, <1>3, <1>4, <1>5

(* Claiming the oldest queued row preserves the invariant, whether or not  *)
(* the worker gets the answer.                                             *)
LEMMA ClaimPreserves ==
  ASSUME IndInv, NEW w \in Workers, NEW s \in Submissions,
         Dequeue(w, s) \/ DequeueLost(w, s)
  PROVE  IndInv'
<1> USE IndInvParts
<1>1. /\ status[s] = "queued"
      /\ ClaimRow(s)
      /\ attempt[s] + 1 \in 1..MaxAttempts
      /\ UNCHANGED <<result, admitVars, recoverVars, inflight, cancelled, serverVars>>
  BY DEF Dequeue, DequeueLost, OldestQueued, TypeOK, RowInv, QueuedHasAttemptLeft
<1>2. RowInv'
  BY <1>1 DEF ClaimRow, TypeOK, RowInv, ResultFromCurrentAttempt, QueuedHasAttemptLeft,
              RunningIsLeased, RecoveryReadsAreCurrent, AdmissionInv
<1>3. CASE Dequeue(w, s)
  <2>1. [sub |-> s, attempt |-> attempt[s] + 1] \in Claims
    BY <1>1 DEF Claims
  <2>2. TypeOK'
    BY <1>1, <1>3, <2>1 DEF Dequeue, ClaimRow, TypeOK
  <2>3. \A x \in Workers : claim[x] # NoClaim /\ claim[x].sub = s => claim[x].attempt <= attempt[s]
    BY DEF WorkerInv, ClaimInv
  <2>4. \A x \in Workers : claim[x] # NoClaim => claim[x] \in Claims /\ claim[x].sub \in Submissions
    BY DEF TypeOK, Claims
  <2>5. ExclusiveAttempt'
    <3> DEFINE c == [sub |-> s, attempt |-> attempt[s] + 1]
    <3>1. \A x \in Workers : claim[x] # c
      BY <1>1, <2>1, <2>3, NoClaimIsNoClaim DEF TypeOK
    <3>2. claim' = [claim EXCEPT ![w] = c]
      BY <1>3 DEF Dequeue
    <3> HIDE DEF c
    <3> QED
      BY <3>1, <3>2 DEF TypeOK, WorkerInv, ExclusiveAttempt
  <2>6. ClaimInv'
    BY <1>1, <1>3, <2>1, <2>3, <2>4 DEF Dequeue, ClaimRow, TypeOK, Claims, NoClaim, WorkerInv, ClaimInv
  <2> QED
    BY <1>2, <2>2, <2>5, <2>6 DEF IndInv, RowInv
<1>4. CASE DequeueLost(w, s)
  <2>1. TypeOK'
    BY <1>1, <1>4 DEF DequeueLost, ClaimRow, TypeOK
  <2>2. WorkerInv'
    BY <1>1, <1>4 DEF DequeueLost, ClaimRow, TypeOK, Claims, WorkerInv, ExclusiveAttempt, ClaimInv
  <2> QED
    BY <1>2, <2>1, <2>2 DEF IndInv, RowInv, WorkerInv
<1> QED
  BY <1>3, <1>4

(* Loading the claimed row preserves the invariant.                        *)
LEMMA LoadPreserves ==
  ASSUME IndInv, NEW w \in Workers, Load(w) \/ LoadFails(w) \/ SaveTimesOut(w)
  PROVE  IndInv'
<1> USE IndInvParts
<1>1. UNCHANGED <<rowVars, admitVars, recoverVars, inflight, serverVars>>
  BY DEF Load, LoadFails, SaveTimesOut
<1>2. RowInv'
  BY <1>1, RowInvFrame
<1>3. CASE Abandon(w)
  BY <1>1, <1>2, <1>3, AbandonKeepsClaims DEF IndInv, TypeOK, RowInv, WorkerInv
<1>4. CASE pc[w] = "claimed" /\ pc' = [pc EXCEPT ![w] = "loaded"] /\ UNCHANGED <<claim, cancelled>>
  <2>1. TypeOK'
    BY <1>1, <1>4 DEF TypeOK
  <2>2. WorkerInv'
    BY <1>1, <1>4 DEF TypeOK, WorkerInv, ExclusiveAttempt, ClaimInv
  <2> QED
    BY <1>2, <2>1, <2>2 DEF IndInv, RowInv, WorkerInv
<1> QED
  BY <1>3, <1>4 DEF Load, LoadFails, SaveTimesOut

(* Renewing a lease, and stopping an idle worker, preserve the invariant.  *)
LEMMA RenewPreserves ==
  ASSUME IndInv, NEW w \in Workers, RenewLease(w) \/ RenewFails(w) \/ StopWorker(w)
  PROVE  IndInv'
<1> USE IndInvParts
<1>1. CASE RenewLease(w)
  <2>1. claim[w] \in Claims /\ claim[w].sub \in Submissions
    BY <1>1 DEF RenewLease, Renews, TypeOK, Claims, WorkerInv, ClaimInv
  <2>2. lease' \in [Submissions -> NoLease..LeaseDuration]
    BY <1>1, <2>1 DEF RenewLease, TypeOK
  <2>3. cancelled' \in [Workers -> BOOLEAN]
    BY <1>1 DEF RenewLease, TypeOK
  <2>4. TypeOK'
    BY <1>1, <2>2, <2>3 DEF RenewLease, TypeOK
  <2>5. RowInv'
    BY <1>1, <2>1 DEF RenewLease, RenewApplies, TypeOK, RowInv, ResultFromCurrentAttempt,
                      QueuedHasAttemptLeft, RunningIsLeased, RecoveryReadsAreCurrent, AdmissionInv
  <2>6. WorkerInv'
    BY <1>1, WorkerInvFrame DEF RenewLease
  <2> QED
    BY <2>4, <2>5, <2>6 DEF IndInv, RowInv, WorkerInv
<1>2. CASE RenewFails(w)
  <2>1. TypeOK'
    BY <1>2 DEF RenewFails, TypeOK
  <2> QED
    BY <1>2, <2>1, RowInvFrame, WorkerInvFrame DEF RenewFails, IndInv, RowInv, WorkerInv
<1>3. CASE StopWorker(w)
  <2>1. TypeOK'
    BY <1>3 DEF StopWorker, TypeOK
  <2>2. WorkerInv'
    BY <1>3 DEF StopWorker, TypeOK, WorkerInv, ExclusiveAttempt, ClaimInv
  <2> QED
    BY <1>3, <2>1, <2>2, RowInvFrame DEF StopWorker, IndInv, RowInv, WorkerInv
<1> QED
  BY <1>1, <1>2, <1>3

(* Every step of a recovery transaction preserves the invariant.           *)
LEMMA RecoveryPreserves ==
  ASSUME IndInv, NEW v \in Servers, RecoverLock(v) \/ RecoverCommit(v) \/ RecoverRollback(v)
  PROVE  IndInv'
<1> USE IndInvParts
<1>1. CASE RecoverLock(v)
  <2>1. TypeOK'
    BY <1>1 DEF RecoverLock, TypeOK
  <2>2. RowInv'
    BY <1>1 DEF RecoverLock, LockedByRecovery, RowFree, TypeOK, RowInv, ResultFromCurrentAttempt,
                QueuedHasAttemptLeft, RunningIsLeased, RecoveryReadsAreCurrent, AdmissionInv
  <2>3. WorkerInv'
    BY <1>1, WorkerInvFrame DEF RecoverLock
  <2> QED
    BY <2>1, <2>2, <2>3 DEF IndInv, RowInv, WorkerInv
<1>2. CASE RecoverCommit(v)
  <2>1. TypeOK'
    BY <1>2 DEF RecoverCommit, RecoverRows, EndRecovery, Retries, TypeOK
  <2>2. RowInv'
    BY <1>2 DEF RecoverCommit, RecoverRows, EndRecovery, Retries, TypeOK, RowInv,
                ResultFromCurrentAttempt, QueuedHasAttemptLeft, RunningIsLeased,
                RecoveryReadsAreCurrent, AdmissionInv
  <2>3. WorkerInv'
    BY <1>2 DEF RecoverCommit, RecoverRows, TypeOK, WorkerInv, ExclusiveAttempt, ClaimInv
  <2> QED
    BY <2>1, <2>2, <2>3 DEF IndInv, RowInv, WorkerInv
<1>3. CASE RecoverRollback(v)
  <2>1. TypeOK'
    BY <1>3 DEF RecoverRollback, EndRecovery, TypeOK
  <2>2. RowInv'
    BY <1>3 DEF RecoverRollback, EndRecovery, TypeOK, RowInv, ResultFromCurrentAttempt,
                QueuedHasAttemptLeft, RunningIsLeased, RecoveryReadsAreCurrent, AdmissionInv
  <2>3. WorkerInv'
    BY <1>3, WorkerInvFrame DEF RecoverRollback
  <2> QED
    BY <2>1, <2>2, <2>3 DEF IndInv, RowInv, WorkerInv
<1> QED
  BY <1>1, <1>2, <1>3

(* Starting, draining, leaving and crashing preserve the invariant.        *)
LEMMA ServerPreserves ==
  ASSUME IndInv, NEW v \in Servers, Boot(v) \/ Drain(v) \/ Exit(v) \/ Crash(v)
  PROVE  IndInv'
<1> USE IndInvParts
<1>1. RowInv'
  BY RowInvFrame DEF Boot, Drain, Exit, Crash, WorkersGone
<1>2. CASE Boot(v)
  BY <1>1, <1>2, WorkerInvFrame DEF Boot, TypeOK, IndInv, RowInv, WorkerInv
<1>3. CASE Drain(v)
  <2>1. cancelled' \in [Workers -> BOOLEAN]
    BY <1>3 DEF Drain, TypeOK
  <2>2. stops' \in 0..MaxStops
    BY <1>3 DEF Drain, TypeOK
  <2>3. TypeOK'
    BY <1>3, <2>1, <2>2 DEF Drain, TypeOK
  <2> QED
    BY <1>1, <1>3, <2>3, WorkerInvFrame DEF Drain, IndInv, RowInv, WorkerInv
<1>4. CASE Exit(v) \/ Crash(v)
  <2>1. WorkersGone(v) /\ stops' \in 0..MaxStops
    BY <1>4 DEF Exit, Crash, TypeOK
  <2>2. /\ cancelled' \in [Workers -> BOOLEAN]
        /\ claim' \in [Workers -> Claims \cup {NoClaim}]
    BY <2>1 DEF WorkersGone, TypeOK
  <2>3. TypeOK'
    BY <2>1, <2>2 DEF WorkersGone, TypeOK
  <2>4. WorkerInv'
    BY <2>1 DEF WorkersGone, TypeOK, WorkerInv, ExclusiveAttempt, ClaimInv
  <2> QED
    BY <1>1, <2>3, <2>4 DEF IndInv, RowInv, WorkerInv
<1> QED
  BY <1>2, <1>3, <1>4

(* Time passing preserves the invariant.                                   *)
LEMMA TickPreserves ==
  ASSUME IndInv, Tick
  PROVE  IndInv'
<1> USE IndInvParts
<1>1. TypeOK'
  BY DEF Tick, TypeOK
<1>2. RowInv'
  BY DEF Tick, TypeOK, RowInv, ResultFromCurrentAttempt, QueuedHasAttemptLeft,
         RunningIsLeased, RecoveryReadsAreCurrent, AdmissionInv
<1>3. WorkerInv'
  BY WorkerInvFrame DEF Tick
<1> QED
  BY <1>1, <1>2, <1>3 DEF IndInv, RowInv, WorkerInv

(* A statement that is lost or cancelled preserves the invariant.          *)
LEMMA DropPreserves ==
  ASSUME IndInv, NEW u \in inflight, DropUpdate(u)
  PROVE  IndInv'
<1>1. TypeOK'
  BY IndInvParts DEF DropUpdate, TypeOK
<1> QED
  BY <1>1, IndInvParts, RowInvFrame, WorkerInvFrame DEF DropUpdate, IndInv, RowInv, WorkerInv

(* The invariant holds before any server has started.                      *)
LEMMA InitIndInv == Init => IndInv
<1> SUFFICES ASSUME Init PROVE IndInv
  OBVIOUS
<1>1. TypeOK
  BY DEF Init, TypeOK
<1>2. RowInv
  BY DEF Init, RowInv, ResultFromCurrentAttempt, QueuedHasAttemptLeft,
         RunningIsLeased, RecoveryReadsAreCurrent, AdmissionInv
<1>3. WorkerInv
  BY DEF Init, WorkerInv, ExclusiveAttempt, ClaimInv
<1> QED
  BY <1>1, <1>2, <1>3, IndInvParts

(* Every step of the queue, and every stutter, preserves the invariant.    *)
LEMMA NextIndInv == IndInv /\ [Next]_vars => IndInv'
<1> SUFFICES ASSUME IndInv, [Next]_vars PROVE IndInv'
  OBVIOUS
<1>1. CASE Admission
  BY <1>1, AdmissionPreserves
<1>2. CASE WorkerStep
  <2>1. ASSUME NEW w \in Workers, NEW s \in Submissions, Dequeue(w, s) \/ DequeueLost(w, s)
        PROVE  IndInv'
    BY <2>1, ClaimPreserves
  <2>2. ASSUME NEW w \in Workers, Load(w) \/ LoadFails(w) \/ SaveTimesOut(w)
        PROVE  IndInv'
    BY <2>2, LoadPreserves
  <2>3. ASSUME NEW w \in Workers,
               RejectJob(w) \/ MarkRunning(w) \/ FinishJudging(w) \/ InfrastructureFailure(w)
        PROVE  IndInv'
    BY <2>3, SendPreserves DEF RejectJob, MarkRunning, FinishJudging, InfrastructureFailure
  <2>4. ASSUME NEW w \in Workers, RenewLease(w) \/ RenewFails(w) \/ StopWorker(w)
        PROVE  IndInv'
    BY <2>4, RenewPreserves
  <2> QED
    BY <1>2, <2>1, <2>2, <2>3, <2>4 DEF WorkerStep
<1>3. CASE DatabaseStep
  BY <1>3, ExecUpdatePreserves, DropPreserves DEF DatabaseStep
<1>4. CASE ServerStep
  BY <1>4, RecoveryPreserves, ServerPreserves DEF ServerStep
<1>5. CASE Tick
  BY <1>5, TickPreserves
<1>6. CASE UNCHANGED vars
  <2>1. TypeOK'
    BY <1>6, IndInvParts DEF vars, TypeOK
  <2> QED
    BY <1>6, <2>1, IndInvParts, RowInvFrame, WorkerInvFrame DEF vars, IndInv, RowInv, WorkerInv
<1> QED
  BY <1>1, <1>2, <1>3, <1>4, <1>5, <1>6 DEF Next

(* The inductive invariant holds in every reachable state.                 *)
THEOREM Invariance == Spec => []IndInv
  BY InitIndInv, NextIndInv, PTL DEF Spec

(* Type correctness: in particular no row is ever tried more than          *)
(* QUEUE_MAX_ATTEMPTS times.                                               *)
THEOREM TypeCorrect == Spec => []TypeOK
  BY Invariance, PTL DEF IndInv

(* A stored result is always the one of the current attempt: UpdateSubmission's *)
(* fence keeps every superseded worker out, for any number of them.        *)
THEOREM ResultsAreCurrent == Spec => []ResultFromCurrentAttempt
  BY Invariance, PTL DEF IndInv

(* ClaimNextSubmission hands out each attempt of a submission once.        *)
THEOREM AttemptsAreExclusive == Spec => []ExclusiveAttempt
  BY Invariance, PTL DEF IndInv

(* RecoverExpired never queues a submission that has no attempt left.      *)
THEOREM QueuedRowsHaveAttempts == Spec => []QueuedHasAttemptLeft
  BY Invariance, PTL DEF IndInv

(* No running row is without a lease that can expire.                      *)
THEOREM RunningRowsAreLeased == Spec => []RunningIsLeased
  BY Invariance, PTL DEF IndInv

(* What RecoverExpired read under its row locks is still so when it writes.*)
THEOREM RecoveryIsSound == Spec => []RecoveryReadsAreCurrent
  BY Invariance, PTL DEF IndInv

(* One step of the queue is a step, or a stutter, of the life cycle.       *)
LEMMA LifecycleStep ==
  ASSUME IndInv, [Next]_vars
  PROVE  [Lifecycle!Next]_(Lifecycle!abstractVars)
<1> USE IndInvParts DEF Lifecycle!abstractVars
<1>1. CASE UNCHANGED <<status, attempt, result>>
  BY <1>1
<1>2. CASE Admission
  <2>1. PICK s \in Submissions : AdmitBegin(s) \/ AdmitCount(s) \/ AdmitCommit(s) \/ AdmitAbort(s)
    BY <1>2 DEF Admission
  <2>2. CASE AdmitCommit(s)
    <3>1. Lifecycle!Admit(s)
      BY <2>2 DEF AdmitCommit, Lifecycle!Admit, RowInv, AdmissionInv
    <3> QED
      BY <3>1 DEF Lifecycle!Next
  <2> QED
    BY <1>1, <2>1, <2>2 DEF AdmitBegin, AdmitCount, AdmitAbort
<1>3. ASSUME NEW w \in Workers, NEW s \in Submissions, Dequeue(w, s) \/ DequeueLost(w, s)
      PROVE  Lifecycle!Next
  <2>1. Lifecycle!Start(s)
    BY <1>3 DEF Dequeue, DequeueLost, OldestQueued, ClaimRow, Lifecycle!Start, RowInv, QueuedHasAttemptLeft
  <2> QED
    BY <2>1 DEF Lifecycle!Next
<1>4. ASSUME NEW u \in inflight, ExecUpdate(u)
      PROVE  Lifecycle!Next \/ UNCHANGED <<status, attempt, result>>
  <2>1. u.sub \in Submissions /\ u.attempt \in 1..MaxAttempts /\ u.target \in {"running"} \cup TerminalStatuses
    BY DEF TypeOK, Updates
  <2>2. CASE ~UpdateApplies(u)
    BY <1>4, <2>2 DEF ExecUpdate
  <2>3. CASE UpdateApplies(u)
    <3>1. UpdateRow(u) /\ status[u.sub] = "running" /\ attempt[u.sub] = u.attempt
      BY <1>4, <2>1, <2>3 DEF ExecUpdate, UpdateApplies
    <3>2. CASE u.target = "running"
      BY <2>1, <3>1, <3>2 DEF UpdateRow, TypeOK, RowInv, ResultFromCurrentAttempt
    <3>3. CASE u.target \in TerminalStatuses
      <4>1. Lifecycle!Settle(u.sub, u.target)
        BY <2>1, <3>1, <3>3 DEF UpdateRow, Lifecycle!Settle
      <4> QED
        BY <2>1, <3>3, <4>1 DEF Lifecycle!Next, Lifecycle!TerminalStatuses
    <3> QED
      BY <2>1, <3>2, <3>3
  <2> QED
    BY <2>2, <2>3
<1>5. ASSUME NEW v \in Servers, RecoverCommit(v)
      PROVE  Lifecycle!Next
  <2> DEFINE S == {s \in Submissions : expired[v][s] # 0}
  <2>1. \A s \in S : status[s] = "running" /\ attempt[s] = expired[v][s]
    BY DEF RowInv, RecoveryReadsAreCurrent
  <2>2. \A s \in Submissions : attempt[s] \in 0..MaxAttempts /\ expired[v][s] \in 0..MaxAttempts
    BY DEF TypeOK
  <2>3. status' = [s \in Submissions |->
                     IF s \notin S THEN status[s]
                     ELSE IF attempt[s] < MaxAttempts THEN "queued" ELSE "failed"]
    BY <1>5, <2>1 DEF RecoverCommit, RecoverRows, Retries
  <2>4. \A s \in S : result[s] = 0
    BY <2>1 DEF RowInv, ResultFromCurrentAttempt
  <2>5. result' = [s \in Submissions |->
                     IF s \in S /\ attempt[s] >= MaxAttempts THEN attempt[s] ELSE result[s]]
    BY <1>5, <2>1, <2>2, <2>4 DEF RecoverCommit, RecoverRows, Retries
  <2>6. UNCHANGED attempt
    BY <1>5 DEF RecoverCommit, RecoverRows
  <2>7. Lifecycle!GiveUpAttempts(S)
    BY <2>1, <2>3, <2>5, <2>6 DEF Lifecycle!GiveUpAttempts
  <2>8. S \in SUBSET Submissions
    OBVIOUS
  <2> QED
    BY <2>7, <2>8 DEF Lifecycle!Next
<1>6. CASE WorkerStep
  BY <1>1, <1>3, <1>6 DEF WorkerStep, StopWorker, Load, LoadFails, RejectJob, MarkRunning,
     FinishJudging, InfrastructureFailure, Send, SaveTimesOut, RenewLease, RenewFails
<1>7. CASE DatabaseStep
  BY <1>1, <1>4, <1>7 DEF DatabaseStep, DropUpdate
<1>8. CASE ServerStep
  BY <1>1, <1>5, <1>8 DEF ServerStep, RecoverLock, RecoverRollback, Boot, Drain, Exit, Crash, WorkersGone
<1>9. CASE Tick
  BY <1>1, <1>9 DEF Tick
<1>10. CASE UNCHANGED vars
  BY <1>1, <1>10 DEF vars
<1> QED
  BY <1>2, <1>6, <1>7, <1>8, <1>9, <1>10 DEF Next

(* The queue, with every interleaving of workers, lost statements, crashes *)
(* and recoveries, implements the life cycle of SubmissionLifecycle.       *)
THEOREM Refinement == Spec => LifecycleSpec
<1>1. Init => Lifecycle!Init
  BY DEF Init, Lifecycle!Init
<1> QED
  BY <1>1, Invariance, LifecycleStep, PTL DEF Spec, LifecycleSpec, Lifecycle!Spec

(* A settled submission is settled for good: it follows from the life      *)
(* cycle, whose only steps out of a status leave "absent", "queued" or     *)
(* "running".                                                              *)
THEOREM SettledForGood == Spec => TerminalIsFinal
<1>1. ASSUME IndInv, [Next]_vars, NEW s \in Submissions, status[s] \in TerminalStatuses
      PROVE  status'[s] = status[s] /\ result'[s] = result[s]
  <2>1. CASE UNCHANGED <<status, attempt, result>>
    BY <2>1
  <2>2. CASE Lifecycle!Next
    <3>1. status \in [Submissions -> Statuses] /\ result \in [Submissions -> 0..MaxAttempts]
      BY <1>1 DEF IndInv, TypeOK
    <3>2. ASSUME NEW t \in Submissions, Lifecycle!Admit(t) \/ Lifecycle!Start(t)
          PROVE  status'[s] = status[s] /\ result'[s] = result[s]
      BY <1>1, <3>1, <3>2 DEF Lifecycle!Admit, Lifecycle!Start
    <3>3. ASSUME NEW t \in Submissions, NEW outcome \in TerminalStatuses,
                 Lifecycle!Settle(t, outcome)
          PROVE  status'[s] = status[s] /\ result'[s] = result[s]
      BY <1>1, <3>1, <3>3 DEF Lifecycle!Settle
    <3>4. ASSUME NEW S \in SUBSET Submissions, Lifecycle!GiveUpAttempts(S)
          PROVE  status'[s] = status[s] /\ result'[s] = result[s]
      BY <1>1, <3>1, <3>4 DEF Lifecycle!GiveUpAttempts
    <3> QED
      BY <2>2, <3>2, <3>3, <3>4 DEF Lifecycle!Next, Lifecycle!TerminalStatuses
  <2> QED
    BY <1>1, <2>1, <2>2, LifecycleStep DEF Lifecycle!abstractVars
<1>2. IndInv /\ [Next]_vars =>
        [\A s \in Submissions : status[s] \in TerminalStatuses =>
           status'[s] = status[s] /\ result'[s] = result[s]]_vars
  BY <1>1
<1> QED
  BY <1>2, Invariance, PTL DEF Spec, TerminalIsFinal

(* RecoverExpired requeues only what has expired, however the renewals     *)
(* interleave with its transaction.                                        *)
THEOREM TakeoverAfterExpiry == Spec => NoEarlyTakeover
<1>1. ASSUME IndInv, Next, NEW s \in Submissions, status[s] = "running", status'[s] = "queued"
      PROVE  lease[s] = 0
  <2> USE <1>1
  <2>1. TypeOK /\ RowInv
    BY IndInvParts
  <2>2. UNCHANGED status => FALSE
    OBVIOUS
  <2>3. ASSUME NEW v \in Servers, RecoverCommit(v) PROVE lease[s] = 0
    BY <2>1, <2>3 DEF RecoverCommit, RecoverRows, RowInv, RecoveryReadsAreCurrent
  <2>4. ~Admission
    BY <2>1, <2>2 DEF Admission, AdmitBegin, AdmitCount, AdmitCommit, AdmitAbort,
                      TypeOK, RowInv, AdmissionInv
  <2>5. ~WorkerStep
    <3>1. \A w \in Workers, t \in Submissions : ~Dequeue(w, t) /\ ~DequeueLost(w, t)
      BY <2>1 DEF Dequeue, DequeueLost, ClaimRow, OldestQueued, TypeOK
    <3> QED
      BY <2>2, <3>1 DEF WorkerStep, StopWorker, Load, LoadFails, RejectJob, MarkRunning,
         FinishJudging, InfrastructureFailure, Send, SaveTimesOut, RenewLease, RenewFails
  <2>6. ~DatabaseStep
    <3>1. ASSUME NEW u \in inflight, ExecUpdate(u) PROVE FALSE
      BY <2>1, <3>1 DEF ExecUpdate, UpdateRow, TypeOK, Updates
    <3> QED
      BY <2>2, <3>1 DEF DatabaseStep, DropUpdate
  <2>7. ~Tick
    BY <2>2 DEF Tick
  <2> QED
    BY <2>2, <2>3, <2>4, <2>5, <2>6, <2>7
       DEF Next, ServerStep, RecoverLock, RecoverRollback, Boot, Drain, Exit, Crash, WorkersGone
<1>2. IndInv /\ [Next]_vars =>
        [\A s \in Submissions : status[s] = "running" /\ status'[s] = "queued" => lease[s] = 0]_vars
  BY <1>1
<1> QED
  BY <1>2, Invariance, PTL DEF Spec, NoEarlyTakeover

-----------------------------------------------------------------------------
(* Admission and the cap.                                                  *)

(* The rows admission counts are finitely many.                            *)
LEMMA QueuedFinite ==
  /\ IsFiniteSet(Queued) /\ IsFiniteSet(Untried)
  /\ Cardinality(Queued) \in Nat /\ Cardinality(Untried) \in Nat
  /\ Cardinality(Untried) <= Cardinality(Queued)
<1>1. Queued \in SUBSET Submissions /\ Untried \in SUBSET Queued
  BY DEF Queued, Untried
<1>2. IsFiniteSet(Queued)
  BY <1>1, FS_Subset
<1>3. IsFiniteSet(Untried) /\ Cardinality(Untried) <= Cardinality(Queued)
  BY <1>1, <1>2, FS_Subset
<1> QED
  BY <1>2, <1>3, FS_CardinalityType

(* Only admission adds a row nobody has tried: a recovered row has had its *)
(* attempt.                                                                *)
LEMMA OthersAddNone ==
  ASSUME IndInv, Next, ~Admission
  PROVE  UNCHANGED admission /\ Untried' \subseteq Untried
<1>0. TypeOK /\ RowInv
  BY IndInvParts
<1>1. UNCHANGED admission
  BY DEF Next, WorkerStep, Dequeue, DequeueLost, StopWorker, Load, LoadFails, RejectJob, MarkRunning,
     FinishJudging, InfrastructureFailure, Send, SaveTimesOut, RenewLease, RenewFails, DatabaseStep,
     ExecUpdate, DropUpdate, ServerStep, RecoverLock, RecoverCommit, RecoverRollback, Boot, Drain, Exit,
     Crash, WorkersGone, Tick
<1>2. CASE UNCHANGED <<status, attempt>>
  BY <1>1, <1>2 DEF Untried, Queued
<1>3. ASSUME NEW w \in Workers, NEW s \in Submissions, Dequeue(w, s) \/ DequeueLost(w, s)
      PROVE  Untried' \subseteq Untried
  BY <1>0, <1>3 DEF Dequeue, DequeueLost, ClaimRow, TypeOK, Untried, Queued
<1>4. ASSUME NEW u \in inflight, ExecUpdate(u)
      PROVE  Untried' \subseteq Untried
  <2>1. CASE UNCHANGED rowVars
    BY <1>2, <2>1
  <2>2. CASE UpdateRow(u)
    <3>1. u.sub \in Submissions /\ u.target # "queued"
      BY <1>0 DEF TypeOK, Updates
    <3> QED
      BY <1>0, <2>2, <3>1 DEF UpdateRow, TypeOK, Untried, Queued
  <2> QED
    BY <1>4, <2>1, <2>2 DEF ExecUpdate
<1>5. ASSUME NEW v \in Servers, RecoverCommit(v)
      PROVE  Untried' \subseteq Untried
  <2>1. \A s \in Submissions : expired[v][s] # 0 => attempt[s] # 0
    BY <1>0 DEF RowInv, RecoveryReadsAreCurrent
  <2> QED
    BY <1>5, <2>1 DEF RecoverCommit, RecoverRows, Untried, Queued
<1> QED
  BY <1>1, <1>2, <1>3, <1>4, <1>5 DEF Next, WorkerStep, StopWorker, Load, LoadFails, RejectJob, MarkRunning,
     FinishJudging, InfrastructureFailure, Send, SaveTimesOut, RenewLease, RenewFails, DatabaseStep,
     DropUpdate, ServerStep, RecoverLock, RecoverRollback, Boot, Drain, Exit, Crash, WorkersGone, Tick

(* Every step keeps the cap: the advisory lock lets one transaction at a   *)
(* time count and commit.                                                  *)
LEMMA NextCapInv == IndInv /\ CapInv /\ [Next]_vars => CapInv'
<1> SUFFICES ASSUME IndInv, CapInv, [Next]_vars PROVE CapInv'
  OBVIOUS
<1> USE QueuedAssumption
<1>0. TypeOK /\ RowInv
  BY IndInvParts
<1>1. ASSUME UNCHANGED admission, Untried' \subseteq Untried
      PROVE  CapInv'
  <2>1. Cardinality(Untried') \in Nat /\ Cardinality(Untried') <= Cardinality(Untried)
    BY <1>1, QueuedFinite, FS_Subset, FS_CardinalityType
  <2> QED
    BY <1>1, <2>1, QueuedFinite DEF CapInv, UntriedWithinCap
<1>2. ASSUME NEW s \in Submissions, AdmitBegin(s) \/ AdmitAbort(s)
      PROVE  CapInv'
  <2>1. /\ \A t \in Submissions : admission'[t] = "counted" => admission[t] = "counted"
        /\ Untried' = Untried
    BY <1>0, <1>2 DEF AdmitBegin, AdmitAbort, TypeOK, Untried, Queued
  <2> QED
    BY <2>1 DEF CapInv, UntriedWithinCap
<1>3. ASSUME NEW s \in Submissions, AdmitCount(s)
      PROVE  CapInv'
  <2>1. /\ \A t \in Submissions : admission[t] # "counted"
        /\ admission' = [admission EXCEPT ![s] =
                           IF Cardinality(Queued) >= MaxQueued THEN "done" ELSE "counted"]
        /\ Untried' = Untried
    BY <1>3 DEF AdmitCount, AdmissionLockFree, Untried, Queued
  <2>2. \A t \in Submissions : admission'[t] = "counted" => t = s /\ Cardinality(Queued) < MaxQueued
    BY <1>0, <2>1, QueuedFinite DEF TypeOK
  <2> QED
    BY <2>1, <2>2, QueuedFinite DEF CapInv, UntriedWithinCap
<1>4. ASSUME NEW s \in Submissions, AdmitCommit(s)
      PROVE  CapInv'
  <2>1. /\ admission[s] = "counted" /\ admission' = [admission EXCEPT ![s] = "done"]
        /\ status' = [status EXCEPT ![s] = "queued"] /\ UNCHANGED attempt
    BY <1>4 DEF AdmitCommit
  <2>2. status[s] = "absent" /\ attempt[s] = 0
    BY <1>0, <2>1 DEF RowInv, AdmissionInv
  <2>3. Untried' = Untried \cup {s} /\ s \notin Untried
    BY <1>0, <2>1, <2>2 DEF TypeOK, Untried, Queued
  <2>4. Cardinality(Untried') = Cardinality(Untried) + 1
    BY <2>3, QueuedFinite, FS_AddElement
  <2>5. \A t \in Submissions : admission'[t] # "counted"
    BY <1>0, <2>1 DEF TypeOK, CapInv
  <2>6. Cardinality(Untried) < MaxQueued
    BY <2>1 DEF CapInv
  <2> QED
    BY <2>4, <2>5, <2>6, QueuedFinite DEF CapInv, UntriedWithinCap
<1>5. CASE Admission
  BY <1>2, <1>3, <1>4, <1>5 DEF Admission
<1>6. CASE Next /\ ~Admission
  BY <1>1, <1>6, OthersAddNone
<1>7. CASE UNCHANGED vars
  BY <1>1, <1>7 DEF vars, Untried, Queued
<1> QED
  BY <1>5, <1>6, <1>7

(* SaveAdmitted keeps the submissions nobody has tried yet within          *)
(* MAX_QUEUED, however many servers admit at once and whatever recovery    *)
(* puts back.                                                              *)
THEOREM CapHolds == Spec => []UntriedWithinCap
<1>1. Init => CapInv
  <2> SUFFICES ASSUME Init PROVE CapInv
    OBVIOUS
  <2>1. Untried = {} /\ \A s \in Submissions : admission[s] # "counted"
    BY DEF Init, Untried, Queued
  <2>2. Cardinality(Untried) = 0
    BY <2>1, FS_EmptySet
  <2> QED
    BY <2>1, <2>2, QueuedAssumption DEF CapInv, UntriedWithinCap
<1>2. CapInv => UntriedWithinCap
  BY DEF CapInv
<1> QED
  BY <1>1, <1>2, NextCapInv, Invariance, PTL DEF Spec
=============================================================================
