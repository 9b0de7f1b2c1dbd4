--------------------------- MODULE SubmissionQueue ---------------------------
(***************************************************************************)
(* The durable submission queue: the PostgreSQL table, the statements that *)
(* db/queries/submissions.sql runs on it, admission, the worker loop with  *)
(* its lease renewal, the recovery of expired leases, and the servers that *)
(* start, drain, crash and start again.                                    *)
(*                                                                         *)
(* Time is kept as what is left of each lease: lease[s] is                 *)
(* lease_expires_at - NOW(), 0 once it is in the past, NoLease for NULL.   *)
(* Each action is one statement, one transaction step, or one step of a    *)
(* goroutine between two of them.                                          *)
(***************************************************************************)
EXTENDS Integers, FiniteSets

CONSTANTS Submissions,    \* submission ids
          Servers,        \* server processes that share the database
          Workers,        \* queue workers of all servers
          ServerOf,       \* the server a worker belongs to
          LeaseDuration,  \* QUEUE_LEASE_MS, in ticks
          MaxAttempts,    \* QUEUE_MAX_ATTEMPTS
          MaxQueued,      \* MAX_QUEUED
          MaxStops        \* bound: how often servers crash or are told to stop

ASSUME SubmissionsAssumption == IsFiniteSet(Submissions)
ASSUME ServerOfAssumption == ServerOf \in [Workers -> Servers]
ASSUME LeaseAssumption    == LeaseDuration \in Nat \ {0}
ASSUME AttemptsAssumption == MaxAttempts \in Nat \ {0}
ASSUME QueuedAssumption   == MaxQueued \in Nat \ {0}
ASSUME StopsAssumption    == MaxStops \in Nat

VARIABLES
  \* columns of the submissions table
  status, attempt, lease,
  result,      \* the attempt that wrote the stored result, 0 for NULL
  created,     \* order of created_at, 0 before the admission transaction began
  \* transactions and statements in progress
  admission,   \* admission transaction of a submission
  recovering,  \* whether a server has a recovery transaction open
  expired,     \* expired[v][s]: the attempt v's transaction read when it locked s, or 0
  inflight,    \* UpdateSubmission statements that PostgreSQL has not run yet
  \* processes
  server, pc,
  claim,       \* the claim a worker holds, [sub, attempt]
  cancelled,   \* the process context of the worker's claim is cancelled
  stops

rowVars    == <<status, attempt, lease, result>>
admitVars  == <<created, admission>>
recoverVars == <<recovering, expired>>
workerVars == <<pc, claim, cancelled>>
serverVars == <<server, stops>>
vars == <<rowVars, admitVars, recoverVars, inflight, workerVars, serverVars>>

NoLease == -1
Statuses == {"absent", "queued", "running", "finished", "failed"}
TerminalStatuses == {"finished", "failed"}
Claims == [sub : Submissions, attempt : 1..MaxAttempts]
Updates == [worker : Workers, sub : Submissions, attempt : 1..MaxAttempts,
            target : {"running"} \cup TerminalStatuses, fresh : BOOLEAN]
NoClaim == [sub |-> "none", attempt |-> 0]
ActivePcs == {"loaded", "saving", "judging"}

TypeOK ==
  /\ status  \in [Submissions -> Statuses]
  /\ attempt \in [Submissions -> 0..MaxAttempts]
  /\ lease   \in [Submissions -> NoLease..LeaseDuration]
  /\ result  \in [Submissions -> 0..MaxAttempts]
  /\ created \in [Submissions -> Nat]
  /\ admission \in [Submissions -> {"none", "begun", "counted", "done"}]
  /\ recovering \in [Servers -> BOOLEAN]
  /\ expired \in [Servers -> [Submissions -> 0..MaxAttempts]]
  /\ inflight \subseteq Updates
  /\ server \in [Servers -> {"down", "starting", "up", "draining"}]
  /\ pc \in [Workers -> {"off", "idle", "claimed"} \cup ActivePcs]
  /\ claim \in [Workers -> Claims \cup {NoClaim}]
  /\ cancelled \in [Workers -> BOOLEAN]
  /\ stops \in 0..MaxStops

Init ==
  /\ status  = [s \in Submissions |-> "absent"]
  /\ attempt = [s \in Submissions |-> 0]
  /\ lease   = [s \in Submissions |-> NoLease]
  /\ result  = [s \in Submissions |-> 0]
  /\ created = [s \in Submissions |-> 0]
  /\ admission = [s \in Submissions |-> "none"]
  /\ recovering = [v \in Servers |-> FALSE]
  /\ expired = [v \in Servers |-> [s \in Submissions |-> 0]]
  /\ inflight = {}
  /\ server = [v \in Servers |-> "down"]
  /\ pc = [w \in Workers |-> "off"]
  /\ claim = [w \in Workers |-> NoClaim]
  /\ cancelled = [w \in Workers |-> FALSE]
  /\ stops = 0
-----------------------------------------------------------------------------
(* Admission: SaveAdmitted.  created_at is NOW(), the begin of the         *)
(* transaction, which is not the order in which transactions commit.       *)

AdmitBegin(s) ==
  /\ admission[s] = "none"
  /\ \E v \in Servers : server[v] = "up"
  /\ admission' = [admission EXCEPT ![s] = "begun"]
  /\ created' = [created EXCEPT ![s] = 1 + Cardinality({t \in Submissions : created[t] # 0})]
  /\ UNCHANGED <<rowVars, recoverVars, inflight, workerVars, serverVars>>

Queued == {s \in Submissions : status[s] = "queued"}

(* Mutant: the count is not serialized by the advisory lock.               *)
AdmissionLockIgnored == TRUE

AdmissionLockFree == \A s \in Submissions : admission[s] # "counted"

(* The advisory lock is taken and the queued rows are counted under it:    *)
(* at the cap the request ends with ErrQueueFull.                          *)
AdmitCount(s) ==
  /\ admission[s] = "begun"
  /\ AdmissionLockFree
  /\ admission' = [admission EXCEPT ![s] =
                     IF Cardinality(Queued) >= MaxQueued THEN "done" ELSE "counted"]
  /\ UNCHANGED <<created, rowVars, recoverVars, inflight, workerVars, serverVars>>

AdmitCommit(s) ==
  /\ admission[s] = "counted"
  /\ admission' = [admission EXCEPT ![s] = "done"]
  /\ status' = [status EXCEPT ![s] = "queued"]
  /\ UNCHANGED <<created, attempt, lease, result, recoverVars, inflight, workerVars, serverVars>>

(* A time-out, an error or a crash rolls the transaction back.             *)
AdmitAbort(s) ==
  /\ admission[s] \in {"begun", "counted"}
  /\ admission' = [admission EXCEPT ![s] = "done"]
  /\ UNCHANGED <<created, rowVars, recoverVars, inflight, workerVars, serverVars>>
-----------------------------------------------------------------------------
(* The worker loop of startWorker.                                         *)

(* Mutant: FOR UPDATE is left out of LockExpiredSubmissions.               *)
RowFreeIgnored(s) == TRUE

(* No recovery transaction holds the row's lock.                           *)
RowFree(s) == \A v \in Servers : expired[v][s] = 0

OldestQueued(s) ==
  /\ status[s] = "queued"
  /\ \A t \in Queued : created[s] <= created[t]

(* The row changes of ClaimNextSubmission.                                 *)
ClaimRow(s) ==
  /\ status'  = [status EXCEPT ![s] = "running"]
  /\ attempt' = [attempt EXCEPT ![s] = @ + 1]
  /\ lease'   = [lease EXCEPT ![s] = LeaseDuration]

CanDequeue(w) == pc[w] = "idle" /\ server[ServerOf[w]] = "up"

Dequeue(w, s) ==
  /\ CanDequeue(w)
  /\ OldestQueued(s)
  /\ ClaimRow(s)
  /\ claim' = [claim EXCEPT ![w] = [sub |-> s, attempt |-> attempt[s] + 1]]
  /\ pc' = [pc EXCEPT ![w] = "claimed"]
  /\ UNCHANGED <<result, admitVars, recoverVars, inflight, cancelled, serverVars>>

(* The claim commits but its answer is lost: nobody holds the attempt.     *)
DequeueLost(w, s) ==
  /\ CanDequeue(w)
  /\ OldestQueued(s)
  /\ ClaimRow(s)
  /\ UNCHANGED <<result, admitVars, recoverVars, inflight, workerVars, serverVars>>

(* A worker between two submissions sees its context cancelled.            *)
StopWorker(w) ==
  /\ pc[w] = "idle"
  /\ server[ServerOf[w]] = "draining"
  /\ pc' = [pc EXCEPT ![w] = "off"]
  /\ UNCHANGED <<rowVars, admitVars, recoverVars, inflight, claim, cancelled, serverVars>>

Abandon(w) ==
  /\ pc' = [pc EXCEPT ![w] = "idle"]
  /\ claim' = [claim EXCEPT ![w] = NoClaim]
  /\ cancelled' = [cancelled EXCEPT ![w] = FALSE]

(* store.Get and the checks on what it returned.                           *)
Load(w) ==
  /\ pc[w] = "claimed"
  /\ LET s == claim[w].sub IN
       IF attempt[s] = claim[w].attempt /\ status[s] \in {"queued", "running"}
         THEN /\ pc' = [pc EXCEPT ![w] = "loaded"]
              /\ UNCHANGED <<claim, cancelled>>
         ELSE Abandon(w)
  /\ UNCHANGED <<rowVars, admitVars, recoverVars, inflight, serverVars>>

(* Get reports a database error as "not found": the claim is dropped.      *)
LoadFails(w) ==
  /\ pc[w] = "claimed"
  /\ Abandon(w)
  /\ UNCHANGED <<rowVars, admitVars, recoverVars, inflight, serverVars>>

(* store.Update is sent.  Its NOW() is the start of the statement, so      *)
(* whether the lease is live is settled here, and the rest of the fence    *)
(* when the row is free.                                                   *)
Send(w, target) ==
  /\ inflight' = inflight \cup {[worker |-> w, sub |-> claim[w].sub,
                                 attempt |-> claim[w].attempt, target |-> target,
                                 fresh |-> lease[claim[w].sub] > 0]}
  /\ pc' = [pc EXCEPT ![w] = "saving"]
  /\ UNCHANGED <<claim, cancelled, rowVars, admitVars, recoverVars, serverVars>>

(* ValidateJob fails, or the language is not registered.                   *)
RejectJob(w) == pc[w] = "loaded" /\ Send(w, "finished")

MarkRunning(w) == pc[w] = "loaded" /\ Send(w, "running")

(* A verdict on the program needs a context that was not cancelled.        *)
FinishJudging(w) == pc[w] = "judging" /\ ~cancelled[w] /\ Send(w, "finished")

(* infrastructureFailure, on a failed stage or a cancelled context.        *)
InfrastructureFailure(w) == pc[w] = "judging" /\ Send(w, "failed")

(* Mutant: the statement is fenced by the lease but not by the attempt.    *)
UpdateAppliesToAnyAttempt(u) == status[u.sub] = "running" /\ u.fresh

(* Mutant: the statement is fenced by the attempt but not by the status.   *)
UpdateAppliesToAnyStatus(u) == attempt[u.sub] = u.attempt /\ u.fresh

(* The WHERE clause of UpdateSubmission.                                   *)
UpdateApplies(u) ==
  /\ attempt[u.sub] = u.attempt
  /\ \/ status[u.sub] = "running" /\ u.fresh
     \/ status[u.sub] = "queued" /\ u.target = "failed" /\ attempt[u.sub] = 0

(* Mutant: every update clears the lease.                                  *)
UpdateRowClearsLease(u) ==
  /\ status' = [status EXCEPT ![u.sub] = u.target]
  /\ result' = [result EXCEPT ![u.sub] = IF u.target = "running" THEN 0 ELSE u.attempt]
  /\ lease'  = [lease EXCEPT ![u.sub] = NoLease]
  /\ UNCHANGED attempt

(* The SET clause of UpdateSubmission.                                     *)
UpdateRow(u) ==
  /\ status' = [status EXCEPT ![u.sub] = u.target]
  /\ result' = [result EXCEPT ![u.sub] = IF u.target = "running" THEN 0 ELSE u.attempt]
  /\ lease'  = [lease EXCEPT ![u.sub] =
                  IF u.target \in TerminalStatuses THEN NoLease ELSE @]
  /\ UNCHANGED attempt

Awaits(w, u) ==
  /\ pc[w] = "saving"
  /\ u.worker = w
  /\ claim[w] = [sub |-> u.sub, attempt |-> u.attempt]

(* PostgreSQL runs the statement; a worker that still waits goes on to     *)
(* judging after a successful "running" update and is done otherwise.      *)
ExecUpdate(u) ==
  /\ RowFree(u.sub)
  /\ inflight' = inflight \ {u}
  /\ IF UpdateApplies(u) THEN UpdateRow(u) ELSE UNCHANGED rowVars
  /\ LET w == u.worker IN
       IF ~Awaits(w, u) THEN UNCHANGED workerVars
       ELSE IF UpdateApplies(u) /\ u.target = "running"
         THEN /\ pc' = [pc EXCEPT ![w] = "judging"]
              /\ UNCHANGED <<claim, cancelled>>
         ELSE Abandon(w)
  /\ UNCHANGED <<admitVars, recoverVars, serverVars>>

(* The worker's operation times out; the statement may still run later.    *)
SaveTimesOut(w) ==
  /\ pc[w] = "saving"
  /\ Abandon(w)
  /\ UNCHANGED <<rowVars, admitVars, recoverVars, inflight, serverVars>>

(* A statement nobody waits for any more is cancelled or lost.             *)
DropUpdate(u) ==
  /\ ~Awaits(u.worker, u)
  /\ inflight' = inflight \ {u}
  /\ UNCHANGED <<rowVars, admitVars, recoverVars, workerVars, serverVars>>
-----------------------------------------------------------------------------
(* Lease renewal: the goroutine renewSubmissionLease next to each          *)
(* processing worker.  It ends with the first error.                       *)

Renews(w) == pc[w] \in ActivePcs /\ ~cancelled[w]

RenewApplies(c) ==
  /\ status[c.sub] = "running"
  /\ attempt[c.sub] = c.attempt
  /\ lease[c.sub] > 0

RenewLease(w) ==
  /\ Renews(w)
  /\ IF RenewApplies(claim[w])
       THEN /\ lease' = [lease EXCEPT ![claim[w].sub] = LeaseDuration]
            /\ UNCHANGED cancelled
       ELSE /\ cancelled' = [cancelled EXCEPT ![w] = TRUE]
            /\ UNCHANGED lease
  /\ UNCHANGED <<status, attempt, result, admitVars, recoverVars, inflight, pc, claim, serverVars>>

RenewFails(w) ==
  /\ Renews(w)
  /\ cancelled' = [cancelled EXCEPT ![w] = TRUE]
  /\ UNCHANGED <<rowVars, admitVars, recoverVars, inflight, pc, claim, serverVars>>
-----------------------------------------------------------------------------
(* Recovery: one transaction that locks every expired row no other         *)
(* transaction holds, then requeues or fails each and commits.             *)

(* Mutant: recovery does not compare the lease with NOW().                 *)
LockedBeforeExpiry(s) == status[s] = "running" /\ RowFree(s)

LockedByRecovery(s) ==
  /\ status[s] = "running"
  /\ lease[s] = 0
  /\ RowFree(s)

RecoverLock(v) ==
  /\ server[v] \in {"starting", "up"}
  /\ ~recovering[v]
  /\ server[v] = "up" => \E s \in Submissions : LockedByRecovery(s)
  /\ recovering' = [recovering EXCEPT ![v] = TRUE]
  /\ expired' = [expired EXCEPT ![v] =
                   [s \in Submissions |-> IF LockedByRecovery(s) THEN attempt[s] ELSE 0]]
  /\ UNCHANGED <<rowVars, admitVars, inflight, workerVars, serverVars>>

EndRecovery(v) ==
  /\ recovering' = [recovering EXCEPT ![v] = FALSE]
  /\ expired' = [expired EXCEPT ![v] = [s \in Submissions |-> 0]]

(* Mutant: one retry too many.                                             *)
RetriesOneMore(n) == n <= MaxAttempts

Retries(n) == n < MaxAttempts

(* Mutant: a requeued row gets back the attempt it lost.                   *)
RecoverRowsRefunds(v) ==
  /\ status' = [s \in Submissions |->
                  IF expired[v][s] = 0 THEN status[s]
                  ELSE IF Retries(expired[v][s]) THEN "queued" ELSE "failed"]
  /\ attempt' = [s \in Submissions |->
                   IF expired[v][s] # 0 /\ Retries(expired[v][s]) THEN attempt[s] - 1 ELSE attempt[s]]
  /\ lease'  = [s \in Submissions |-> IF expired[v][s] = 0 THEN lease[s] ELSE NoLease]
  /\ UNCHANGED result

(* RequeueExpiredSubmission or FailExpiredSubmission for every locked row. *)
RecoverRows(v) ==
  /\ status' = [s \in Submissions |->
                  IF expired[v][s] = 0 THEN status[s]
                  ELSE IF Retries(expired[v][s]) THEN "queued" ELSE "failed"]
  /\ result' = [s \in Submissions |->
                  IF expired[v][s] = 0 THEN result[s]
                  ELSE IF Retries(expired[v][s]) THEN 0 ELSE expired[v][s]]
  /\ lease'  = [s \in Submissions |-> IF expired[v][s] = 0 THEN lease[s] ELSE NoLease]
  /\ UNCHANGED attempt

(* At startup the workers are started once recovery has succeeded.         *)
RecoverCommit(v) ==
  /\ recovering[v]
  /\ server[v] # "down"
  /\ RecoverRows(v)
  /\ EndRecovery(v)
  /\ IF server[v] = "starting"
       THEN /\ server' = [server EXCEPT ![v] = "up"]
            /\ pc' = [w \in Workers |-> IF ServerOf[w] = v THEN "idle" ELSE pc[w]]
       ELSE UNCHANGED <<server, pc>>
  /\ UNCHANGED <<admitVars, inflight, claim, cancelled, stops>>

(* Any error rolls back; at startup it is fatal.  PostgreSQL rolls back    *)
(* the transaction of a dead server.                                       *)
RecoverRollback(v) ==
  /\ recovering[v]
  /\ EndRecovery(v)
  /\ server' = [server EXCEPT ![v] = IF @ = "starting" THEN "down" ELSE @]
  /\ UNCHANGED <<rowVars, admitVars, inflight, workerVars, stops>>
-----------------------------------------------------------------------------
(* Server processes.                                                       *)

Boot(v) ==
  /\ server[v] = "down"
  /\ ~recovering[v]
  /\ server' = [server EXCEPT ![v] = "starting"]
  /\ UNCHANGED <<rowVars, admitVars, recoverVars, inflight, workerVars, stops>>

(* SIGTERM: cancelWorkers reaches every process and lease context.         *)
Drain(v) ==
  /\ server[v] = "up"
  /\ stops < MaxStops
  /\ stops' = stops + 1
  /\ server' = [server EXCEPT ![v] = "draining"]
  /\ cancelled' = [w \in Workers |-> cancelled[w] \/ (ServerOf[w] = v /\ pc[w] # "idle")]
  /\ UNCHANGED <<rowVars, admitVars, recoverVars, inflight, pc, claim>>

WorkersGone(v) ==
  /\ server' = [server EXCEPT ![v] = "down"]
  /\ pc' = [w \in Workers |-> IF ServerOf[w] = v THEN "off" ELSE pc[w]]
  /\ claim' = [w \in Workers |-> IF ServerOf[w] = v THEN NoClaim ELSE claim[w]]
  /\ cancelled' = [w \in Workers |-> IF ServerOf[w] = v THEN FALSE ELSE cancelled[w]]
  /\ UNCHANGED <<rowVars, admitVars, recoverVars, inflight>>

(* The workers have stopped, or the shutdown deadline has passed.          *)
Exit(v) ==
  /\ server[v] = "draining"
  /\ WorkersGone(v)
  /\ UNCHANGED stops

Crash(v) ==
  /\ server[v] # "down"
  /\ stops < MaxStops
  /\ stops' = stops + 1
  /\ WorkersGone(v)

Tick ==
  /\ \E s \in Submissions : lease[s] > 0
  /\ lease' = [s \in Submissions |-> IF lease[s] > 0 THEN lease[s] - 1 ELSE lease[s]]
  /\ UNCHANGED <<status, attempt, result, admitVars, recoverVars, inflight, workerVars, serverVars>>
-----------------------------------------------------------------------------
Admission ==
  \E s \in Submissions : AdmitBegin(s) \/ AdmitCount(s) \/ AdmitCommit(s) \/ AdmitAbort(s)

WorkerStep ==
  \/ \E w \in Workers, s \in Submissions : Dequeue(w, s) \/ DequeueLost(w, s)
  \/ \E w \in Workers : \/ StopWorker(w) \/ Load(w) \/ LoadFails(w)
                        \/ RejectJob(w) \/ MarkRunning(w)
                        \/ FinishJudging(w) \/ InfrastructureFailure(w)
                        \/ SaveTimesOut(w) \/ RenewLease(w) \/ RenewFails(w)

DatabaseStep == \E u \in inflight : ExecUpdate(u) \/ DropUpdate(u)

ServerStep ==
  \E v \in Servers : \/ RecoverLock(v) \/ RecoverCommit(v) \/ RecoverRollback(v)
                     \/ Boot(v) \/ Drain(v) \/ Exit(v) \/ Crash(v)

Next == Admission \/ WorkerStep \/ DatabaseStep \/ ServerStep \/ Tick

Spec == Init /\ [][Next]_vars

(* Workers, timers and the restart policy of the containers make progress. *)
(* Nothing is assumed about statements: any of them may time out or be     *)
(* lost.  Recovery is retried on a ticker, so it succeeds some time after  *)
(* it keeps being possible.                                                *)
Fairness ==
  /\ WF_vars(Tick)
  /\ \A w \in Workers :
       /\ WF_vars(\E s \in Submissions : Dequeue(w, s))
       /\ WF_vars(Load(w) \/ LoadFails(w))
       /\ WF_vars(RejectJob(w) \/ MarkRunning(w))
       /\ WF_vars(FinishJudging(w) \/ InfrastructureFailure(w))
       /\ WF_vars(SaveTimesOut(w))
  /\ \A v \in Servers :
       /\ WF_vars(Boot(v))
       /\ WF_vars(Exit(v))
       /\ WF_vars(RecoverLock(v))
       /\ SF_vars(RecoverCommit(v))
       /\ WF_vars(server[v] = "down" /\ RecoverRollback(v))

FairSpec == Spec /\ Fairness
-----------------------------------------------------------------------------
(* A stored result is the one of the row's current attempt, and only a     *)
(* terminal row has one: whatever a superseded worker still writes, the    *)
(* attempt and lease fence of UpdateSubmission keeps it out, and requeueing*)
(* clears what the lost attempt left.                                      *)
ResultFromCurrentAttempt ==
  \A s \in Submissions :
    result[s] = IF status[s] \in TerminalStatuses THEN attempt[s] ELSE 0

(* No two workers, of one server or of two, ever hold the same attempt of  *)
(* the same submission: this is what makes the attempt number a fence.     *)
ExclusiveAttempt ==
  \A w, x \in Workers : claim[w] = claim[x] /\ claim[w] # NoClaim => w = x

(* Whatever crashes, lost claims and recoveries happened, a queued row has *)
(* an attempt left, so that the next claim stays within QUEUE_MAX_ATTEMPTS.*)
QueuedHasAttemptLeft ==
  \A s \in Submissions : status[s] = "queued" => attempt[s] < MaxAttempts

(* A row has a lease exactly while it is running.  A running row without   *)
(* one would be invisible to LockExpiredSubmissions for ever.              *)
RunningIsLeased ==
  \A s \in Submissions : status[s] = "running" <=> lease[s] # NoLease

(* What a recovery transaction read still holds when it writes: its rows   *)
(* are running, expired, at the attempt it read, and no other transaction  *)
(* has them.  Its two UPDATEs only say WHERE id, so all depends on it.     *)
RecoveryReadsAreCurrent ==
  \A v \in Servers, s \in Submissions :
    expired[v][s] # 0 =>
      /\ status[s] = "running" /\ lease[s] = 0 /\ attempt[s] = expired[v][s]
      /\ \A x \in Servers : expired[x][s] # 0 => x = v

(* Admission keeps the submissions nobody has tried yet within MAX_QUEUED, *)
(* however many admission transactions run at once.                        *)
Untried == {s \in Queued : attempt[s] = 0}
UntriedWithinCap == Cardinality(Untried) <= MaxQueued

(* The inductive invariant: the invariants above and what ties the rows to *)
(* their admission and to the claims workers hold.  A row under admission  *)
(* does not exist yet; a claim never names an attempt the row has not      *)
(* reached; a worker with a submission in hand has a claim.                *)
AdmissionInv ==
  \A s \in Submissions :
    /\ admission[s] # "done" => status[s] = "absent"
    /\ status[s] = "absent" => attempt[s] = 0
    /\ status[s] = "running" => attempt[s] > 0

ClaimInv ==
  \A w \in Workers :
    /\ claim[w] # NoClaim => claim[w].attempt <= attempt[claim[w].sub]
    /\ pc[w] \in {"claimed"} \cup ActivePcs => claim[w] # NoClaim

IndInv ==
  /\ TypeOK
  /\ ResultFromCurrentAttempt
  /\ ExclusiveAttempt
  /\ QueuedHasAttemptLeft
  /\ RunningIsLeased
  /\ RecoveryReadsAreCurrent
  /\ AdmissionInv
  /\ ClaimInv

(* What UntriedWithinCap needs besides: at most one transaction is between *)
(* its count and its commit, and what it counted still leaves room.        *)
CapInv ==
  /\ \A s, t \in Submissions : admission[s] = "counted" /\ admission[t] = "counted" => s = t
  /\ (\E s \in Submissions : admission[s] = "counted") => Cardinality(Untried) < MaxQueued
  /\ UntriedWithinCap

(* A terminal status and its result never change again: no late statement  *)
(* and no recovery reopens or overwrites a settled submission.             *)
TerminalIsFinal ==
  [][\A s \in Submissions : status[s] \in TerminalStatuses =>
       status'[s] = status[s] /\ result'[s] = result[s]]_vars

(* A submission goes back to the queue only when its lease has expired,    *)
(* never while a worker may still settle it.                               *)
NoEarlyTakeover ==
  [][\A s \in Submissions : status[s] = "running" /\ status'[s] = "queued"
       => lease[s] = 0]_vars

(* The queue, with all its processes, implements the life cycle that       *)
(* SubmissionLifecycle promises for each submission.                       *)
Lifecycle == INSTANCE SubmissionLifecycle WITH
  Submissions <- Submissions, MaxAttempts <- MaxAttempts,
  status <- status, attempt <- attempt, result <- result

LifecycleSpec == Lifecycle!Spec

(* Every admitted submission is settled: no crash, lost claim, lost update *)
(* or failed recovery leaves one queued or running for ever.               *)
EverySubmissionSettles ==
  \A s \in Submissions :
    status[s] = "queued" ~> status[s] \in TerminalStatuses

(* docs/operations.md: "MAX_QUEUED caps durable queued submissions across  *)
(* server instances".  Recovery puts rows back without looking at the cap. *)
QueuedWithinCap == Cardinality(Queued) <= MaxQueued
=============================================================================
