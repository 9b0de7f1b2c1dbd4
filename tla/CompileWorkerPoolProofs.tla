---------------------- MODULE CompileWorkerPoolProofs ----------------------
(***************************************************************************)
(* Proofs about CompileWorkerPool, for any number of requests and compile  *)
(* workers.                                                                *)
(***************************************************************************)
EXTENDS CompileWorkerPool, FiniteSetTheorems, TLAPS

USE RequestsAssumption, WorkersAssumption
USE DEF Outcomes, Compiling, callVars, workerVars, closeVars

(* The capacity of p.jobs is a number.                                     *)
LEMMA CapacityType == Capacity \in Nat
  BY FS_CardinalityType DEF Capacity

(* The part of the invariant about where a request is.                     *)
PlaceInv == OneWorkerEach /\ QueuedOnce /\ AnswersAreAwaited

(* It is kept by a step after which every request is where it was, and     *)
(* whose moves leave the callers that are out of it where they were.       *)
LEMMA PlaceFrame ==
  ASSUME TypeOK, PlaceInv, UNCHANGED <<jobs, job, answer>>,
         \A w \in CompileWorkers : Holds(w)' => Holds(w),
         \A r \in Requests : \/ caller'[r] = caller[r]
                             \/ caller'[r] \in {"waiting", "refused", "refusedDone"}
                             \/ caller[r] \notin {"waiting", "refused", "refusedDone"}
  PROVE  PlaceInv'
<1>1. ASSUME NEW r \in Requests, caller[r] \in {"waiting", "refused", "refusedDone"}
      PROVE  caller'[r] \in {"waiting", "refused", "refusedDone"}
  BY <1>1
<1>2. \A i \in 1 .. Len(jobs) : jobs[i] \in Requests
  BY DEF TypeOK
<1>3. OneWorkerEach'
  BY <1>1 DEF PlaceInv, OneWorkerEach
<1>4. QueuedOnce'
  BY <1>1, <1>2 DEF PlaceInv, QueuedOnce
<1>5. AnswersAreAwaited'
  BY <1>1 DEF PlaceInv, AnswersAreAwaited
<1> QED
  BY <1>3, <1>4, <1>5 DEF PlaceInv

(* The steps of a compile worker between taking a request and answering.   *)
CompileStep(w) ==
  \/ CheckRequest(w) \/ StartJob(w) \/ StatSource(w) \/ Mount(w) \/ CompileKilled(w)
  \/ CompileEnds(w) \/ StageArtifacts(w) \/ InstallArtifacts(w) \/ AfterFunc(w)

(* The steps of a caller that do not touch a channel.                      *)
LeaveStep(r) == Call(r) \/ OfferRefused(r) \/ AwaitRefused(r) \/ Finish(r) \/ CancelRequest(r)

(* Next, by the parts the proofs treat separately.                         *)
LEMMA NextSteps ==
  Next <=> \/ \E r \in Requests : LeaveStep(r) \/ Offer(r) \/ AwaitAnswer(r)
           \/ \E w \in CompileWorkers : CompileStep(w) \/ Take(w) \/ StopWorker(w) \/ Deliver(w)
           \/ Drain \/ Close \/ CloseDone
  BY DEF Next, CallStep, JobStep, CompileStep, LeaveStep

-----------------------------------------------------------------------------
(* Types.                                                                  *)

(* A caller's steps keep the types; the channel has room for an offer.     *)
LEMMA CallerTypes ==
  ASSUME TypeOK, NEW r \in Requests, LeaveStep(r) \/ Offer(r) \/ AwaitAnswer(r)
  PROVE  TypeOK'
<1>1. CASE LeaveStep(r)
  BY <1>1 DEF LeaveStep, Call, OfferRefused, AwaitRefused, Refuse, Finish, CancelRequest, CallerGoto, TypeOK
<1>2. CASE Offer(r)
  <2>1. jobs' \in Seq(Requests) /\ Len(jobs') = Len(jobs) + 1
    BY <1>2 DEF Offer, TypeOK
  <2>2. Len(jobs') <= Capacity
    BY <1>2, <2>1, CapacityType DEF Offer, TypeOK
  <2> QED
    BY <1>2, <2>1, <2>2 DEF Offer, CallerGoto, TypeOK
<1>3. CASE AwaitAnswer(r)
  BY <1>3 DEF AwaitAnswer, Reading, CallerGoto, TypeOK
<1> QED
  BY <1>1, <1>2, <1>3

(* What Take takes is a request, and the rest of the channel stays.        *)
LEMMA TakeEffect ==
  ASSUME TypeOK, jobs # <<>>
  PROVE  /\ Head(jobs) \in Requests /\ Head(jobs) = jobs[1] /\ 1 \in 1 .. Len(jobs)
         /\ Tail(jobs) \in Seq(Requests) /\ Len(Tail(jobs)) = Len(jobs) - 1
         /\ \A i \in 1 .. Len(Tail(jobs)) : Tail(jobs)[i] = jobs[i + 1] /\ i + 1 \in 1 .. Len(jobs)
  BY DEF TypeOK

(* A compile worker's steps keep the types.                                *)
LEMMA WorkerTypes ==
  ASSUME TypeOK, OneWorkerEach, NEW w \in CompileWorkers,
         CompileStep(w) \/ Take(w) \/ StopWorker(w) \/ Deliver(w)
  PROVE  TypeOK'
<1>0. Holds(w) => job[w] \in Requests
  BY DEF OneWorkerEach
<1>1. CASE CheckRequest(w) \/ StartJob(w) \/ StatSource(w) \/ CompileKilled(w)
  BY <1>1 DEF CheckRequest, StartJob, StatSource, CompileKilled, Conclude, WorkerGoto, TypeOK
<1>2. CASE CompileEnds(w) \/ StageArtifacts(w) \/ AfterFunc(w) \/ StopWorker(w)
  BY <1>0, <1>2 DEF CompileEnds, StageArtifacts, AfterFunc, StopWorker, Conclude, WorkerGoto, Did, Holds, TypeOK
<1>3. CASE Mount(w) \/ InstallArtifacts(w)
  BY <1>0, <1>3 DEF Mount, InstallArtifacts, Holds, Conclude, WorkerGoto, Did, TypeOK
<1>4. CASE Take(w)
  <2>1. Len(jobs') <= Capacity
    BY <1>4, TakeEffect, CapacityType DEF Take, TypeOK
  <2> QED
    BY <1>4, <2>1, TakeEffect DEF Take, WorkerGoto, TypeOK
<1>5. CASE Deliver(w)
  BY <1>5 DEF Deliver, WorkerGoto, TypeOK
<1> QED
  BY <1>1, <1>2, <1>3, <1>4, <1>5 DEF CompileStep

-----------------------------------------------------------------------------
(* Where a request is.                                                     *)

(* A caller's steps keep a request in one place.                           *)
LEMMA CallerPlaces ==
  ASSUME TypeOK, PlaceInv, NEW q \in Requests, LeaveStep(q) \/ Offer(q) \/ AwaitAnswer(q)
  PROVE  PlaceInv'
<1>1. CASE LeaveStep(q)
  <2>1. UNCHANGED <<jobs, job, answer, worker>>
    BY <1>1 DEF LeaveStep, Call, OfferRefused, AwaitRefused, Finish, CancelRequest
  <2>2. ASSUME NEW r \in Requests
        PROVE  \/ caller'[r] = caller[r]
               \/ caller'[r] \in {"waiting", "refused", "refusedDone"}
               \/ caller[r] \notin {"waiting", "refused", "refusedDone"}
    BY <1>1 DEF LeaveStep, Call, OfferRefused, AwaitRefused, Refuse, Finish, CancelRequest, CallerGoto, TypeOK
  <2> QED
    BY <2>1, <2>2, PlaceFrame DEF Holds
<1>2. CASE Offer(q)
  <2>1. /\ Len(jobs') = Len(jobs) + 1 /\ Len(jobs) \in Nat /\ jobs'[Len(jobs) + 1] = q
        /\ \A i \in 1 .. Len(jobs) : jobs'[i] = jobs[i]
    BY <1>2 DEF Offer, TypeOK
  <2>2. \A i \in 1 .. Len(jobs') : i = Len(jobs) + 1 \/ i \in 1 .. Len(jobs)
    BY <2>1
  <2>3. caller[q] = "offering" /\ caller' = [caller EXCEPT ![q] = "waiting"]
    BY <1>2 DEF Offer, CallerGoto
  <2>4. UNCHANGED <<answer, worker, job>>
    BY <1>2 DEF Offer
  <2>5. answer[q] = "none"
    BY <2>3 DEF PlaceInv, AnswersAreAwaited
  <2>6. \A i \in 1 .. Len(jobs) : jobs[i] # q /\ jobs[i] \in Requests
    BY <2>3 DEF PlaceInv, QueuedOnce, TypeOK
  <2>7. \A w \in CompileWorkers : Holds(w) => job[w] # q
    BY <2>3 DEF PlaceInv, OneWorkerEach
  <2>8. ASSUME NEW r \in Requests
        PROVE  caller'[r] = IF r = q THEN "waiting" ELSE caller[r]
    BY <2>3 DEF TypeOK
  <2>9. OneWorkerEach'
    BY <2>1, <2>2, <2>4, <2>7, <2>8 DEF PlaceInv, OneWorkerEach, Holds
  <2>10. QueuedOnce'
    BY <2>1, <2>2, <2>4, <2>5, <2>6, <2>8 DEF PlaceInv, QueuedOnce
  <2>11. AnswersAreAwaited'
    BY <2>4, <2>8 DEF PlaceInv, AnswersAreAwaited
  <2> QED
    BY <2>9, <2>10, <2>11 DEF PlaceInv
<1>3. CASE AwaitAnswer(q)
  <2>1. /\ answer[q] # "none" /\ UNCHANGED <<jobs, worker, job>>
        /\ \A r \in Requests : /\ answer'[r] = IF r = q THEN "none" ELSE answer[r]
                               /\ caller'[r] = IF r = q THEN "answered" ELSE caller[r]
    BY <1>3 DEF AwaitAnswer, CallerGoto, TypeOK
  <2>2. OneWorkerEach'
    BY <2>1 DEF PlaceInv, OneWorkerEach, Holds
  <2>3. QueuedOnce'
    BY <2>1 DEF PlaceInv, QueuedOnce, TypeOK
  <2>4. AnswersAreAwaited'
    BY <2>1 DEF PlaceInv, AnswersAreAwaited
  <2> QED
    BY <2>2, <2>3, <2>4 DEF PlaceInv
<1> QED
  BY <1>1, <1>2, <1>3

(* So do a compile worker's: Take moves the head of the channel into its   *)
(* hands, Deliver moves it into the answer.                                *)
LEMMA WorkerPlaces ==
  ASSUME TypeOK, PlaceInv, NEW w \in CompileWorkers,
         CompileStep(w) \/ Take(w) \/ StopWorker(w) \/ Deliver(w)
  PROVE  PlaceInv'
<1>1. CASE CompileStep(w) \/ StopWorker(w)
  <2>1. UNCHANGED <<jobs, job, answer, caller>>
    BY <1>1 DEF CompileStep, CheckRequest, StartJob, StatSource, Mount, CompileKilled, CompileEnds,
       StageArtifacts, InstallArtifacts, AfterFunc, StopWorker
  <2>2. ASSUME NEW u \in CompileWorkers
        PROVE  Holds(u)' => Holds(u)
    BY <1>1 DEF CompileStep, CheckRequest, StartJob, StatSource, Mount, CompileKilled, CompileEnds,
       StageArtifacts, InstallArtifacts, AfterFunc, StopWorker, Conclude, WorkerGoto, Holds, TypeOK
  <2> QED
    BY <2>1, <2>2, PlaceFrame
<1>2. CASE Take(w)
  <2>1. /\ ~Holds(w) /\ jobs # <<>> /\ jobs' = Tail(jobs) /\ UNCHANGED <<answer, caller>>
        /\ \A u \in CompileWorkers : /\ job'[u] = IF u = w THEN Head(jobs) ELSE job[u]
                                     /\ Holds(u)' <=> u = w \/ Holds(u)
    BY <1>2 DEF Take, WorkerGoto, Holds, TypeOK
  <2>2. /\ Head(jobs) \in Requests /\ Head(jobs) = jobs[1] /\ 1 \in 1 .. Len(jobs)
        /\ \A i \in 1 .. Len(jobs') : jobs'[i] = jobs[i + 1] /\ i + 1 \in 1 .. Len(jobs) /\ i + 1 # 1
    BY <2>1, TakeEffect
  <2>3. /\ answer[jobs[1]] = "none" /\ caller[jobs[1]] \in {"waiting", "refused", "refusedDone"}
        /\ \A i \in 1 .. Len(jobs') : jobs'[i] # jobs[1]
    BY <2>2 DEF PlaceInv, QueuedOnce
  <2>4. \A u \in CompileWorkers : Holds(u) => job[u] # jobs[1]
    BY <2>2 DEF PlaceInv, OneWorkerEach
  <2>5. OneWorkerEach'
    BY <2>1, <2>2, <2>3, <2>4 DEF PlaceInv, OneWorkerEach
  <2>6. QueuedOnce'
    <3> SUFFICES ASSUME NEW i \in 1 .. Len(jobs'), NEW j \in 1 .. Len(jobs')
                 PROVE  /\ answer[jobs'[i]] = "none"
                        /\ caller[jobs'[i]] \in {"waiting", "refused", "refusedDone"}
                        /\ jobs'[j] = jobs'[i] => j = i
      BY <2>1 DEF QueuedOnce
    <3>1. /\ i \in Nat /\ j \in Nat
          /\ jobs'[i] = jobs[i + 1] /\ i + 1 \in 1 .. Len(jobs)
          /\ jobs'[j] = jobs[j + 1] /\ j + 1 \in 1 .. Len(jobs)
      BY <2>1, <2>2, TakeEffect
    <3>2. /\ answer[jobs[i + 1]] = "none"
          /\ caller[jobs[i + 1]] \in {"waiting", "refused", "refusedDone"}
          /\ jobs[j + 1] = jobs[i + 1] => j + 1 = i + 1
      BY <3>1 DEF PlaceInv, QueuedOnce
    <3> QED
      BY <3>1, <3>2
  <2>7. AnswersAreAwaited'
    BY <2>1 DEF PlaceInv, AnswersAreAwaited
  <2> QED
    BY <2>5, <2>6, <2>7 DEF PlaceInv
<1>3. CASE Deliver(w)
  <2>1. /\ Holds(w) /\ UNCHANGED <<jobs, caller>>
        /\ \A u \in CompileWorkers : /\ u # w => job'[u] = job[u]
                                     /\ Holds(u)' <=> u # w /\ Holds(u)
        /\ \A r \in Requests : r # job[w] => answer'[r] = answer[r]
    BY <1>3 DEF Deliver, WorkerGoto, Holds, TypeOK
  <2>2. /\ job[w] \in Requests /\ caller[job[w]] \in {"waiting", "refused", "refusedDone"}
        /\ \A i \in 1 .. Len(jobs) : jobs[i] # job[w]
        /\ \A u \in CompileWorkers : Holds(u) /\ u # w => job[u] # job[w]
    BY <2>1 DEF PlaceInv, OneWorkerEach
  <2>3. OneWorkerEach'
    BY <2>1, <2>2 DEF PlaceInv, OneWorkerEach
  <2>4. QueuedOnce'
    BY <2>1, <2>2 DEF PlaceInv, QueuedOnce, TypeOK
  <2>5. AnswersAreAwaited'
    BY <2>1, <2>2 DEF PlaceInv, AnswersAreAwaited
  <2> QED
    BY <2>3, <2>4, <2>5 DEF PlaceInv
<1> QED
  BY <1>1, <1>2, <1>3

-----------------------------------------------------------------------------
(* The directories, and the theorems.                                      *)

(* A compile worker writes only to the workspace of a caller that has no   *)
(* answer, so a workspace that Finish removed stays removed.               *)
LEMMA NextLeavesNothing ==
  ASSUME TypeOK, PlaceInv, AnsweredLeavesNothing, Next
  PROVE  AnsweredLeavesNothing'
<1>1. ASSUME NEW r \in Requests, LeaveStep(r) \/ Offer(r) \/ AwaitAnswer(r)
      PROVE  AnsweredLeavesNothing'
  BY <1>1 DEF LeaveStep, Call, OfferRefused, AwaitRefused, Finish, CancelRequest, Offer, AwaitAnswer,
     Refuse, CallerGoto, AnsweredLeavesNothing, TypeOK
<1>2. ASSUME NEW w \in CompileWorkers, Mount(w) \/ InstallArtifacts(w)
      PROVE  AnsweredLeavesNothing'
  <2>1. job[w] \in Requests /\ caller[job[w]] # "answeredDone"
    BY <1>2 DEF Mount, InstallArtifacts, Holds, PlaceInv, OneWorkerEach
  <2>2. UNCHANGED caller /\ dirs' \in {dirs, dirs \cup {job[w]}}
    BY <1>2 DEF Mount, InstallArtifacts
  <2> QED
    BY <2>1, <2>2 DEF AnsweredLeavesNothing
<1>3. ASSUME NEW w \in CompileWorkers,
             (CompileStep(w) /\ ~(Mount(w) \/ InstallArtifacts(w))) \/ Take(w) \/ StopWorker(w) \/ Deliver(w)
      PROVE  AnsweredLeavesNothing'
  BY <1>3 DEF CompileStep, CheckRequest, StartJob, StatSource, CompileKilled, CompileEnds,
     StageArtifacts, AfterFunc, Take, StopWorker, Deliver, AnsweredLeavesNothing
<1>4. CASE Drain \/ Close \/ CloseDone
  BY <1>4 DEF Drain, Close, CloseDone, AnsweredLeavesNothing
<1> QED
  BY <1>1, <1>2, <1>3, <1>4, NextSteps

(* Only Conclude leads to the delivery, and it has an outcome.             *)
LEMMA NextFindsOutcome ==
  ASSUME TypeOK, OutcomeFound, Next
  PROVE  OutcomeFound'
<1>1. ASSUME NEW r \in Requests, LeaveStep(r) \/ Offer(r) \/ AwaitAnswer(r)
      PROVE  UNCHANGED <<worker, found>>
  BY <1>1 DEF LeaveStep, Call, OfferRefused, AwaitRefused, Finish, CancelRequest, Offer, AwaitAnswer
<1>2. ASSUME NEW w \in CompileWorkers, CompileStep(w)
      PROVE  OutcomeFound'
  BY <1>2 DEF CompileStep, CheckRequest, StartJob, StatSource, Mount, CompileKilled, CompileEnds,
     StageArtifacts, InstallArtifacts, AfterFunc, Conclude, WorkerGoto, OutcomeFound, TypeOK
<1>3. ASSUME NEW w \in CompileWorkers, Take(w) \/ StopWorker(w) \/ Deliver(w)
      PROVE  OutcomeFound'
  BY <1>3 DEF Take, StopWorker, Deliver, WorkerGoto, OutcomeFound, TypeOK
<1>4. CASE Drain \/ Close \/ CloseDone
  BY <1>4 DEF Drain, Close, CloseDone, OutcomeFound
<1> QED
  BY <1>1, <1>2, <1>3, <1>4, NextSteps DEF OutcomeFound

-----------------------------------------------------------------------------
(* What the callers are told, and what they record.                        *)

(* Nobody is cancelled any less by a step, and a request that is not cut   *)
(* off after it was not before.                                            *)
LEMMA NextCancellation ==
  ASSUME TypeOK, PlaceInv, CancellationInv, Next
  PROVE  /\ CancellationInv'
         /\ ctxDone \subseteq ctxDone' /\ cutOff \subseteq cutOff'
<1>1. ASSUME NEW r \in Requests, LeaveStep(r) \/ Offer(r) \/ AwaitAnswer(r)
      PROVE  /\ CancellationInv'
             /\ ctxDone \subseteq ctxDone' /\ cutOff \subseteq cutOff'
  <2>1. UNCHANGED <<worker, job, jobDone, closer, cutOff>> /\ ctxDone \subseteq ctxDone'
    BY <1>1 DEF LeaveStep, Call, OfferRefused, AwaitRefused, Finish, CancelRequest, Offer, AwaitAnswer
  <2> QED
    BY <2>1 DEF CancellationInv, CancelledFor, PoolDone, Holds
<1>2. ASSUME NEW w \in CompileWorkers, CompileStep(w) \/ Take(w) \/ StopWorker(w) \/ Deliver(w)
      PROVE  /\ CancellationInv'
             /\ ctxDone \subseteq ctxDone' /\ cutOff \subseteq cutOff'
  <2>1. UNCHANGED <<ctxDone, closer, cutOff>>
    BY <1>2 DEF CompileStep, CheckRequest, StartJob, StatSource, Mount, CompileKilled, CompileEnds,
       StageArtifacts, InstallArtifacts, AfterFunc, Take, StopWorker, Deliver
  <2>2. ASSUME NEW u \in CompileWorkers, u \in jobDone'
        PROVE  Holds(u)' /\ job'[u] \in ctxDone
    <3>1. CASE CompileStep(w) \/ StopWorker(w)
      BY <2>2, <3>1 DEF CompileStep, CheckRequest, StartJob, StatSource, Mount, CompileKilled, CompileEnds,
         StageArtifacts, InstallArtifacts, AfterFunc, StopWorker, Conclude, WorkerGoto, Holds,
         CancellationInv, TypeOK
    <3>2. CASE Take(w) \/ Deliver(w)
      BY <2>2, <3>2 DEF Take, Deliver, WorkerGoto, Holds, CancellationInv, TypeOK
    <3> QED
      BY <1>2, <3>1, <3>2
  <2>3. jobDone' \subseteq CompileWorkers
    BY <1>2, WorkerTypes DEF PlaceInv, TypeOK
  <2> QED
    BY <2>1, <2>2, <2>3 DEF CancellationInv, CancelledFor, PoolDone
<1>3. CASE Drain \/ Close \/ CloseDone
  BY <1>3 DEF Drain, Close, CloseDone, CancellationInv, CancelledFor, PoolDone, Holds, TypeOK
<1> QED
  BY <1>1, <1>2, <1>3, NextSteps

(* A compiler ends by itself, or because its context ended, which it does  *)
(* only for a request that is cancelled or cut off.                        *)
LEMMA ConcludesTruly ==
  ASSUME TypeOK, PlaceInv, CancellationInv, NEW w \in CompileWorkers, CompileStep(w),
         worker'[w] = "delivering"
  PROVE  Truthful(job[w], found[w])'
<1>1. Holds(w) => job[w] \in Requests
  BY DEF PlaceInv, OneWorkerEach
<1>2. CASE CompileKilled(w)
  <2>1. CancelledFor(job[w]) /\ UNCHANGED <<ctxDone, cutOff, job>>
    BY <1>1, <1>2 DEF CompileKilled, JobCancelled, CancellationInv, CancelledFor, Holds
  <2>2. found'[w] \in {"error", "killed", "bare"}
    BY <1>2 DEF CompileKilled, Conclude, TypeOK
  <2> QED
    BY <2>1, <2>2 DEF Truthful, CancelledFor
<1>3. CASE CompileEnds(w) \/ InstallArtifacts(w)
  BY <1>1, <1>3 DEF CompileEnds, InstallArtifacts, Conclude, WorkerGoto, Did, Truthful, Holds, TypeOK
<1>4. CASE CheckRequest(w) \/ StatSource(w) \/ StageArtifacts(w)
  BY <1>4 DEF CheckRequest, StatSource, StageArtifacts, Conclude, WorkerGoto, Truthful, TypeOK
<1>5. CASE StartJob(w) \/ Mount(w)
  BY <1>5 DEF StartJob, Mount, WorkerGoto, TypeOK
<1>6. CASE AfterFunc(w)
  BY <1>6 DEF AfterFunc, TypeOK
<1> QED
  BY <1>2, <1>3, <1>4, <1>5, <1>6 DEF CompileStep

(* The part of the invariant about the records.                            *)
TruthInv == OutcomesAreTrue /\ RecordedIsAnswered /\ RecordMatchesCompiler

(* A caller records what it is told, unless its context is done.           *)
LEMMA CallerRecords ==
  ASSUME TypeOK, TruthInv, NEW q \in Requests, LeaveStep(q) \/ Offer(q) \/ AwaitAnswer(q)
  PROVE  TruthInv'
<1>1. UNCHANGED <<worker, job, found, did, cutOff>> /\ ctxDone \subseteq ctxDone'
  BY DEF LeaveStep, Call, OfferRefused, AwaitRefused, Finish, CancelRequest, Offer, AwaitAnswer
<1>2. \A r \in Requests : answer'[r] \in {answer[r], "none"}
  BY DEF LeaveStep, Call, OfferRefused, AwaitRefused, Finish, CancelRequest, Offer, AwaitAnswer, TypeOK
<1>3. OutcomesAreTrue'
  BY <1>1, <1>2 DEF TruthInv, OutcomesAreTrue, Truthful, CancelledFor
<1>4. CASE LeaveStep(q) \/ Offer(q)
  <2>1. \A r \in Requests : /\ recorded'[r] \in {recorded[r], "failed"}
                            /\ caller[r] \in {"answered", "answeredDone"}
                                 => caller'[r] \in {"answered", "answeredDone"}
    BY <1>4 DEF LeaveStep, Call, OfferRefused, AwaitRefused, Refuse, Finish, CancelRequest, Offer,
       CallerGoto, TypeOK
  <2> QED
    BY <1>1, <1>3, <2>1 DEF TruthInv, RecordedIsAnswered, RecordMatchesCompiler
<1>5. CASE AwaitAnswer(q)
  <2>1. /\ answer[q] # "none"
        /\ \A r \in Requests :
             /\ r # q => recorded'[r] = recorded[r] /\ caller'[r] = caller[r]
             /\ r = q => /\ caller'[r] = "answered"
                         /\ recorded'[r] = IF q \in ctxDone THEN "failed" ELSE Reading(answer[q])
    BY <1>5 DEF AwaitAnswer, CallerGoto, TypeOK
  <2>2. RecordedIsAnswered'
    BY <2>1 DEF TruthInv, RecordedIsAnswered
  <2>3. q \notin cutOff => /\ recorded'[q] = "rejected" => did[q] = "rejected"
                           /\ recorded'[q] = "goesOn" => did[q] \in {"installed", "overdue"}
    <3>1. Truthful(q, answer[q]) /\ answer[q] \in Outcomes
      BY DEF TruthInv, OutcomesAreTrue, TypeOK
    <3> QED
      BY <2>1, <3>1 DEF Reading, Truthful, CancelledFor
  <2>4. RecordMatchesCompiler'
    BY <1>1, <2>1, <2>3 DEF TruthInv, RecordMatchesCompiler
  <2> QED
    BY <1>3, <2>2, <2>4 DEF TruthInv
<1> QED
  BY <1>4, <1>5

(* A compile worker changes the history only of the request it has, whose  *)
(* caller has recorded nothing, and passes on what it found.               *)
LEMMA WorkerTells ==
  ASSUME TypeOK, PlaceInv, CancellationInv, TruthInv, Next, NEW w \in CompileWorkers,
         CompileStep(w) \/ Take(w) \/ StopWorker(w) \/ Deliver(w)
  PROVE  TruthInv'
<1>0. ctxDone \subseteq ctxDone' /\ cutOff \subseteq cutOff'
  BY NextCancellation
<1>1. UNCHANGED <<caller, recorded, cutOff>>
  BY DEF CompileStep, CheckRequest, StartJob, StatSource, Mount, CompileKilled, CompileEnds,
     StageArtifacts, InstallArtifacts, AfterFunc, Take, StopWorker, Deliver
<1>2. /\ Holds(w) => /\ job[w] \in Requests /\ answer[job[w]] = "none"
                     /\ caller[job[w]] \notin {"answered", "answeredDone"}
      /\ \A u \in CompileWorkers : Holds(u) /\ Holds(w) /\ u # w => job[u] # job[w]
      /\ \A u \in CompileWorkers : Holds(u) => job[u] \in Requests
  BY DEF PlaceInv, OneWorkerEach
<1>3. \A r \in Requests : did'[r] = did[r] \/ (Holds(w) /\ r = job[w])
  BY <1>2 DEF CompileStep, CheckRequest, StartJob, StatSource, Mount, CompileKilled, CompileEnds,
     StageArtifacts, InstallArtifacts, AfterFunc, Take, StopWorker, Deliver, Did, Holds, TypeOK
<1>4. RecordedIsAnswered'
  BY <1>1 DEF TruthInv, RecordedIsAnswered
<1>5. RecordMatchesCompiler'
  <2> SUFFICES ASSUME NEW r \in Requests \ cutOff, recorded[r] \in {"rejected", "goesOn"}
               PROVE  did'[r] = did[r]
    BY <1>1 DEF TruthInv, RecordMatchesCompiler
  <2>1. caller[r] \in {"answered", "answeredDone"}
    BY DEF TruthInv, RecordedIsAnswered
  <2> QED
    BY <1>2, <1>3, <2>1
<1>6. OutcomesAreTrue'
  <2>1. CASE Deliver(w)
    <3>1. /\ worker[w] = "delivering" /\ Holds(w) /\ UNCHANGED did
          /\ \A r \in Requests : answer'[r] = IF r = job[w] THEN found[w] ELSE answer[r]
          /\ \A u \in CompileWorkers : worker'[u] = "delivering" =>
                worker[u] = "delivering" /\ job'[u] = job[u] /\ found'[u] = found[u]
      BY <2>1 DEF Deliver, WorkerGoto, Holds, TypeOK
    <3> QED
      BY <1>0, <1>2, <3>1 DEF TruthInv, OutcomesAreTrue, Truthful, CancelledFor
  <2>2. CASE Take(w) \/ StopWorker(w)
    <3>1. /\ UNCHANGED <<did, answer>>
          /\ \A u \in CompileWorkers : worker'[u] = "delivering" =>
                worker[u] = "delivering" /\ job'[u] = job[u] /\ found'[u] = found[u]
      BY <2>2 DEF Take, StopWorker, WorkerGoto, TypeOK
    <3> QED
      BY <1>0, <3>1 DEF TruthInv, OutcomesAreTrue, Truthful, CancelledFor
  <2>3. CASE CompileStep(w)
    <3>1. /\ Holds(w) /\ UNCHANGED <<answer, job>>
          /\ \A u \in CompileWorkers : u # w => worker'[u] = worker[u] /\ found'[u] = found[u]
      BY <2>3 DEF CompileStep, CheckRequest, StartJob, StatSource, Mount, CompileKilled, CompileEnds,
         StageArtifacts, InstallArtifacts, AfterFunc, Conclude, WorkerGoto, Holds, TypeOK
    <3>2. ASSUME NEW r \in Requests
          PROVE  Truthful(r, answer[r])'
      <4>1. CASE r = job[w]
        BY <1>2, <3>1, <4>1 DEF Truthful
      <4>2. CASE r # job[w]
        BY <1>0, <1>3, <3>1, <4>2 DEF TruthInv, OutcomesAreTrue, Truthful, CancelledFor
      <4> QED
        BY <4>1, <4>2
    <3>3. ASSUME NEW u \in CompileWorkers, worker'[u] = "delivering"
          PROVE  Truthful(job[u], found[u])'
      <4>1. CASE u # w
        <5>1. worker[u] = "delivering" /\ Holds(u) /\ job[u] # job[w] /\ job[u] \in Requests
          BY <1>2, <3>1, <3>3, <4>1 DEF Holds
        <5> QED
          BY <1>0, <1>3, <3>1, <4>1, <5>1 DEF TruthInv, OutcomesAreTrue, Truthful, CancelledFor
      <4>2. CASE u = w
        <5>1. worker[w] # "delivering"
          BY <2>3 DEF CompileStep, CheckRequest, StartJob, StatSource, Mount, CompileKilled, CompileEnds,
             StageArtifacts, InstallArtifacts, AfterFunc
        <5> QED
          BY <2>3, <3>1, <3>3, <4>2, <5>1, ConcludesTruly DEF Truthful, CancelledFor
      <4> QED
        BY <4>1, <4>2
    <3> QED
      BY <3>2, <3>3 DEF OutcomesAreTrue
  <2> QED
    BY <2>1, <2>2, <2>3
<1> QED
  BY <1>4, <1>5, <1>6 DEF TruthInv

(* So every step keeps the records true.                                   *)
LEMMA NextTruth ==
  ASSUME TypeOK, PlaceInv, CancellationInv, TruthInv, Next
  PROVE  TruthInv'
<1>1. CASE Drain \/ Close \/ CloseDone
  <2>1. /\ UNCHANGED <<caller, recorded, answer, worker, job, found, did>>
        /\ ctxDone \subseteq ctxDone' /\ cutOff \subseteq cutOff'
    BY <1>1, NextCancellation DEF Drain, Close, CloseDone
  <2> QED
    BY <2>1 DEF TruthInv, OutcomesAreTrue, Truthful, CancelledFor, RecordedIsAnswered, RecordMatchesCompiler
<1> QED
  BY <1>1, CallerRecords, WorkerTells, NextSteps

(* The invariant holds at first.                                           *)
LEMMA InitIndInv == Init => IndInv
<1> SUFFICES ASSUME Init PROVE IndInv
  OBVIOUS
<1>1. TypeOK
  BY CapacityType DEF Init, TypeOK
<1>2. OneWorkerEach /\ QueuedOnce /\ AnswersAreAwaited /\ OutcomeFound /\ AnsweredLeavesNothing
  BY DEF Init, OneWorkerEach, QueuedOnce, AnswersAreAwaited, OutcomeFound, AnsweredLeavesNothing, Holds
<1>3. CancellationInv /\ OutcomesAreTrue /\ RecordedIsAnswered /\ RecordMatchesCompiler
  BY DEF Init, CancellationInv, PoolDone, OutcomesAreTrue, Truthful, RecordedIsAnswered, RecordMatchesCompiler
<1> QED
  BY <1>1, <1>2, <1>3 DEF IndInv

(* Every step preserves it.                                                *)
LEMMA NextIndInv == IndInv /\ [Next]_vars => IndInv'
<1> SUFFICES ASSUME IndInv, [Next]_vars PROVE IndInv'
  OBVIOUS
<1>0. /\ TypeOK /\ PlaceInv /\ OneWorkerEach /\ OutcomeFound /\ AnsweredLeavesNothing
      /\ CancellationInv /\ TruthInv
  BY DEF IndInv, PlaceInv, TruthInv
<1>1. CASE Next
  <2>1. TypeOK' /\ PlaceInv'
    <3>1. CASE Drain \/ Close \/ CloseDone
      <4>1. UNCHANGED <<caller, dirs, recorded, jobs, answer, worker, job, found, jobDone, did>>
        BY <3>1 DEF Drain, Close, CloseDone
      <4>2. /\ closer' \in {"open", "waiting", "closed"}
            /\ ctxDone' \subseteq Requests /\ cutOff' \subseteq Requests
        BY <1>0, <3>1 DEF Drain, Close, CloseDone, TypeOK
      <4>3. PlaceInv'
        BY <1>0, <4>1, PlaceFrame DEF Holds
      <4> QED
        BY <1>0, <4>1, <4>2, <4>3 DEF TypeOK
    <3> QED
      BY <1>0, <1>1, <3>1, CallerTypes, CallerPlaces, WorkerTypes, WorkerPlaces, NextSteps
  <2> QED
    BY <1>0, <1>1, <2>1, NextLeavesNothing, NextFindsOutcome,
       NextCancellation, NextTruth DEF IndInv, PlaceInv, TruthInv
<1>2. CASE UNCHANGED vars
  BY <1>2 DEF vars, IndInv, TypeOK, OneWorkerEach, QueuedOnce, AnswersAreAwaited, OutcomeFound,
     AnsweredLeavesNothing, Holds, CancellationInv, CancelledFor, PoolDone, OutcomesAreTrue, Truthful,
     RecordedIsAnswered, RecordMatchesCompiler
<1> QED
  BY <1>1, <1>2

(* IndInv holds in every state.                                            *)
THEOREM Invariance == Spec => []IndInv
  BY InitIndInv, NextIndInv, PTL DEF Spec

(* Type correctness; in particular, the channel never holds more requests  *)
(* than there are compile workers.                                         *)
THEOREM TypeCorrect == Spec => []TypeOK
<1>1. IndInv => TypeOK
  BY DEF IndInv
<1> QED
  BY <1>1, Invariance, PTL

(* No compile worker ever blocks on its answer, for any number of callers  *)
(* that leave: the channel of capacity 1 has room for it.                  *)
THEOREM RoomForDelivery == Spec => []DeliveryHasRoom
<1>1. IndInv => DeliveryHasRoom
  BY DEF IndInv, OneWorkerEach, DeliveryHasRoom, Holds
<1> QED
  BY <1>1, Invariance, PTL

(* A call that got its answer leaves no workspace behind.                  *)
THEOREM NothingLeft == Spec => []AnsweredLeavesNothing
<1>1. IndInv => AnsweredLeavesNothing
  BY DEF IndInv
<1> QED
  BY <1>1, Invariance, PTL

(* What is recorded of a compilation is what the compiler did, for any     *)
(* number of calls and compile workers and however cancellations and Close *)
(* fall between their steps.                                               *)
THEOREM RecordsAreTrue == Spec => []RecordMatchesCompiler
<1>1. IndInv => RecordMatchesCompiler
  BY DEF IndInv
<1> QED
  BY <1>1, Invariance, PTL
-----------------------------------------------------------------------------
(* A request is compiled at most once.                                     *)

(* What a step may do to request r: it stays with the compile worker that  *)
(* has it until it is answered, and does not come back.                    *)
NotAgain(r) ==
  /\ \A w \in CompileWorkers : HasJob(w, r) => HasJob(w, r)' \/ answer'[r] # "none"
  /\ Past(r) => Past(r)'

(* A step after which all requests are where they were, and no caller is   *)
(* before its offer that was not.                                          *)
LEMMA AgainFrame ==
  ASSUME NEW r \in Requests, UNCHANGED <<jobs, job>>,
         \A w \in CompileWorkers : Holds(w)' <=> Holds(w),
         caller'[r] \in {"idle", "offering"} => caller[r] \in {"idle", "offering"}
  PROVE  NotAgain(r)
  BY DEF NotAgain, HasJob, Past

(* A caller's steps: the one that offers its request is not past it.       *)
LEMMA CallerNotAgain ==
  ASSUME IndInv, NEW q \in Requests, LeaveStep(q) \/ Offer(q) \/ AwaitAnswer(q),
         NEW r \in Requests
  PROVE  NotAgain(r)
<1>0. TypeOK
  BY DEF IndInv
<1>1. UNCHANGED <<worker, job>>
  BY DEF LeaveStep, Call, OfferRefused, AwaitRefused, Finish, CancelRequest, Offer, AwaitAnswer
<1>2. caller'[r] \in {"idle", "offering"} => caller[r] \in {"idle", "offering"}
  BY <1>0 DEF LeaveStep, Call, OfferRefused, AwaitRefused, Finish, CancelRequest, Offer, AwaitAnswer,
     Refuse, CallerGoto, TypeOK
<1>3. CASE LeaveStep(q) \/ AwaitAnswer(q)
  <2>1. UNCHANGED jobs
    BY <1>3 DEF LeaveStep, Call, OfferRefused, AwaitRefused, Finish, CancelRequest, AwaitAnswer
  <2> QED
    BY <1>1, <1>2, <2>1, AgainFrame DEF Holds
<1>4. CASE Offer(q)
  <2>1. /\ caller[q] = "offering"
        /\ \A i \in 1 .. Len(jobs') : jobs'[i] = q \/ (i \in 1 .. Len(jobs) /\ jobs'[i] = jobs[i])
    BY <1>0, <1>4 DEF Offer, TypeOK
  <2>2. Past(r) => Past(r)'
    BY <1>1, <1>2, <2>1 DEF Past, HasJob, Holds
  <2> QED
    BY <1>1, <2>2 DEF NotAgain, HasJob, Holds
<1> QED
  BY <1>3, <1>4

(* A compile worker's steps: it takes what is in the channel, and lets go  *)
(* of a request only by answering it.                                      *)
LEMMA WorkerNotAgain ==
  ASSUME IndInv, NEW w \in CompileWorkers,
         CompileStep(w) \/ Take(w) \/ StopWorker(w) \/ Deliver(w),
         NEW r \in Requests
  PROVE  NotAgain(r)
<1>0. TypeOK /\ OneWorkerEach /\ OutcomeFound
  BY DEF IndInv
<1>1. CASE CompileStep(w) \/ StopWorker(w)
  <2>1. UNCHANGED <<jobs, job, caller>>
    BY <1>1 DEF CompileStep, CheckRequest, StartJob, StatSource, Mount, CompileKilled, CompileEnds,
       StageArtifacts, InstallArtifacts, AfterFunc, StopWorker
  <2>2. ASSUME NEW u \in CompileWorkers
        PROVE  Holds(u)' <=> Holds(u)
    BY <1>0, <1>1 DEF CompileStep, CheckRequest, StartJob, StatSource, Mount, CompileKilled,
       CompileEnds, StageArtifacts, InstallArtifacts, AfterFunc, StopWorker, Conclude, WorkerGoto,
       Holds, TypeOK
  <2> QED
    BY <2>1, <2>2, AgainFrame
<1>2. CASE Take(w)
  <2>1. /\ ~Holds(w) /\ jobs # <<>> /\ jobs' = Tail(jobs) /\ UNCHANGED caller
        /\ \A u \in CompileWorkers : /\ job'[u] = IF u = w THEN Head(jobs) ELSE job[u]
                                     /\ Holds(u)' <=> u = w \/ Holds(u)
    BY <1>0, <1>2 DEF Take, WorkerGoto, Holds, TypeOK
  <2>2. /\ Head(jobs) = jobs[1] /\ 1 \in 1 .. Len(jobs)
        /\ \A i \in 1 .. Len(jobs') : jobs'[i] = jobs[i + 1] /\ i + 1 \in 1 .. Len(jobs)
    BY <1>0, <2>1, TakeEffect
  <2>3. \A u \in CompileWorkers : HasJob(u, r) => HasJob(u, r)'
    BY <2>1 DEF HasJob
  <2>4. Past(r) => Past(r)'
    BY <2>1, <2>2 DEF Past, HasJob
  <2> QED
    BY <2>3, <2>4 DEF NotAgain
<1>3. CASE Deliver(w)
  <2>1. /\ worker[w] = "delivering" /\ UNCHANGED <<jobs, caller>>
        /\ \A u \in CompileWorkers : /\ u # w => job'[u] = job[u]
                                     /\ Holds(u)' <=> u # w /\ Holds(u)
        /\ answer' = [answer EXCEPT ![job[w]] = found[w]]
    BY <1>0, <1>3 DEF Deliver, WorkerGoto, Holds, TypeOK
  <2>2. job[w] \in Requests /\ found[w] # "none"
    BY <1>0, <2>1 DEF OneWorkerEach, OutcomeFound, Holds
  <2>3. answer'[job[w]] # "none"
    BY <1>0, <2>1, <2>2 DEF TypeOK
  <2>4. Past(r) => Past(r)'
    BY <2>1 DEF Past, HasJob
  <2> QED
    BY <2>1, <2>3, <2>4 DEF NotAgain, HasJob
<1> QED
  BY <1>1, <1>2, <1>3

(* A request that was taken by a compile worker stays with it until it is  *)
(* answered, and is never queued or compiled again, for any number of      *)
(* callers that leave and whenever Close is called.                        *)
THEOREM NeverCompiledAgain == Spec => CompiledOnce
<1>1. ASSUME IndInv, Next, NEW r \in Requests
      PROVE  NotAgain(r)
  <2>1. CASE Drain \/ Close \/ CloseDone
    BY <2>1, AgainFrame DEF Drain, Close, CloseDone, Holds
  <2> QED
    BY <1>1, <2>1, CallerNotAgain, WorkerNotAgain, NextSteps
<1>2. ASSUME UNCHANGED vars, NEW r \in Requests
      PROVE  NotAgain(r)
  BY <1>2, AgainFrame DEF vars, Holds
<1>3. IndInv /\ [Next]_vars =>
        [\A r \in Requests :
           /\ \A w \in CompileWorkers : HasJob(w, r) => HasJob(w, r)' \/ answer'[r] # "none"
           /\ Past(r) => Past(r)']_vars
  BY <1>1, <1>2 DEF NotAgain
<1> QED
  BY <1>3, Invariance, PTL DEF Spec, CompiledOnce
=============================================================================
