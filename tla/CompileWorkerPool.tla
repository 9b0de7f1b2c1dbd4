-------------------------- MODULE CompileWorkerPool --------------------------
(***************************************************************************)
(* CompileWorkerPool (compile_workers.go): submission workers hand their   *)
(* compilation to dedicated compile workers over a bounded channel and     *)
(* wait for the answer on a channel of their own.  Either side may stop    *)
(* waiting for the other: the context of a submission can be cancelled and *)
(* the pool can be closed at any moment.                                   *)
(*                                                                         *)
(* A request stands for one submission attempt: the workspace it made      *)
(* before the call of Compile, and its removal when ProcessSubmission      *)
(* returns, are part of it, because the compiler reads and writes there.   *)
(***************************************************************************)
EXTENDS Naturals, Sequences, FiniteSets, SequencesExt

CONSTANTS Requests,        \* calls of Compile, one per submission attempt
          CompileWorkers   \* COMPILE_SLOTS of them

ASSUME RequestsAssumption == IsFiniteSet(Requests)
ASSUME WorkersAssumption  == IsFiniteSet(CompileWorkers) /\ CompileWorkers # {}

NoRequest == "none"

VARIABLES
  caller,    \* where the submission worker is in its call
  ctxDone,   \* requests whose context is cancelled
  recorded,  \* what ProcessSubmission made of the compilation
  dirs,      \* requests whose workspace directory exists
  jobs,      \* the channel p.jobs
  answer,    \* the channel request.result, of capacity 1
  worker,    \* where a compile worker is
  job,       \* the request it has in hand
  found,     \* what its compilation came to
  jobDone,   \* compile workers whose job context was cancelled by AfterFunc
  closer,    \* Close; p.ctx is done unless it is "open"
  did,       \* history: what the compiler really did for a request
  cutOff     \* history: requests whose own context was alive at Close

callVars   == <<caller, ctxDone, dirs, recorded>>
workerVars == <<worker, job, found, jobDone>>
closeVars  == <<closer, cutOff>>
vars == <<callVars, jobs, answer, workerVars, closeVars, did>>

Capacity == Cardinality(CompileWorkers)

(* What Compile returns: "built" and "verdict" are exit codes 0 and another *)
(* one, "killed" is exit code -1, "bare" is exit code 0 without artifacts,  *)
(* all of them with a nil error; "error" is an error, a result that timed   *)
(* out or exit code 125.                                                    *)
Outcomes == {"none", "built", "verdict", "killed", "bare", "error"}
Compiling == {"source", "mount", "compiling", "staging", "installing"}

TypeOK ==
  /\ caller \in [Requests -> {"idle", "offering", "waiting", "answered", "refused",
                              "answeredDone", "refusedDone"}]
  /\ ctxDone \subseteq Requests /\ dirs \subseteq Requests
  /\ jobs \in Seq(Requests) /\ Len(jobs) <= Capacity
  /\ answer \in [Requests -> Outcomes]
  /\ recorded \in [Requests -> {"none", "goesOn", "rejected", "failed"}]
  /\ did \in [Requests -> {"none", "rejected", "installed", "overdue"}]
  /\ worker \in [CompileWorkers -> Compiling \cup {"idle", "taken", "accepted", "delivering", "gone"}]
  /\ job \in [CompileWorkers -> Requests \cup {NoRequest}]
  /\ found \in [CompileWorkers -> Outcomes]
  /\ jobDone \subseteq CompileWorkers
  /\ closer \in {"open", "waiting", "closed"} /\ cutOff \subseteq Requests

Init ==
  /\ caller = [r \in Requests |-> "idle"]
  /\ ctxDone = {} /\ dirs = {}
  /\ jobs = <<>>
  /\ answer = [r \in Requests |-> "none"]
  /\ worker = [w \in CompileWorkers |-> "idle"]
  /\ job = [w \in CompileWorkers |-> NoRequest]
  /\ found = [w \in CompileWorkers |-> "none"]
  /\ jobDone = {}
  /\ closer = "open" /\ cutOff = {}
  /\ recorded = [r \in Requests |-> "none"]
  /\ did = [r \in Requests |-> "none"]

PoolDone == closer # "open"

CallerGoto(r, l) == caller' = [caller EXCEPT ![r] = l]
-----------------------------------------------------------------------------
(* ProcessSubmission and Compile, on the submission worker.                *)

(* createWorkspace, and the call.                                          *)
Call(r) ==
  /\ caller[r] = "idle"
  /\ CallerGoto(r, "offering")
  /\ dirs' = dirs \cup {r}
  /\ UNCHANGED <<ctxDone, recorded, jobs, answer, workerVars, closeVars, did>>

(* Mutant: the queue of requests has no bound.                             *)
OfferUnbounded(r) ==
  /\ caller[r] = "offering"
  /\ jobs' = Append(jobs, r)
  /\ CallerGoto(r, "waiting")
  /\ UNCHANGED <<ctxDone, dirs, recorded, answer, workerVars, closeVars, did>>

Offer(r) ==
  /\ caller[r] = "offering"
  /\ Len(jobs) < Capacity
  /\ jobs' = Append(jobs, r)
  /\ CallerGoto(r, "waiting")
  /\ UNCHANGED <<ctxDone, dirs, recorded, answer, workerVars, closeVars, did>>

(* Compile returns an error, which is recorded as a failure.               *)
Refuse(r) ==
  /\ CallerGoto(r, "refused")
  /\ recorded' = [recorded EXCEPT ![r] = "failed"]

OfferRefused(r) ==
  /\ caller[r] = "offering"
  /\ PoolDone \/ r \in ctxDone
  /\ Refuse(r)
  /\ UNCHANGED <<ctxDone, dirs, jobs, answer, workerVars, closeVars, did>>

(* What ProcessSubmission makes of a result with a nil error.              *)
Reading(outcome) ==
  CASE outcome = "error"                 -> "failed"
    [] outcome \in {"verdict", "killed"} -> "rejected"
    [] OTHER                             -> "goesOn"

(* Mutant: ProcessSubmission does not look at its context.                 *)
AwaitAnswerUnchecked(r) ==
  /\ caller[r] = "waiting" /\ answer[r] # "none"
  /\ answer' = [answer EXCEPT ![r] = "none"]
  /\ recorded' = [recorded EXCEPT ![r] = Reading(answer[r])]
  /\ CallerGoto(r, "answered")
  /\ UNCHANGED <<ctxDone, dirs, jobs, workerVars, closeVars, did>>

(* The answer arrives, and the context is looked at before the result.  (A *)
(* cancellation between the two is one that came before the answer.)       *)
AwaitAnswer(r) ==
  /\ caller[r] = "waiting"
  /\ answer[r] # "none"
  /\ answer' = [answer EXCEPT ![r] = "none"]
  /\ recorded' = [recorded EXCEPT ![r] = IF r \in ctxDone THEN "failed" ELSE Reading(answer[r])]
  /\ CallerGoto(r, "answered")
  /\ UNCHANGED <<ctxDone, dirs, jobs, workerVars, closeVars, did>>

(* Mutant: a caller whose request is queued does not look at p.ctx.        *)
AwaitRefusedByOwnContext(r) ==
  /\ caller[r] = "waiting"
  /\ r \in ctxDone
  /\ Refuse(r)
  /\ UNCHANGED <<ctxDone, dirs, jobs, answer, workerVars, closeVars, did>>

AwaitRefused(r) ==
  /\ caller[r] = "waiting"
  /\ PoolDone \/ r \in ctxDone
  /\ Refuse(r)
  /\ UNCHANGED <<ctxDone, dirs, jobs, answer, workerVars, closeVars, did>>

(* ProcessSubmission ends: its deferred function removes the workspace and *)
(* startWorker cancels the context.                                        *)
Finish(r) ==
  /\ caller[r] \in {"answered", "refused"}
  /\ CallerGoto(r, IF caller[r] = "answered" THEN "answeredDone" ELSE "refusedDone")
  /\ dirs' = dirs \ {r}
  /\ ctxDone' = ctxDone \cup {r}
  /\ UNCHANGED <<recorded, jobs, answer, workerVars, closeVars, did>>

(* The lease is lost while the call is under way.                          *)
CancelRequest(r) ==
  /\ caller[r] \in {"offering", "waiting", "answered"}
  /\ r \notin ctxDone
  /\ ctxDone' = ctxDone \cup {r}
  /\ UNCHANGED <<caller, dirs, recorded, jobs, answer, workerVars, closeVars, did>>

(* cancelWorkers: the server drains, and with it every context of a        *)
(* submission is done, those of calls to come included.                    *)
Drain ==
  /\ closer = "open"
  /\ ctxDone # Requests
  /\ ctxDone' = Requests
  /\ UNCHANGED <<caller, dirs, recorded, jobs, answer, workerVars, closeVars, did>>
-----------------------------------------------------------------------------
(* worker and process, on the compile worker.                              *)

WorkerGoto(w, l) == worker' = [worker EXCEPT ![w] = l]

Take(w) ==
  /\ worker[w] = "idle"
  /\ jobs # <<>>
  /\ job' = [job EXCEPT ![w] = Head(jobs)]
  /\ jobs' = Tail(jobs)
  /\ WorkerGoto(w, "taken")
  /\ UNCHANGED <<callVars, answer, found, jobDone, closeVars, did>>

StopWorker(w) ==
  /\ worker[w] = "idle"
  /\ PoolDone
  /\ WorkerGoto(w, "gone")
  /\ UNCHANGED <<callVars, jobs, answer, job, found, jobDone, closeVars, did>>

(* The compilation of w has come to an outcome.                            *)
Conclude(w, outcome) ==
  /\ found' = [found EXCEPT ![w] = outcome]
  /\ WorkerGoto(w, "delivering")

(* Mutant: process answers a cancelled request and then goes on with it.   *)
CheckWithoutReturn(w) ==
  /\ worker[w] = "taken"
  /\ WorkerGoto(w, "accepted")
  /\ answer' = [answer EXCEPT ![job[w]] = IF job[w] \in ctxDone THEN "error" ELSE @]
  /\ UNCHANGED <<callVars, jobs, job, found, jobDone, closeVars, did>>

CheckRequest(w) ==
  /\ worker[w] = "taken"
  /\ IF job[w] \in ctxDone
       THEN Conclude(w, "error")
       ELSE WorkerGoto(w, "accepted") /\ UNCHANGED found
  /\ UNCHANGED <<callVars, jobs, answer, job, jobDone, closeVars, did>>

(* The job context is made from p.ctx, and AfterFunc ties it to the        *)
(* context of the request.                                                 *)
StartJob(w) ==
  /\ worker[w] = "accepted"
  /\ WorkerGoto(w, "source")
  /\ UNCHANGED <<callVars, jobs, answer, job, found, jobDone, closeVars, did>>

(* Mutant: nothing ties the job context to the request.                    *)
NoAfterFunc(w) == FALSE

AfterFunc(w) ==
  /\ worker[w] \in Compiling
  /\ job[w] \in ctxDone
  /\ w \notin jobDone
  /\ jobDone' = jobDone \cup {w}
  /\ UNCHANGED <<callVars, jobs, answer, worker, job, found, closeVars, did>>

JobCancelled(w) == PoolDone \/ w \in jobDone

(* Compile of the executor: the source must be there, and a directory for  *)
(* the artifacts is made.                                                  *)
StatSource(w) ==
  /\ worker[w] = "source"
  /\ \/ job[w] \in dirs /\ WorkerGoto(w, "mount") /\ UNCHANGED found
     \/ Conclude(w, "error")
  /\ UNCHANGED <<callVars, jobs, answer, job, jobDone, closeVars, did>>

(* docker run mounts the workspace and makes the directory if it is gone.  *)
Mount(w) ==
  /\ worker[w] = "mount"
  /\ ~JobCancelled(w)
  /\ dirs' = dirs \cup {job[w]}
  /\ WorkerGoto(w, "compiling")
  /\ UNCHANGED <<caller, ctxDone, recorded, jobs, answer, job, found, jobDone, closeVars, did>>

(* Once its context is cancelled a command is not started, which is an     *)
(* error, or is killed, which is not: Run returns the exit code -1 (or 0,  *)
(* if it just ended) and Compile hands that on without the artifacts.      *)
CompileKilled(w) ==
  /\ JobCancelled(w)
  /\ \/ worker[w] = "mount" /\ \E outcome \in {"error", "killed"} : Conclude(w, outcome)
     \/ worker[w] = "compiling" /\ \E outcome \in {"killed", "bare"} : Conclude(w, outcome)
  /\ UNCHANGED <<callVars, jobs, answer, job, jobDone, closeVars, did>>

Did(w, what) == did' = [did EXCEPT ![job[w]] = what]

(* The container ends by itself: the compiler rejected the program or      *)
(* wrote too much, Docker failed or took 30 s, or the artifacts are to be  *)
(* imported.  If the 30 s end between Run's look at the deadline and that  *)
(* of Compile, they are not, and the result does not say so.               *)
CompileEnds(w) ==
  /\ worker[w] = "compiling"
  /\ ~JobCancelled(w)
  /\ \/ Conclude(w, "verdict") /\ Did(w, "rejected")
     \/ Conclude(w, "bare") /\ Did(w, "overdue")
     \/ Conclude(w, "error") /\ UNCHANGED did
     \/ WorkerGoto(w, "staging") /\ UNCHANGED <<found, did>>
  /\ UNCHANGED <<callVars, jobs, answer, job, jobDone, closeVars>>

(* importCompilerArtifacts: the archive is accepted and unpacked into a    *)
(* staging directory in the workspace.                                     *)
StageArtifacts(w) ==
  /\ worker[w] = "staging"
  /\ \/ job[w] \in dirs /\ WorkerGoto(w, "installing") /\ UNCHANGED found
     \/ Conclude(w, "error")
  /\ UNCHANGED <<callVars, jobs, answer, job, jobDone, closeVars, did>>

(* Every artifact is moved to its place; MkdirAll makes the workspace      *)
(* again if it was removed since the walk began.                           *)
InstallArtifacts(w) ==
  /\ worker[w] = "installing"
  /\ \/ /\ job[w] \in dirs
        /\ Conclude(w, "built") /\ Did(w, "installed")
        /\ UNCHANGED dirs
     \/ /\ job[w] \notin dirs
        /\ Conclude(w, "error") /\ UNCHANGED did
        /\ dirs' \in {dirs, dirs \cup {job[w]}}
  /\ UNCHANGED <<caller, ctxDone, recorded, jobs, answer, job, jobDone, closeVars>>

(* Mutant: the answer channel has no buffer.                               *)
DeliverUnbuffered(w) ==
  /\ worker[w] = "delivering"
  /\ caller[job[w]] = "waiting"
  /\ answer' = [answer EXCEPT ![job[w]] = found[w]]
  /\ WorkerGoto(w, "idle")
  /\ job' = [job EXCEPT ![w] = NoRequest]
  /\ found' = [found EXCEPT ![w] = "none"]
  /\ jobDone' = jobDone \ {w}
  /\ UNCHANGED <<callVars, jobs, closeVars, did>>

Deliver(w) ==
  /\ worker[w] = "delivering"
  /\ answer[job[w]] = "none"
  /\ answer' = [answer EXCEPT ![job[w]] = found[w]]
  /\ WorkerGoto(w, "idle")
  /\ job' = [job EXCEPT ![w] = NoRequest]
  /\ found' = [found EXCEPT ![w] = "none"]
  /\ jobDone' = jobDone \ {w}
  /\ UNCHANGED <<callVars, jobs, closeVars, did>>
-----------------------------------------------------------------------------
Close ==
  /\ closer = "open"
  /\ closer' = "waiting"
  /\ cutOff' = Requests \ ctxDone
  /\ UNCHANGED <<callVars, jobs, answer, workerVars, did>>

CloseDone ==
  /\ closer = "waiting"
  /\ \A w \in CompileWorkers : worker[w] = "gone"
  /\ closer' = "closed"
  /\ UNCHANGED <<callVars, jobs, answer, workerVars, cutOff, did>>

CallStep(r) == Offer(r) \/ OfferRefused(r) \/ AwaitAnswer(r) \/ AwaitRefused(r) \/ Finish(r)

JobStep(w) ==
  \/ Take(w) \/ StopWorker(w) \/ CheckRequest(w) \/ StartJob(w)
  \/ StatSource(w) \/ Mount(w) \/ CompileKilled(w)
  \/ StageArtifacts(w) \/ InstallArtifacts(w) \/ Deliver(w)

Next ==
  \/ \E r \in Requests : Call(r) \/ CallStep(r) \/ CancelRequest(r)
  \/ \E w \in CompileWorkers : JobStep(w) \/ AfterFunc(w) \/ CompileEnds(w)
  \/ Drain \/ Close \/ CloseDone

Spec == Init /\ [][Next]_vars

(* Goroutines run, a killed command ends, and cancellation is delivered.   *)
(* Whether a compiler ends by itself is left open.                         *)
Fairness ==
  /\ \A r \in Requests : WF_vars(CallStep(r))
  /\ \A w \in CompileWorkers : WF_vars(JobStep(w)) /\ WF_vars(AfterFunc(w))
  /\ WF_vars(CloseDone)

FairSpec == Spec /\ Fairness
-----------------------------------------------------------------------------
(* A compile worker never blocks on its answer, though the caller may have *)
(* left long ago: each request is answered at most once.                   *)
DeliveryHasRoom ==
  \A w \in CompileWorkers : worker[w] = "delivering" => answer[job[w]] = "none"

(* A call that got its answer leaves no workspace behind: its compilation  *)
(* was over before the workspace went.  (A call that gave up may: the      *)
(* compiler it left behind can make the directory again.)                  *)
AnsweredLeavesNothing ==
  \A r \in Requests : caller[r] = "answeredDone" => r \notin dirs

(* What is recorded of a compilation is what the compiler did, although a  *)
(* killed compiler looks like one that rejected the program, or like one   *)
(* that built it: a program is rejected only if the compiler rejected it,  *)
(* and run only if its artifacts are in place.  Left out are calls whose   *)
(* context was alive at Close, which main cancels first, and a compiler    *)
(* that ended in the very moment its 30 s did.                             *)
RecordMatchesCompiler ==
  \A r \in Requests \ cutOff :
    /\ recorded[r] = "rejected" => did[r] = "rejected"
    /\ recorded[r] = "goesOn" => did[r] \in {"installed", "overdue"}

(* Every call of Compile returns, whatever is queued when workers stop,    *)
(* provided that CompileTimeout ends every compiler.                       *)
EveryCallReturns ==
  (\A w \in CompileWorkers : WF_vars(CompileEnds(w))) =>
    \A r \in Requests :
      caller[r] \in {"offering", "waiting"} ~> caller[r] \in {"answeredDone", "refusedDone"}

(* A compiler nobody waits for is stopped, even one that would not end by  *)
(* itself: it does not keep its slot from the submissions that follow.     *)
AbandonedCompileStops ==
  \A w \in CompileWorkers, r \in Requests :
    job[w] = r /\ caller[r] = "refused" ~> job[w] # r

(* Close returns, even when a compiler would not end by itself and callers *)
(* are still waiting.                                                      *)
CloseReturns == closer = "waiting" ~> closer = "closed"
-----------------------------------------------------------------------------
(* The inductive invariant (CompileWorkerPoolProofs): a request is in one  *)
(* place at a time - with its caller, in the channel, with one compile     *)
(* worker, or answered - and no caller that has its answer, or has not     *)
(* offered yet, is in the last three.                                      *)
Holds(w) == worker[w] \notin {"idle", "gone"}

OneWorkerEach ==
  \A w \in CompileWorkers :
    Holds(w) => /\ job[w] \in Requests
                /\ answer[job[w]] = "none"
                /\ caller[job[w]] \in {"waiting", "refused", "refusedDone"}
                /\ \A i \in 1 .. Len(jobs) : jobs[i] # job[w]
                /\ \A u \in CompileWorkers : Holds(u) /\ job[u] = job[w] => u = w

QueuedOnce ==
  \A i \in 1 .. Len(jobs) :
    /\ answer[jobs[i]] = "none"
    /\ caller[jobs[i]] \in {"waiting", "refused", "refusedDone"}
    /\ \A j \in 1 .. Len(jobs) : jobs[j] = jobs[i] => j = i

AnswersAreAwaited ==
  \A r \in Requests : answer[r] # "none" => caller[r] \in {"waiting", "refused", "refusedDone"}

(* What is delivered is an outcome, so a request that was delivered has its *)
(* answer.                                                                 *)
OutcomeFound == \A w \in CompileWorkers : worker[w] = "delivering" => found[w] # "none"

(* A job context ends only with the context of its request or the pool's,  *)
(* and at Close all requests have the one or are cut off.                  *)
CancelledFor(r) == r \in ctxDone \cup cutOff

CancellationInv ==
  /\ \A w \in jobDone : Holds(w) /\ job[w] \in ctxDone
  /\ PoolDone => \A r \in Requests : CancelledFor(r)
  /\ ~PoolDone => cutOff = {}

(* An outcome on its way to the caller is what happened to the request.    *)
Truthful(r, outcome) ==
  /\ outcome = "verdict" => did[r] = "rejected"
  /\ outcome = "built" => did[r] = "installed"
  /\ outcome = "bare" => did[r] = "overdue" \/ CancelledFor(r)
  /\ outcome = "killed" => CancelledFor(r)

OutcomesAreTrue ==
  /\ \A w \in CompileWorkers : worker[w] = "delivering" => Truthful(job[w], found[w])
  /\ \A r \in Requests : Truthful(r, answer[r])

(* Nothing but a failure is recorded of a call that has no answer.         *)
RecordedIsAnswered ==
  \A r \in Requests :
    recorded[r] \in {"goesOn", "rejected"} => caller[r] \in {"answered", "answeredDone"}

IndInv ==
  /\ TypeOK
  /\ OneWorkerEach /\ QueuedOnce /\ AnswersAreAwaited /\ OutcomeFound
  /\ AnsweredLeavesNothing
  /\ CancellationInv /\ OutcomesAreTrue /\ RecordedIsAnswered /\ RecordMatchesCompiler
-----------------------------------------------------------------------------
HasJob(w, r) == Holds(w) /\ job[w] = r

(* The request was offered or given up, and is no longer in the pool.      *)
Past(r) ==
  /\ caller[r] \notin {"idle", "offering"}
  /\ \A i \in 1 .. Len(jobs) : jobs[i] # r
  /\ \A w \in CompileWorkers : ~HasJob(w, r)

(* A request is compiled at most once, and by one compile worker: it stays *)
(* with the worker that took it from p.jobs until the answer is in         *)
(* request.result, also when the caller has left or the pool is closing,   *)
(* and a request that left the pool never enters it again.                 *)
CompiledOnce ==
  [][\A r \in Requests :
       /\ \A w \in CompileWorkers : HasJob(w, r) => HasJob(w, r)' \/ answer'[r] # "none"
       /\ Past(r) => Past(r)']_vars
=============================================================================
