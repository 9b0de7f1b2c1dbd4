# YexJudge: a verification project in TLA+

YexJudge accepts programs over HTTP, stores them as submissions in PostgreSQL, and lets
worker goroutines compile them in Docker, run them against test cases in pooled sandbox
containers and record a verdict. This directory models the parts of it that are concurrent,
that fail in parts, or that must survive a crash. TLC checks the models on small instances;
TLAPS proves every safety property the runs check, for every instance.

Paths are relative to the repository. `PROJECT.json` holds the same facts for tools:
components, runs, the source lines behind every definition, hazards, findings, theorems.

## 1. The system

| Part | State | Operations | What makes it correct |
|---|---|---|---|
| Submission queue and store (`internal/judge/postgres_queue.go`, `postgres_store.go`, `db/queries/submissions.sql`) | one row per submission: status, attempt, lease, result, created_at | admit under an advisory lock, claim the oldest queued row, fenced update, renew, recover expired rows | no lost or doubled attempt, no write by a superseded worker, every admitted submission is settled |
| Worker loop and lease recovery (`cmd/server/main.go`) | the claim in hand, its renewer, its cancellable context | dequeue, load, process, renew every third of the lease, recover on a ticker, boot, drain, crash | a worker that lost its lease does no harm |
| Judge service (`internal/judge/service.go`) | the submission in memory, a workspace, a sandbox | validate, mark running, compile, acquire, stage, run, record | each failure ends in one recorded status; workspace and sandbox are given back |
| Sandbox pool (`internal/judge/pool.go`) | channel of free sandboxes, map of all, count of starting ones, closed | Acquire, Release (own goroutine), replace (own goroutine, retries), Close | no sandbox shared, lost or handed on dirty; Close leaves nothing it knows of |
| Compile pool (`internal/judge/compile_workers.go`) | bounded channel of requests, an answer channel per request | Compile, worker, Close | everybody returns, whoever gives up first; what is recorded is what the compiler did |
| Test case run (`internal/judge/testcases.go`, `supervisor_executor.go`) | budget, results, verdict | run the supervisor, interrupt it, decode, judge | the verdict the program earned |
| Supervisor (`cmd/yexsupervisor/main.go`) | baseline of the workspace, processes and files of the program | per case: reset, run, kill, clean, print | cases do not see each other |
| Docker executor, workspace (`executor.go`, `workspace.go`, `internal/runner`) | containers, directories | start, configure, stage, reset, restart, remove; import compiler output | see the pools |
| HTTP API (`cmd/server/http_limits.go`, `submit.go`, `main.go`) | validation slots, the handler's context | validate, admit, answer; `/submit` polls the row until its timeout | what a client was told agrees with the table, now and later; every request ends |
| Migrations (`db/embed.go`) | `schema_migrations`, an advisory lock, one transaction | lock, check, run and record each version, commit | each version applied once, whoever boots or dies |
| Job validation (`internal/judge/validate.go`) | none | a predicate on the job, at the API and again in the worker | what it accepts can be judged |
| Function and class mode (`internal/judge/harness`, `testcases.go`) | none on the server; the driver's objects in the sandbox | generate a driver, build the arguments, call, print what is observed; canonical expected text; compare | the verdict the values deserve, in both languages |
| Configuration, languages, metrics | constants, counters | | not modelled, see section 7 |

How they meet: HTTP handlers insert rows; workers of all servers share the table and nothing
else; a worker calls the compile pool, the sandbox pool and the test case run, each with the
context that the lease renewer cancels; the pools run goroutines of their own that outlive the
call; the supervisor is a second process in the container that goes on when the Docker client
is killed. What is hard: an answer that arrives after its caller gave up; a statement that
PostgreSQL still runs after the client timed out; two servers that recover at once; a crash
between claim and result; closing a pool under its users; a replacement that fails to start;
the budget of the server against the limits of the supervisor; two servers that boot on an
empty database; a shutdown with clients and workers that do not end; three encoders (Go, C++,
Python) whose texts are compared.

## 2. Modules

### SubmissionQueue, SubmissionLifecycle (abstract), SubmissionQueueProofs

`SubmissionQueue` is the table, the statements on it, and the processes. The columns are the
variables `status`, `attempt`, `lease`, `result`, `created`. Time is what is left of a lease
(`Tick` lets it run down), so no absolute clock is needed. One action is one statement, one
step of a transaction, or one step of a goroutine between two statements:

- admission: `AdmitBegin`, `AdmitCount` (advisory lock, count, `ErrQueueFull`), `AdmitCommit`,
  `AdmitAbort`. `created_at` is the start of the transaction, so rows may become visible out
  of order. An answer lost after the commit is the same as the commit for the table.
- worker: `Dequeue`, `DequeueLost` (committed claim whose answer is lost), `Load`,
  `LoadFails` (`Get` reports any error as not found), `RejectJob`, `MarkRunning`,
  `FinishJudging`, `InfrastructureFailure`, `SaveTimesOut`, `StopWorker`. An update is put
  into `inflight` and run later by `ExecUpdate`, perhaps after the worker stopped waiting, or
  never (`DropUpdate`). Whether the lease was live is fixed when the statement starts, because
  `NOW()` is; the rest of the WHERE clause is evaluated when the row lock is free.
- `RenewLease`, `RenewFails`: the first failed renewal cancels the worker's context.
- recovery: `RecoverLock` (`FOR UPDATE SKIP LOCKED`), `RecoverCommit`, `RecoverRollback`;
  at start-up workers start only after it succeeded. One recovery per server at a time, as
  in the code.
- `Boot`, `Drain`, `Exit`, `Crash`.

`SubmissionLifecycle` is what the queue promises for a submission: admitted once, started at
most `MaxAttempts` times, given up by recovery, settled once. `LifecycleSpec` instantiates it
with the row variables.

The queue's `Enqueue` and the unconditional `Save` are not taken with the PostgreSQL store,
whose `SaveAdmitted` inserts the row as queued. A renewal that waits behind a recovery which
then rolls back is not represented: it would be evaluated with its older `NOW()`, which only
makes it apply where the model lets it fail.

### SandboxPool, SandboxLending (abstract), SandboxPoolProofs

Borrowers (queue workers) call `Acquire` and, in their own goroutine, `Release`; each sandbox
being released has the steps of `Release` (`rel`), each replacement the steps of the
goroutine of `replace` (`repl`); `closer` is `Close` and the end of the process. `exists`,
`dirty` and `orphans` say what Docker knows. Commands fail at the cost of a fault: configure,
reset, start (error, or cut off at the deadline with the container made), remove.
`SpawnChecksClosed` and `Spawn` are two steps because `Close` closes the channel without
`p.mu`. The timer of the retry fires in a step of its own, so that both branches of the
`select` are possible.

`SandboxLending` is what the pool promises to a submission: a sandbox is ready, lent to one
worker, or neither; one that a submission used becomes ready again only when nothing of it is
left inside. `LendingSpec` instantiates it with the channel, the sandboxes the workers have from
the receive in `Acquire` to the start of their `Release`, and `dirty`.

### CompileWorkerPool, CompileWorkerPoolProofs

A request is one call of `Compile` with the workspace around it. The caller offers it to the
bounded channel, waits for the answer, and may leave at each point because its context or the
pool ends; the worker takes it, checks the context, installs the `AfterFunc`, compiles
(mount, compile, stage, install), and delivers into a channel of capacity one. The workspace
is removed when the caller returns, which is when an abandoned compiler may still write to it.

What `Compile` returns is one of `Outcomes`. A compiler that is killed gives no error: `Run`
returns exit code -1 (`killed`), or 0 if it had just ended, and `executor.go:234` then skips the
artifacts (`bare`). `recorded` is what `ProcessSubmission` makes of the answer (`Reading`): a
rejected program, a run, or a failure; it looks at its own context first. `did` is a history
variable with what the compiler really did, to compare `recorded` with. Contexts end by a lost
lease (`CancelRequest`) or by `cancelWorkers` (`Drain`). `main` calls that before it closes the
pool, but the module lets `Close` come at any moment; `cutOff` keeps the requests whose context
was alive then. `overdue` is a compiler that ends while its 30 s do, between the two looks at the
deadline in `docker_runner.go` and `executor.go:234`.

### TestcaseRun, TestcaseRunProofs

The server and the supervisor as two processes. The supervisor's steps per case are those of
`runSupervisor`: `ResetBeforeCase`, `RunCase`, `KillRound`/`KillEnds`, `CleanCase`,
`WriteResult`. A program is what it does to the judge (`Behaviours`: CPU and wall time,
memory, exit code, output over the limit, right answer); `CaseResult` is what `runCase` makes
of it. Processes it leaves behind (`alive`) write files at any moment and may survive a round
of kills; one that survives all rounds is a fault, and so is a supervisor killed by the memory
limit. The server waits (`RunInterrupted` when the context or the budget ends,
`SupervisorFailed`, `SupervisorEnded`, `ExecFails`), restarts the sandbox or condemns it, and
judges the cases one at a time, so that a cancellation can fall between two. `behaved`
records what the program really did, to compare the verdict with.

Left out: the path without a supervisor (the Docker executor always has one), the transport
limit (larger than any output the supervisor can print), errors in the expected output of
function jobs (validated before), and the canonical forms compared, which are the flag
`correct`. A scan of `/proc` is one step.

### ServerProcess, ServerProcessProofs

The processes around the table: `server` is the phase of a process from its boot to its end.
Boot follows `main`: sandboxes one by one, `db.Apply` statement by statement (`LockMigrations`,
`CheckMigration`, `RunMigration`, `CommitMigrations`), recovery, listening. Every call can
fail, a wait for the migration lock beyond its 10 s included; a failed `COMMIT` may have taken
effect. `RunMigration` models the primary key of
`schema_migrations`: without the lock a second server would wait for the first one's insert and
then fail. Requests go through `acquireValidationSlot`, `decodeAndValidateJudgeJob`,
`SaveAdmitted` and, for `/submit`, the turns of `waitForSubmission` (`pollSubmission`, `tick`,
`stopWaiting`); `submitTimeout` is the handler's context. Shutdown is `Signal`, `Shutdown`
(handlers gone or `shutdownCtx` over), `Exit` (workers gone or the same context over).

The rows are those of `SubmissionQueue` with the lease left out: recovery may take any running
row at any time, which allows more than the code does, so what holds here holds for any
lease. `LifecycleSpec` is the same abstract specification, so the two modules promise the same
about a row. The validation slots and the cap of the queue may be full because of requests the
model does not follow: both answers are always possible. The `deadline` timer of
`waitForSubmission` starts after the context with the same duration, so its branch is only
taken when the context is over too, and its extra read then fails: the branch is part of
`stopWaiting`.

### JsonValues, HarnessTypes, FunctionMode, MCFunctionMode, FunctionModeProofs

`JsonValues` is the vocabulary: JSON values, texts and values in memory are small records; a
text keeps what the encoders write differently (the notation of a double, whether a class of
characters is escaped); types are trees. Structures are a root and a heap with links, so that
sharing and cycles exist.

`HarnessTypes` is the value level, and the only module with RECURSIVE operators.
`CanonicalJSON` is the judge's canonical text, `GenerateLiteral`/`buildPython` what a driver
builds, `serializeCpp`/`serializePython` what it prints. `SameShape`, `SameValue` and `SameBag`
say when two values are equal without any text; they are the reference.

`FunctionMode` takes these operators as CONSTANTS (`Canonical` for `CanonicalJSON`, `Literal`
for `GenerateLiteral`, and so on), so that proofs about it meet no recursion; `MCFunctionMode`
gives it those of `HarnessTypes`. What `FunctionMode` needs to know of them is
its `EncodersAssumption`, which TLC evaluates with the real operators on both runs.

`FunctionMode` takes a job from the request to its verdict: `ValidateJob` and the four
generators' own checks, the choice of the case by its id, construction of the arguments, a free
choice of what the user's code returns and leaves in its parameters (an argument itself, a
copy, a structure tied into a cycle or shared, any other value), the observations and
postconditions printed, and `functionOutputsEqual` on the canonical text. `StoredBefore` is a
row another release stored, which the worker must validate by itself. A C++ driver is compiled
first: `driverCompiles` says when it does, from the case labels and from the types it prints
(`CppPrints`, in `HarnessTypes` `cppPrintable`); otherwise the submission ends as a compilation
error. The user's own part is taken to compile. `MaxInt` and `MaxLong`
stand for the limits of the integer types, the other bounds for the limits of `validate.go`.

Left out: the parser of type expressions, strings that hold numbers (`json.Number` accepts
them), graph neighbours that are null pointers, the escaping that `json.Marshal` applies once
more to the observed parameters of an unordered comparison, that `Atoi` takes "0" and "00" for one
key of the expected parameters (keys are indexes here), the bound of 200000 slots on a printed
tree (a case has at most 100000 bytes), and the driver's source text.

## 3. Runs

| Run | Instance | Shows |
|---|---|---|
| `queue_fencing` | 1 submission, 2 servers, 2 workers, lease of 2 ticks, 2 attempts, 1 stop | results come from the current attempt; attempts are exclusive; running rows are leased; what recovery read is still true when it writes; settled is final; no takeover before expiry; every admitted submission is settled |
| `queue_batch` | 2 submissions, 1 server, cap 1, 2 attempts, 1 stop | concurrent admissions keep untried rows within the cap; the life cycle is implemented |
| `queue_cap` (violation) | 2 submissions, 2 servers, cap 1 | finding 1 |
| `sandbox_pool` | 1 sandbox, 2 borrowers, 2 faults, 3 containers in all | no sandbox shared, no slot lost (and the count of starting ones exact), none handed on dirty; Close forgets nothing it knows of and removes it; capacity comes back |
| `sandbox_pool_orphan`, `sandbox_pool_exit` (violations) | 1 sandbox, 1 borrower | findings 2 and 3 |
| `compile_pool` | 2 requests, 1 compile worker | every call and Close return; no worker blocks on an answer; an abandoned compiler is stopped; a program is recorded as rejected or run only if the compiler rejected or built it |
| `testcase_run` | 3 cases, limit 1000 ms, CPU time 999 and 1000 ms, wall time 2400 ms or blocked, memory on both sides of nine tenths, 2 faults | all properties of the test case run |
| `testcase_budget` (violation) | 1 case, limit 5000 ms | finding 4 |
| `server_process` | 2 servers, 3 boots, 1 request, 2 versions, 2 sandboxes each, 2 attempts, 2 faults, 1 signal | migrations are serial and applied once; a 200 of `/submit` stays true; an id means a row, a refusal means none; requests and shutdowns end; the life cycle is implemented |
| `function_mode` | 9788 jobs: an echo function of every type, nested optionals included, with good and bad arguments and expectations, observations, postconditions, unordered results, two cases, bad metadata, classes | what is accepted can be judged; the verdict is deserved; a case runs with its own arguments; the Python contract is within the C++ one |
| `function_mode_double` (violation) | echo of five doubles | finding 5 |

Why the bounds suffice for what they are for. Fencing needs two workers on one row and an
attempt after the one that was taken over; two ticks let a renewal come in time or too late. That
a takeover of a takeover changes nothing is part of the proofs, which hold for any number of
attempts. Batches need two rows in one recovery. With one slot and two borrowers, one waits in
`Acquire` while the sandbox of the other is released, reset or replaced; two faults make a
replacement fail after the reset that asked for it. Two servers and three boots let one migrate
while the other does, and a process start again after a crash; two versions leave a transaction
between two migrations; two sandboxes let the second one fail to start; two faults let a crash
follow a lost answer. The structures of `function_mode` have up to four nodes: enough for a
graph whose numbering is not breadth first, a tree with inner nulls and one with an orphan, a
random pointer out of the list. With one compile slot, one request is compiled while the other is
queued, or one is queued while the other waits to queue. Three cases let the supervisor stop
at the first, in the middle and at the end; the wall times come near the budget of that
instance (3 * 2500 ms of 8075 ms). `MaxStops`, `MaxFaults`, `MaxContainers` bound how often
something goes wrong; they are constants and are guards of the actions they bound.
Deadlock is not checked: every system here may come to rest (all submissions settled, the pool
closed, the run returned). Progress is checked by liveness properties instead.

Every property has a mutant: a definition of the model changed the way a mistake in the code
would change it (marked "Mutant:" in the modules), for which TLC finds the property violated.

## 4. Fairness

- Queue: workers, timers and time make progress (goroutines are scheduled), a server that is
  down is started again (`docker-compose.yml:61`, `restart: unless-stopped`), a draining one
  exits (shutdown deadline), and the transaction of a dead server is rolled back by PostgreSQL.
  `RecoverCommit` is strongly fair: recovery is repeated on a ticker and succeeds some time if
  it keeps being tried. Nothing is assumed about any other statement: each may be lost.
- Sandbox pool: goroutines run and Docker commands end (they have deadlines). A start that is
  tried again for ever succeeds some time (strong fairness of `StartSandboxOk`); it is what
  the retry in `replace` relies on.
- Compile pool: goroutines run, a killed command ends, a cancellation is delivered. That
  compilers end by themselves is not assumed. Only `EveryCallReturns` needs it, and states it
  as its premise: `CompileTimeout` bounds every compilation.
- Test case run: server and supervisor are scheduled and time passes. A supervisor that hangs
  is not helped by fairness: its steps are not enabled.
- Server processes: a handler that can go on does, timers fire, and a server that was told to
  stop takes its next step. Nothing is assumed of workers, recovery or boots: requests and
  shutdowns end without them.

## 5. Findings

1. `MAX_QUEUED` "caps durable queued submissions" (`docs/operations.md:102`), but recovery
   requeues without looking at it (`queue_cap`). Admission alone keeps the untried rows within
   the cap (`UntriedWithinCap`).
2. A `docker run` cut off at its deadline can leave a container whose name nobody kept
   (`sandbox_pool_orphan`), against the comment on `Close`.
3. `Close` returns while a `Release` nobody waits for has removed its sandbox from the map and
   not yet its container; the process ends (`sandbox_pool_exit`), against
   `docs/operations.md:104`.
4. The budget of the `docker exec`, `total*(limit+25ms)+5s`, can end before the wall limit of a
   case, `2*limit+500ms`: for one case when the limit is above 4.525 s. A blocked program then
   fails as infrastructure and not with time limit exceeded (`testcase_budget`), against
   `docs/development.md:64`. Where the wall limits of all cases fit into the budget it cannot
   (`FailureHasCause`, checked by `testcase_run` and proved by `FailuresHaveCause`).
5. A function that returns exactly the expected `double` can be judged a wrong answer, because
   texts are compared and the encoders differ (`function_mode_double`): Go writes 100000, C++
   1e+05; Go writes 1, Python 1.0. `docs/usage.md:111` and `:229` list `double` as supported in
   both languages.

Also noticed. A C++ driver that prints an `optional<vector<T>>` of scalars does not compile: the
template for `optional` (`harness/cpp/serializer.go:50`) is declared before those for `vector`,
and argument-dependent lookup does not find those for types of `std`. `docs/architecture.md:98`,
`docs/usage.md:111` and `harness/cpp/types/types_test.go:36` list or accept the type, so a correct
solution ends as a compilation error. `driverCompiles` models it, and `function_mode` has such
jobs.

With no document to hold against them: one failed renewal makes a submission fail for good
although attempts are left, and a renewal is not tried again (no property of the project excludes
it); an abandoned compilation can leave a directory; a compiler that ends in the very moment its
30 s do can be taken for one that built the program, without a binary; a child that cannot be
started is judged a runtime error; a failing `ListenAndServe` leaves the containers
(`ListenFails`); so does a `docker rm` that fails; a 202 of `/submit` may say `queued` after
`running` was seen. In function mode: strings with characters that only some encoders escape (U+2028, and
anything outside ASCII in Python) are compared as different; a null argument is the empty value
in C++ and `None` in Python, and where the order of a result does not count `None` is accepted
as the empty vector; a level order with a node no parent reaches is accepted as an
expected tree no program can print, and raises as a Python argument; a cyclic or shared
structure is printed by C++ and raises in Python; the size limit of a test case holds for C++
functions and stdin only. `VerdictIsDeserved` is stated for the values on which the encoders
agree (`Representable` in the module names them), so each of these is a known exception.

## 6. Proofs

Every invariant the runs check is a theorem for all values of the constants; so are the action
properties and the refinements of the abstract specifications. Each
component has a module of proofs with the same outline: `IndInv` of the component's module is
shown to hold initially and to be kept by every action (one lemma per action or group of
actions, one step per part of the invariant the action can disturb), `Invariance` states
`Spec => []IndInv`, and the named theorems follow from it. TLC checked each `IndInv` on the
instances of the runs before it was proved.

**The queue** (`SubmissionQueueProofs`): any finite set of submissions, any servers and workers,
any lease, number of attempts and stops. `TypeCorrect`, `ResultsAreCurrent`,
`AttemptsAreExclusive`, `QueuedRowsHaveAttempts`, `RunningRowsAreLeased`, `RecoveryIsSound`,
`CapHolds`; the action properties `SettledForGood` and `TakeoverAfterExpiry`; `Refinement`
(`Spec => LifecycleSpec`, step by step in `LifecycleStep`).
`ExclusiveAttempt` needs that a claim never names an attempt the row has not reached, or the
next claim could reuse a number: `ClaimInv`. `ResultFromCurrentAttempt` and `RunningIsLeased`
need that a row under admission does not exist yet and has had no attempt: `AdmissionInv`.
`TerminalIsFinal` and the refinement of recovery need `RecoveryReadsAreCurrent`: the two UPDATEs
of a recovery name only the id, so they are right only because the row locks keep what was read
true until the commit, and that in turn rests on every other writer asking `RowFree`.
`UntriedWithinCap` needs `CapInv`: the advisory lock lets one transaction at a time be between
its count and its commit, and every other step only takes rows out of the untried ones.
`QueuedRowsHaveAttempts` is proved only; the runs check it through `LifecycleSpec`.

**The sandbox pool** (`SandboxPoolProofs`): any capacity, any finite set of workers
(`BorrowersAssumption`: `main` starts a fixed number), any bound on faults and containers.
`NeverShared`, `Conservation`, `CleanChannel`, `NoneForgotten`, `TypeCorrect`, `Refinement`.

- `PlacesInv`: a sandbox is in one place, the channel, a worker, a `Release`, the goroutine that
  started it or the one that replaces it. `NoSharedSandbox` alone is not inductive: a replacement
  that is under way could return a sandbox somebody has.
- `CleanInv`: where files of a submission can be. `Release` skips the reset of a sandbox that was
  restarted, so the flag `restarted` must be false wherever a sandbox may get dirty again.
- `CloseInv`: a `Release` or `replace` removes a sandbox for good only when the pool is closed, and
  once `Close` has waited for the replacements none can be past the check of `closed`.
- `ChargeInv`: each container that should go is in the map, in the list `Close` removes, in a
  `Release` that removes it, or with the goroutine that started it. `NothingForgotten` is what
  remains of this after `Close`.
- `SlotsConserved` is kept by comparing cardinalities before and after a step: a step that counts
  takes one sandbox out of one of the four sets and puts it into another (`SlotsKept`).
- `Refinement` (`Spec => LendingSpec`): a step of `Acquire` lends, the start of a `Release` gives
  back, resets and new containers clean, a send into the channel offers, and every other step
  stutters (`LendingStep`). That an offered sandbox is neither lent nor offered already is
  `PlacesInv`, that it is clean is `CleanInv`. TLC also checked it on the instance of
  `sandbox_pool`.

**The compile pool** (`CompileWorkerPoolProofs`): any finite sets of requests and compile workers.
`RoomForDelivery`, `NothingLeft`, `RecordsAreTrue`, `TypeCorrect`. The argument is that a request is in one place
(`OneWorkerEach`, `QueuedOnce`, `AnswersAreAwaited`): then it is answered at most once, which is
why a channel of capacity one suffices, and a caller with an answer has no compiler left that
could make its directory again (`NothingLeft`, which is proved only: an abandoned call can leave
one). `RecordsAreTrue` follows the outcome from the compiler to the record: a job context ends
only with that of its request or with the pool's (`CancellationInv`), so an outcome on its way is
what the compiler did or belongs to a request that is cancelled (`OutcomesAreTrue`), which the
caller sees before it reads the outcome; a call without an answer records nothing but a failure
(`RecordedIsAnswered`). `NeverCompiledAgain` is the action property `CompiledOnce`: a
request stays with the compile worker that took it until its answer is in the channel, and a
request that has left the pool never enters it again. It needs `OutcomeFound`: what a worker
delivers is an outcome, never nothing. The property is proved only; TLC checked it for three
requests and two compile workers.

**The test case run** (`TestcaseRunProofs`): any number of cases, limits and sample values within
what `validate.go` accepts. `CleanStart`, `QuietRelease`, `EarnedVerdict`, `FailuresHaveCause`,
`TypeCorrect`. `SamplesAssumption` says that a program which ends by itself does so before the
wall limit; one that does not is the sample that takes the whole limit and is killed.

- `ResultsInv`: the supervisor's output is, case by case, what `runCase` makes of what the
  program did, and it goes on only after results that do not stop it. This is the agreement of
  the two binaries: what an exited supervisor leaves can be decoded (`Decodes`).
- `QuietInv`: at which steps processes and files may be left. `JudgeInv`: the cases the verdict
  loop has passed were all accepted, so its first failure is the first failure of the program.
- `CauseInv`: without a fault the clock is at most the wall limit (with its overhead) per case
  started. `FailuresHaveCause` is `Spec => [](BudgetSuffices => FailureHasCause)`: it needs that
  the wall limits of all cases fit into the budget. The code does not ensure it (finding 4);
  `testcase_run` is an instance that satisfies it, `testcase_budget` one that does not.

**The server processes** (`ServerProcessProofs`): any servers and requests, any number of versions,
sandboxes, attempts, boots, signals and faults. `SerialMigrations`, `FinalAnswers`,
`StoredAcknowledgements`, `Refinement`, `TypeCorrect`. `NobodyAssumption` only says that the
value for "no server, no request" is not one of them.

- `MigrationInv`: the advisory lock belongs to exactly the server that is in `db.Apply`, and every
  version its transaction has passed is recorded or was run by it, and not both. So a commit
  records each version once, also a commit whose answer is lost.
- `RowInv`, `HandlerInv`: a handler has its row from the admission on and not before, and a 200 is
  given for a terminal row only; that such a row stays as it is follows from the fencing of the
  updates.
- `Refinement` does not use the lease, which this module leaves out: recovery may take any running
  row. The life cycle is therefore kept by the fencing alone.

**Function mode** (`FunctionModeProofs`): any set of jobs, with any number of cases, parameters,
observations, postconditions and class operations, and any value operators. `ValidJobsAreJudged`,
`OwnArguments`, `DeservedVerdicts`, `SharedContract`. The assumptions are `JobsAssumption` (a job
is what `json.Unmarshal` fills: slices are sequences, objects have finitely many keys),
`AnswersAssumption` (a program's text is not an error) and `EncodersAssumption`: of a single
value on which the encoders agree, a driver prints the judge's text of an expected value exactly
when it is that value, and two structures with the same root have the same objects. The code's
encoders are recursive, so that they keep this promise is an induction over data and stays with
TLC; what is proved is that everything built on them does.

- The invariant says that only a job the worker itself found valid is run, one case after the
  other (`RunningInv`, `RanInv`): `ProcessSubmission` validates again, so this holds for rows that
  another release stored too.
- `AcceptedIsJudged`: the checks of each generator follow from those of `ValidateJob`, and the
  expected text of a case that was validated is never an error. This is one lemma per check, in
  each language and mode.
- `CaseRunsItsOwnArguments`: ids are distinct in an accepted job, so the first branch of the
  driver that matches the id is the case itself.
- `VerdictIsDeserved`: the printed text and the expected text are compared field by field. Both
  name the same fields in the same order because the expected object was checked to have exactly
  the observed parameters; then each field is equal exactly when its value is correct.
- `ContractIsShared`: each of the Python checks is at least as strict as the C++ one.

A bug in an encoder therefore shows as a false `EncodersAssumption`, one in the driver, the
observations or the comparison as a false `VerdictIsDeserved`.

`NumberTheorems` holds the facts about least and greatest members of finite sets of numbers that
the community modules define by CHOOSE and prove nothing about; they are derived from the
well-foundedness of the natural numbers.

Only model-checked, and why:

- liveness (`EverySubmissionSettles`, `CloseRemovesAll`, `CapacityComesBack`, `EveryCallReturns`,
  `AbandonedCompileStops`, `CloseReturns`, `RunReturns`, `RequestsEnd`, `ShutdownEnds`): fairness
  is about ENABLED, which the prover does not handle;
- what the recursive encoders and builders of `HarnessTypes` compute: `EncodersAssumption` is
  evaluated for the jobs of the two function mode runs, since for every value it would be an
  induction over data, and the prover cannot use RECURSIVE operators.

## 7. Not modelled, and the plan

Not worth modelling: languages, metrics, configuration (tables, counters, parsing); the system
call filter and resource limits of the supervisor's child (kernel interfaces); the GET handlers,
headers and request ids of the API (they only read or are I/O); the parser of type expressions
and the source text of the drivers; the transfer of archives into a container. The checks on
archive entries are about path strings and file modes. `ProcessSubmission` is not composed from
its stages in one module: the stages meet only through the context they share and the one
status each failure records, and both are in the modules of the stages.

What could still be added: the parser of type expressions against the grammar it implements, and
the checks on archive entries, both as operators over abstract path and token classes; more
value types in the jobs of `function_mode`, which widen what `EncodersAssumption` is evaluated on.
