--------------------------- MODULE ServerProcess ---------------------------
(* The server processes around the durable queue: their boot (sandboxes,   *)
(* migrations, recovery, listening), the requests of the HTTP API, one     *)
(* queue worker each, and their drain after a signal.  Several servers     *)
(* share one database.  The rows are those of SubmissionQueue with the     *)
(* leases left out: a lease may run out at any time.                       *)
EXTENDS Naturals, FiniteSets

CONSTANTS
  Servers,          \* server processes
  Requests,         \* POST requests; each makes at most one submission
  Versions,         \* number of files under db/migrations
  PoolSize,         \* SANDBOX_POOL_SIZE
  MaxAttempts,      \* QUEUE_MAX_ATTEMPTS
  MaxFaults,        \* bound: failed calls and crashes
  MaxSignals,       \* bound: SIGTERMs
  MaxBoots          \* bound: process starts

Nobody == "nobody"

ASSUME NobodyAssumption == Nobody \notin Servers \cup Requests

ASSUME SizesAssumption ==
  /\ Versions \in Nat /\ PoolSize \in Nat \ {0} /\ MaxAttempts \in Nat \ {0}
  /\ MaxFaults \in Nat /\ MaxSignals \in Nat /\ MaxBoots \in Nat

VARIABLES
  recorded,   \* versions in schema_migrations
  runs,       \* how often each migration's statements took effect
  lock,       \* who holds the advisory lock migrationLockKey
  txn,        \* the migration transaction of a server
  row,        \* the submission a request made: status, attempt, result
  server,     \* what a process is doing
  ended,      \* how its last process ended
  late,       \* shutdownCtx is past its ten seconds
  sandboxes,  \* containers of the process's pool
  worker,     \* the claim of its worker
  req,        \* where a request's handler is, and on which server
  answer,     \* the response
  faults, signals, boots

schemaVars  == <<recorded, runs, lock, txn>>
processVars == <<server, ended, late, sandboxes>>
httpVars    == <<req, answer>>
boundVars   == <<faults, signals, boots>>
vars == <<schemaVars, row, processVars, worker, httpVars, boundVars>>

Idle     == [of |-> Nobody, attempt |-> 0]
NoTxn    == [pc |-> "none", next |-> 1, ran |-> {}]
NewTxn   == [pc |-> "check", next |-> 1, ran |-> {}]
Req(pc, v) == [pc |-> pc, at |-> v, seen |-> "queued", expired |-> FALSE]
NoAnswer == [code |-> "none", status |-> "absent", result |-> 0]
Terminal == {"finished", "failed"}

Phases == {"down", "building", "connecting", "migrating", "recovering", "listening",
           "serving", "draining", "closing"}

ActivePcs   == {"validating", "saving", "polling", "waiting"}
ActiveAt(v) == {r \in Requests : req[r].at = v /\ req[r].pc \in ActivePcs}

Init ==
  /\ recorded = {} /\ runs = [m \in 1 .. Versions |-> 0]
  /\ lock = Nobody /\ txn = [v \in Servers |-> NoTxn]
  /\ row = [r \in Requests |-> [status |-> "absent", attempt |-> 0, result |-> 0]]
  /\ server = [v \in Servers |-> "down"] /\ ended = [v \in Servers |-> "none"]
  /\ late = [v \in Servers |-> FALSE] /\ sandboxes = [v \in Servers |-> 0]
  /\ worker = [v \in Servers |-> Idle]
  /\ req = [r \in Requests |-> Req("none", Nobody)] /\ answer = [r \in Requests |-> NoAnswer]
  /\ faults = 0 /\ signals = 0 /\ boots = 0

Fault == faults < MaxFaults /\ faults' = faults + 1 /\ UNCHANGED <<signals, boots>>

(* log.Fatal after the pool was closed; the database ends the session. *)
Fatal(v, why) ==
  /\ server'    = [server EXCEPT ![v] = "down"]
  /\ ended'     = [ended EXCEPT ![v] = why]
  /\ sandboxes' = [sandboxes EXCEPT ![v] = 0]
  /\ txn'       = [txn EXCEPT ![v] = NoTxn]
  /\ lock'      = IF lock = v THEN Nobody ELSE lock
  /\ UNCHANGED late

----------------------------------------------------------------------------
(* Boot.                                                                   *)

Boot(v) ==
  /\ server[v] = "down"
  /\ boots < MaxBoots /\ boots' = boots + 1 /\ UNCHANGED <<faults, signals>>
  /\ server'    = [server EXCEPT ![v] = "building"]
  /\ sandboxes' = [sandboxes EXCEPT ![v] = 0]
  /\ UNCHANGED <<ended, late, schemaVars, row, worker, httpVars>>

(* Mutant: one sandbox too many. *)
buildSandboxPoolExtra(v) ==
  /\ server[v] = "building"
  /\ sandboxes' = [sandboxes EXCEPT ![v] = @ + 1]
  /\ server'    = [server EXCEPT ![v] = IF sandboxes[v] = PoolSize THEN "connecting" ELSE @]
  /\ UNCHANGED <<ended, late, schemaVars, row, worker, httpVars, boundVars>>

(* buildSandboxPool starts them one by one. *)
buildSandboxPool(v) ==
  /\ server[v] = "building"
  /\ sandboxes' = [sandboxes EXCEPT ![v] = @ + 1]
  /\ server'    = [server EXCEPT ![v] = IF sandboxes'[v] = PoolSize THEN "connecting" ELSE @]
  /\ UNCHANGED <<ended, late, schemaVars, row, worker, httpVars, boundVars>>

(* One does not start: the started ones are removed. *)
StartSandboxFails(v) ==
  /\ server[v] = "building"
  /\ Fault /\ Fatal(v, "fatal")
  /\ UNCHANGED <<recorded, runs, row, worker, httpVars>>

(* Mutant: the lock is not taken. *)
LockMigrationsNot(v) ==
  /\ server[v] = "connecting"
  /\ lock'   = v
  /\ txn'    = [txn EXCEPT ![v] = NewTxn]
  /\ server' = [server EXCEPT ![v] = "migrating"]
  /\ UNCHANGED <<recorded, runs, ended, late, sandboxes, row, worker, httpVars, boundVars>>

(* Begin, then pg_advisory_xact_lock, which waits. *)
LockMigrations(v) ==
  /\ server[v] = "connecting" /\ lock = Nobody
  /\ lock'   = v
  /\ txn'    = [txn EXCEPT ![v] = NewTxn]
  /\ server' = [server EXCEPT ![v] = "migrating"]
  /\ UNCHANGED <<recorded, runs, ended, late, sandboxes, row, worker, httpVars, boundVars>>

(* SELECT EXISTS for the next version. *)
CheckMigration(v) ==
  /\ txn[v].pc = "check" /\ txn[v].next <= Versions
  /\ txn' = IF txn[v].next \in recorded THEN [txn EXCEPT ![v].next = @ + 1]
                                        ELSE [txn EXCEPT ![v].pc = "run"]
  /\ UNCHANGED <<recorded, runs, lock, processVars, row, worker, httpVars, boundVars>>

(* The migration and the INSERT of its version, in the transaction.  The   *)
(* primary key of schema_migrations makes it wait for another transaction  *)
(* that inserted the version, and fail when that one has committed.        *)
RunMigration(v) ==
  LET m == txn[v].next
  IN  /\ txn[v].pc = "run"
      /\ \A u \in Servers \ {v} : m \notin txn[u].ran
      /\ IF m \in recorded THEN Fatal(v, "conflict") /\ UNCHANGED <<recorded, runs>>
         ELSE /\ txn' = [txn EXCEPT ![v].pc = "check", ![v].next = m + 1, ![v].ran = @ \cup {m}]
              /\ UNCHANGED <<recorded, runs, lock, processVars>>
      /\ UNCHANGED <<row, worker, httpVars, boundVars>>

Committed(v) ==
  /\ recorded' = recorded \cup txn[v].ran
  /\ runs'     = [m \in 1 .. Versions |-> IF m \in txn[v].ran THEN runs[m] + 1 ELSE runs[m]]

CommitMigrations(v) ==
  /\ txn[v].pc = "check" /\ txn[v].next > Versions
  /\ Committed(v)
  /\ txn'    = [txn EXCEPT ![v] = NoTxn]
  /\ lock'   = IF lock = v THEN Nobody ELSE lock
  /\ server' = [server EXCEPT ![v] = "recovering"]
  /\ UNCHANGED <<ended, late, sandboxes, row, worker, httpVars, boundVars>>

(* A failed or timed out call of buildPersistence, a wait for the lock of  *)
(* another server beyond the 10 s of the migration context included: the   *)
(* transaction rolls back, unless it was the answer to the COMMIT that got *)
(* lost.                                                                   *)
buildPersistenceFails(v) ==
  /\ server[v] \in {"connecting", "migrating"}
  /\ \/ UNCHANGED <<recorded, runs>>
     \/ txn[v].pc = "check" /\ txn[v].next > Versions /\ Committed(v)
  /\ Fault /\ Fatal(v, "fatal")
  /\ UNCHANGED <<row, worker, httpVars>>

----------------------------------------------------------------------------
(* Rows: recovery of expired attempts, and the queue worker.               *)

GiveUp(S) ==
  row' = [r \in Requests |->
            IF r \notin S THEN row[r]
            ELSE LET retry == row[r].attempt < MaxAttempts
                 IN  [status  |-> IF retry THEN "queued" ELSE "failed",
                      attempt |-> row[r].attempt,
                      result  |-> IF retry THEN row[r].result ELSE row[r].attempt]]

Running == {r \in Requests : row[r].status = "running"}

(* RecoverExpired at startup, for the rows whose lease has run out; then   *)
(* the workers start.                                                      *)
RecoverAtStartup(v) ==
  /\ server[v] = "recovering"
  /\ \E S \in SUBSET Running : GiveUp(S)
  /\ server' = [server EXCEPT ![v] = "listening"]
  /\ UNCHANGED <<ended, late, sandboxes, schemaVars, worker, httpVars, boundVars>>

RecoverAtStartupFails(v) ==
  /\ server[v] = "recovering"
  /\ Fault /\ Fatal(v, "fatal")
  /\ UNCHANGED <<recorded, runs, row, worker, httpVars>>

Listen(v) ==
  /\ server[v] = "listening"
  /\ server' = [server EXCEPT ![v] = "serving"]
  /\ UNCHANGED <<ended, late, sandboxes, schemaVars, row, worker, httpVars, boundVars>>

(* ListenAndServe fails: log.Fatal with the pool open, defers not run. *)
ListenFails(v) ==
  /\ server[v] = "listening" /\ Fault
  /\ server' = [server EXCEPT ![v] = "down"]
  /\ ended'  = [ended EXCEPT ![v] = "listen"]
  /\ worker' = [worker EXCEPT ![v] = Idle]
  /\ UNCHANGED <<late, sandboxes, schemaVars, row, httpVars>>

WorkersRun(v) == server[v] \in {"listening", "serving", "draining"}

RecoverExpired(v) ==
  /\ WorkersRun(v)
  /\ \E S \in SUBSET Running \ {{}} : GiveUp(S)
  /\ UNCHANGED <<schemaVars, processVars, worker, httpVars, boundVars>>

Dequeue(v, r) ==
  /\ WorkersRun(v) /\ worker[v] = Idle /\ row[r].status = "queued"
  /\ row'    = [row EXCEPT ![r].status = "running", ![r].attempt = @ + 1]
  /\ worker' = [worker EXCEPT ![v] = [of |-> r, attempt |-> row[r].attempt + 1]]
  /\ UNCHANGED <<schemaVars, processVars, httpVars, boundVars>>

(* Mutant: UpdateSubmission does not look at the attempt. *)
ProcessSubmissionUnfenced(v, outcome) ==
  LET r == worker[v].of
  IN  /\ server[v] # "down" /\ r # Nobody
      /\ row'    = [row EXCEPT ![r].status = outcome, ![r].result = worker[v].attempt]
      /\ worker' = [worker EXCEPT ![v] = Idle]
      /\ UNCHANGED <<schemaVars, processVars, httpVars, boundVars>>

(* The worker's last UpdateSubmission, also after cancelWorkers: it takes  *)
(* effect only for the attempt the row is running.                         *)
ProcessSubmission(v, outcome) ==
  LET r == worker[v].of
  IN  /\ server[v] # "down" /\ r # Nobody
      /\ row' = IF row[r].status = "running" /\ row[r].attempt = worker[v].attempt
                THEN [row EXCEPT ![r].status = outcome, ![r].result = worker[v].attempt]
                ELSE row
      /\ worker' = [worker EXCEPT ![v] = Idle]
      /\ UNCHANGED <<schemaVars, processVars, httpVars, boundVars>>

(* Its lease ran out, or the store failed: nothing was written. *)
UpdateIsRefused(v) ==
  /\ server[v] # "down" /\ worker[v] # Idle
  /\ worker' = [worker EXCEPT ![v] = Idle]
  /\ UNCHANGED <<schemaVars, row, processVars, httpVars, boundVars>>

----------------------------------------------------------------------------
(* Requests.  A POST to /submissions or /judge answers once the row is     *)
(* stored; one to /submit polls the row until submitTimeout.               *)

Respond(r, code, status, result) ==
  /\ req'    = [req EXCEPT ![r] = Req("answered", Nobody)]
  /\ answer' = [answer EXCEPT ![r] = [code |-> code, status |-> status, result |-> result]]

(* The slots, and below the queue, may be full of requests that are not    *)
(* followed here.                                                          *)
acquireValidationSlot(r, v) ==
  /\ server[v] = "serving" /\ req[r].pc = "none"
  /\ \/ /\ req' = [req EXCEPT ![r] = Req("validating", v)]
        /\ UNCHANGED answer
     \/ Respond(r, "busy", "absent", 0)
  /\ UNCHANGED <<schemaVars, row, processVars, worker, boundVars>>

(* Decoding and ValidateJob; the slot is given back either way. *)
decodeAndValidateJudgeJob(r) ==
  /\ req[r].pc = "validating"
  /\ \/ req' = [req EXCEPT ![r].pc = "saving"] /\ UNCHANGED answer
     \/ Respond(r, "invalid", "absent", 0)
  /\ UNCHANGED <<schemaVars, row, processVars, worker, boundVars>>

(* Mutant: the row is stored although the queue is full. *)
SaveAdmittedFirst(r) ==
  /\ req[r].pc = "saving" /\ ~req[r].expired
  /\ row' = [row EXCEPT ![r].status = "queued"]
  /\ \/ Respond(r, "queue_full", "absent", 0)
     \/ req' = [req EXCEPT ![r].pc = "polling"] /\ UNCHANGED answer
     \/ Respond(r, "accepted", "queued", 0)
  /\ UNCHANGED <<schemaVars, processVars, worker, boundVars>>

(* The admission transaction, at its commit: /submit goes on to poll. *)
SaveAdmitted(r) ==
  /\ req[r].pc = "saving" /\ ~req[r].expired
  /\ \/ Respond(r, "queue_full", "absent", 0) /\ UNCHANGED row
     \/ /\ row' = [row EXCEPT ![r].status = "queued"]
        /\ \/ req' = [req EXCEPT ![r].pc = "polling"] /\ UNCHANGED answer
           \/ Respond(r, "accepted", "queued", 0)
  /\ UNCHANGED <<schemaVars, processVars, worker, boundVars>>

(* It fails, or its context ends: the row may be there all the same. *)
SaveAdmittedFails(r) ==
  /\ req[r].pc = "saving"
  /\ IF req[r].expired THEN UNCHANGED boundVars ELSE Fault
  /\ \/ UNCHANGED row
     \/ row' = [row EXCEPT ![r].status = "queued"]
  /\ Respond(r, "internal_error", "absent", 0)
  /\ UNCHANGED <<schemaVars, processVars, worker>>

(* Mutant: whatever is no longer queued is done. *)
pollSubmissionEarly(r) ==
  /\ req[r].pc = "polling" /\ ~req[r].expired
  /\ IF row[r].status # "queued" THEN Respond(r, "ok", row[r].status, row[r].result)
     ELSE /\ req' = [req EXCEPT ![r].pc = "waiting", ![r].seen = row[r].status]
          /\ UNCHANGED answer
  /\ UNCHANGED <<schemaVars, row, processVars, worker, boundVars>>

(* One turn of waitForSubmission. *)
pollSubmission(r) ==
  /\ req[r].pc = "polling" /\ ~req[r].expired
  /\ IF row[r].status \in Terminal THEN Respond(r, "ok", row[r].status, row[r].result)
     ELSE /\ req' = [req EXCEPT ![r].pc = "waiting", ![r].seen = row[r].status]
          /\ UNCHANGED answer
  /\ UNCHANGED <<schemaVars, row, processVars, worker, boundVars>>

(* The context is over at the head of the loop, or the read fails: the     *)
(* answer falls back to the submission as it was created.                  *)
pollSubmissionFails(r) ==
  /\ req[r].pc = "polling"
  /\ IF req[r].expired THEN UNCHANGED boundVars ELSE Fault
  /\ Respond(r, "accepted", "queued", 0)
  /\ UNCHANGED <<schemaVars, row, processVars, worker>>

tick(r) ==
  /\ req[r].pc = "waiting"
  /\ req' = [req EXCEPT ![r].pc = "polling"]
  /\ UNCHANGED <<schemaVars, row, processVars, worker, answer, boundVars>>

(* Mutant: the context only limits the admission. *)
submitTimeoutSaving(r) ==
  /\ req[r].pc = "saving" /\ ~req[r].expired
  /\ req' = [req EXCEPT ![r].expired = TRUE]
  /\ UNCHANGED <<schemaVars, row, processVars, worker, answer, boundVars>>

(* The context of createAndQueueSubmission and waitForSubmission ends. *)
submitTimeout(r) ==
  /\ req[r].pc \in {"saving", "polling", "waiting"} /\ ~req[r].expired
  /\ req' = [req EXCEPT ![r].expired = TRUE]
  /\ UNCHANGED <<schemaVars, row, processVars, worker, answer, boundVars>>

(* ctx.Done in the select; the deadline timer was set later than ctx's and *)
(* its extra read, made with ctx, fails.                                   *)
stopWaiting(r) ==
  /\ req[r].pc = "waiting" /\ req[r].expired
  /\ Respond(r, "accepted", req[r].seen, 0)
  /\ UNCHANGED <<schemaVars, row, processVars, worker, boundVars>>

----------------------------------------------------------------------------
(* Shutdown and crash.                                                     *)

Signal(v) ==
  /\ server[v] \in {"listening", "serving"}
  /\ signals < MaxSignals /\ signals' = signals + 1 /\ UNCHANGED <<faults, boots>>
  /\ server' = [server EXCEPT ![v] = "draining"]
  /\ UNCHANGED <<ended, late, sandboxes, schemaVars, row, worker, httpVars>>

(* shutdownCtx covers both waits. *)
shutdownDeadline(v) ==
  /\ server[v] \in {"draining", "closing"} /\ ~late[v]
  /\ late' = [late EXCEPT ![v] = TRUE]
  /\ UNCHANGED <<server, ended, sandboxes, schemaVars, row, worker, httpVars, boundVars>>

(* Mutant: shutdown waits for the handlers and the workers without a deadline. *)
ShutdownNoDeadline(v) ==
  /\ server[v] = "draining" /\ ActiveAt(v) = {} /\ worker[v] = Idle
  /\ server' = [server EXCEPT ![v] = "closing"]
  /\ UNCHANGED <<ended, late, sandboxes, schemaVars, row, worker, httpVars, boundVars>>

(* server.Shutdown returns; cancelWorkers and submissionQueue.Close. *)
Shutdown(v) ==
  /\ server[v] = "draining"
  /\ ActiveAt(v) = {} \/ late[v]
  /\ server' = [server EXCEPT ![v] = "closing"]
  /\ UNCHANGED <<ended, late, sandboxes, schemaVars, row, worker, httpVars, boundVars>>

Cut(v, how) == req' = [r \in Requests |-> IF r \in ActiveAt(v) THEN Req(how, Nobody) ELSE req[r]]

(* The workers are done or the deadline is over; judgeService.Close,       *)
(* runtimePool.Close, and main returns.                                    *)
Exit(v) ==
  /\ server[v] = "closing"
  /\ worker[v] = Idle \/ late[v]
  /\ server'    = [server EXCEPT ![v] = "down"]
  /\ ended'     = [ended EXCEPT ![v] = "exit"]
  /\ sandboxes' = [sandboxes EXCEPT ![v] = 0]
  /\ worker'    = [worker EXCEPT ![v] = Idle]
  /\ late'      = [late EXCEPT ![v] = FALSE]
  /\ Cut(v, "cut")
  /\ UNCHANGED <<schemaVars, row, answer, boundVars>>

(* The process is killed; PostgreSQL rolls its transaction back. *)
Crash(v) ==
  /\ server[v] # "down" /\ Fault
  /\ server' = [server EXCEPT ![v] = "down"]
  /\ ended'  = [ended EXCEPT ![v] = "crash"]
  /\ worker' = [worker EXCEPT ![v] = Idle]
  /\ txn'    = [txn EXCEPT ![v] = NoTxn]
  /\ lock'   = IF lock = v THEN Nobody ELSE lock
  /\ late'   = [late EXCEPT ![v] = FALSE]
  /\ Cut(v, "crashed")
  /\ UNCHANGED <<recorded, runs, sandboxes, row, answer>>

Next ==
  \/ \E v \in Servers :
       \/ Boot(v) \/ buildSandboxPool(v) \/ StartSandboxFails(v)
       \/ LockMigrations(v) \/ CheckMigration(v) \/ RunMigration(v) \/ CommitMigrations(v)
       \/ buildPersistenceFails(v) \/ RecoverAtStartup(v) \/ RecoverAtStartupFails(v)
       \/ Listen(v) \/ ListenFails(v) \/ RecoverExpired(v) \/ UpdateIsRefused(v)
       \/ Signal(v) \/ shutdownDeadline(v) \/ Shutdown(v) \/ Exit(v) \/ Crash(v)
       \/ \E r \in Requests : Dequeue(v, r) \/ acquireValidationSlot(r, v)
       \/ \E outcome \in Terminal : ProcessSubmission(v, outcome)
  \/ \E r \in Requests :
       \/ decodeAndValidateJudgeJob(r) \/ SaveAdmitted(r) \/ SaveAdmittedFails(r)
       \/ pollSubmission(r) \/ pollSubmissionFails(r) \/ tick(r)
       \/ submitTimeout(r) \/ stopWaiting(r)

(* Handlers run on, timers fire, and a server that is shutting down takes  *)
(* its next step.  Nothing is assumed of the workers or of recovery.       *)
Fairness ==
  /\ \A r \in Requests : /\ WF_vars(decodeAndValidateJudgeJob(r))
                         /\ WF_vars(SaveAdmitted(r)) /\ WF_vars(req[r].expired /\ SaveAdmittedFails(r))
                         /\ WF_vars(submitTimeout(r))
                         /\ WF_vars(req[r].expired /\ pollSubmissionFails(r))
                         /\ WF_vars(stopWaiting(r))
  /\ \A v \in Servers : WF_vars(shutdownDeadline(v)) /\ WF_vars(Shutdown(v)) /\ WF_vars(Exit(v))

Spec     == Init /\ [][Next]_vars
FairSpec == Spec /\ Fairness

----------------------------------------------------------------------------
(* Properties.                                                             *)

TypeOK ==
  /\ recorded \subseteq 1 .. Versions /\ runs \in [1 .. Versions -> Nat]
  /\ lock \in Servers \cup {Nobody}
  /\ \A v \in Servers : /\ txn[v].pc \in {"none", "check", "run"}
                        /\ txn[v].next \in 1 .. Versions + 1 /\ txn[v].ran \subseteq 1 .. Versions
                        /\ worker[v].of \in Requests \cup {Nobody} /\ worker[v].attempt \in 0 .. MaxAttempts
  /\ row \in [Requests -> [status : {"absent", "queued", "running", "finished", "failed"},
                           attempt : 0 .. MaxAttempts, result : 0 .. MaxAttempts]]
  /\ server \in [Servers -> Phases]
  /\ ended \in [Servers -> {"none", "fatal", "conflict", "listen", "exit", "crash"}]
  /\ late \in [Servers -> BOOLEAN] /\ sandboxes \in [Servers -> 0 .. PoolSize]
  /\ req \in [Requests -> [pc : ActivePcs \cup {"none", "answered", "cut", "crashed"},
                           at : Servers \cup {Nobody},
                           seen : {"absent", "queued", "running"}, expired : BOOLEAN]]
  /\ faults \in 0 .. MaxFaults /\ signals \in 0 .. MaxSignals /\ boots \in 0 .. MaxBoots

(* Whatever servers boot together, fail or crash between two statements of *)
(* db.Apply: a migration takes effect once, and exactly when its version   *)
(* is recorded; no boot finds a version recorded by another server behind  *)
(* its back ("concurrent server processes cannot race while creating       *)
(* migration metadata"; that it waits too long for the other is a fault    *)
(* like any other, buildPersistenceFails); and no server runs a statement  *)
(* on the submissions table (recovery at startup, workers, handlers)       *)
(* before every version is in.                                             *)
MigrationsAreSerial ==
  /\ \A m \in 1 .. Versions : runs[m] = IF m \in recorded THEN 1 ELSE 0
  /\ \A v \in Servers :
       /\ ended[v] # "conflict"
       /\ server[v] \in {"recovering", "listening", "serving", "draining", "closing"}
            => recorded = 1 .. Versions

(* What /submit answers with 200 is final: the row keeps that status and   *)
(* that result whatever other servers, late workers and recovery do to it  *)
(* after the poll that read it.                                            *)
AnswerStands ==
  \A r \in Requests : answer[r].code = "ok" =>
    row[r].status = answer[r].status /\ row[r].result = answer[r].result

(* A client that was given a submission id has a row, one that was told to *)
(* retry or to correct its job has none (only a 500 leaves it open).       *)
AcknowledgedIsStored ==
  \A r \in Requests :
    /\ answer[r].code \in {"ok", "accepted"} => row[r].status # "absent"
    /\ answer[r].code \in {"busy", "invalid", "queue_full"} => row[r].status = "absent"

(* Every request is answered, or ends with its process.                    *)
RequestsEnd == \A r \in Requests : req[r].pc \in ActivePcs ~> req[r].pc \notin ActivePcs

(* A server that was told to stop is gone some time later, even with a     *)
(* client that waits in /submit and a worker that never returns.           *)
ShutdownEnds == \A v \in Servers : server[v] = "draining" ~> server[v] = "down"

(* Seen from the API, a submission lives the life SubmissionLifecycle      *)
(* promises.                                                               *)
Lifecycle == INSTANCE SubmissionLifecycle WITH
  Submissions <- Requests, MaxAttempts <- MaxAttempts,
  status  <- [r \in Requests |-> row[r].status],
  attempt <- [r \in Requests |-> row[r].attempt],
  result  <- [r \in Requests |-> row[r].result]

LifecycleSpec == Lifecycle!Spec

----------------------------------------------------------------------------
(* The inductive invariant (ServerProcessProofs).                          *)

(* The whole type of the variables, and the room buildSandboxPool has.     *)
TypeInv ==
  /\ TypeOK
  /\ txn \in [Servers -> [pc : {"none", "check", "run"}, next : 1 .. Versions + 1,
                          ran : SUBSET (1 .. Versions)]]
  /\ worker \in [Servers -> [of : Requests \cup {Nobody}, attempt : 0 .. MaxAttempts]]
  /\ answer \in [Requests -> [code : {"none", "busy", "invalid", "queue_full", "internal_error",
                                     "accepted", "ok"},
                              status : {"absent", "queued", "running", "finished", "failed"},
                              result : 0 .. MaxAttempts]]
  /\ \A v \in Servers : server[v] = "building" => sandboxes[v] < PoolSize

(* The advisory lock belongs to the one server that is in db.Apply, and    *)
(* what its transaction has passed is recorded or was run by it.           *)
MigrationInv ==
  /\ MigrationsAreSerial
  /\ \A v \in Servers :
       /\ server[v] = "migrating" <=> lock = v
       /\ lock = v <=> txn[v].pc # "none"
       /\ txn[v].pc = "none" => txn[v] = NoTxn
       /\ txn[v].ran \subseteq 1 .. txn[v].next - 1 /\ txn[v].ran \cap recorded = {}
       /\ 1 .. txn[v].next - 1 \subseteq recorded \cup txn[v].ran
       /\ txn[v].pc = "run" => txn[v].next \in (1 .. Versions) \ recorded

(* A row that is queued has an attempt left; one that is not there has     *)
(* none behind it.                                                         *)
RowInv ==
  \A r \in Requests :
    /\ row[r].status = "absent" => row[r].attempt = 0
    /\ row[r].status = "queued" => row[r].attempt < MaxAttempts

(* A handler has its row from the admission on and not before, and only    *)
(* the end of the handler answers.                                         *)
HandlerInv ==
  \A r \in Requests :
    /\ req[r].pc \in {"none", "validating", "saving"} => row[r].status = "absent"
    /\ req[r].pc \in {"polling", "waiting"} => row[r].status # "absent"
    /\ answer[r].code # "none" => req[r].pc = "answered"
    /\ answer[r].code = "ok" => row[r].status \in Terminal

IndInv == TypeInv /\ MigrationInv /\ RowInv /\ HandlerInv /\ AnswerStands /\ AcknowledgedIsStored

=============================================================================
