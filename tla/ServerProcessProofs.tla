------------------------ MODULE ServerProcessProofs ------------------------
(***************************************************************************)
(* Proofs about ServerProcess, for any number of servers, requests,        *)
(* migrations, sandboxes and attempts.                                     *)
(***************************************************************************)
EXTENDS ServerProcess, TLAPS

USE NobodyAssumption, SizesAssumption
USE DEF Idle, NoTxn, NewTxn, Req, NoAnswer, Terminal, Phases, ActivePcs,
        schemaVars, processVars, httpVars, boundVars

(* The part of the invariant that is about rows, handlers and answers.     *)
DataInv == RowInv /\ HandlerInv /\ AnswerStands /\ AcknowledgedIsStored

(* The inductive invariant is its three parts.                             *)
LEMMA IndInvParts == IndInv <=> TypeInv /\ MigrationInv /\ DataInv
  BY DEF IndInv, DataInv

(* The steps of a server that are neither a statement on rows nor its end. *)
BootStep(v) ==
  \/ Boot(v) \/ buildSandboxPool(v) \/ StartSandboxFails(v) \/ LockMigrations(v)
  \/ CheckMigration(v) \/ RunMigration(v) \/ CommitMigrations(v) \/ buildPersistenceFails(v)
  \/ RecoverAtStartupFails(v) \/ Listen(v) \/ ListenFails(v)
  \/ Signal(v) \/ shutdownDeadline(v) \/ Shutdown(v)

(* The steps that read or write rows.                                      *)
RowStep(v) ==
  \/ RecoverAtStartup(v) \/ RecoverExpired(v) \/ UpdateIsRefused(v)
  \/ \E r \in Requests : Dequeue(v, r)
  \/ \E outcome \in Terminal : ProcessSubmission(v, outcome)

(* The steps of a handler after it got its slot.                           *)
RequestStep(r) ==
  \/ decodeAndValidateJudgeJob(r) \/ SaveAdmitted(r) \/ SaveAdmittedFails(r)
  \/ pollSubmission(r) \/ pollSubmissionFails(r) \/ tick(r)
  \/ submitTimeout(r) \/ stopWaiting(r)

(* Next, by the parts the proofs treat separately.                         *)
LEMMA NextSteps ==
  Next <=> \/ \E v \in Servers : \/ BootStep(v) \/ RowStep(v) \/ Exit(v) \/ Crash(v)
                                 \/ \E r \in Requests : acquireValidationSlot(r, v)
           \/ \E r \in Requests : RequestStep(r)
  BY DEF Next, BootStep, RowStep, RequestStep

-----------------------------------------------------------------------------
(* Migrations.                                                             *)

(* A process that fails during its boot gives the lock back and leaves no  *)
(* trace of its transaction.                                               *)
LEMMA FatalKeepsMigrations ==
  ASSUME TypeInv, MigrationInv, NEW v \in Servers, Fatal(v, "fatal"), UNCHANGED <<recorded, runs>>
  PROVE  MigrationInv'
<1>1. ASSUME NEW u \in Servers
      PROVE  /\ ended'[u] # "conflict"
             /\ u # v => server'[u] = server[u] /\ txn'[u] = txn[u] /\ (lock' = u <=> lock = u)
             /\ u = v => server'[u] = "down" /\ txn'[u] = NoTxn /\ lock' # u
  BY DEF TypeInv, TypeOK, MigrationInv, MigrationsAreSerial, Fatal
<1> QED
  BY <1>1 DEF MigrationInv, MigrationsAreSerial

(* A step that leaves the schema, the lock and the phases alone.           *)
LEMMA MigrationFrame ==
  ASSUME MigrationInv, UNCHANGED <<schemaVars, server, ended>>
  PROVE  MigrationInv'
  BY DEF MigrationInv, MigrationsAreSerial

(* A step of a server outside db.Apply, to a phase outside of it that does *)
(* not come before the migrations are in.                                  *)
LEMMA PhaseMove ==
  ASSUME TypeInv, MigrationInv, NEW v \in Servers, NEW p,
         server[v] # "migrating", p # "migrating",
         p \in {"recovering", "listening", "serving", "draining", "closing"}
           => server[v] \in {"recovering", "listening", "serving", "draining", "closing"},
         server' = [server EXCEPT ![v] = p],
         \A u \in Servers : ended'[u] # "conflict",
         UNCHANGED schemaVars
  PROVE  MigrationInv'
<1>1. ASSUME NEW u \in Servers
      PROVE  /\ u # v => server'[u] = server[u]
             /\ u = v => server'[u] = p
  BY DEF TypeInv, TypeOK
<1> QED
  BY <1>1 DEF MigrationInv, MigrationsAreSerial

(* What the transaction of db.Apply committed, it ran for the first time.  *)
LEMMA CommittedOnce ==
  ASSUME TypeInv, MigrationInv, NEW v \in Servers,
         txn[v].pc = "check", txn[v].next > Versions, Committed(v)
  PROVE  /\ recorded' = 1 .. Versions
         /\ \A m \in 1 .. Versions : runs'[m] = 1
<1>1. /\ txn[v].ran \subseteq 1 .. Versions /\ recorded \subseteq 1 .. Versions
      /\ txn[v].next = Versions + 1
  BY DEF TypeInv, TypeOK
<1>2. recorded' = 1 .. Versions
  <2>1. 1 .. Versions + 1 - 1 \subseteq recorded \cup txn[v].ran
    BY <1>1 DEF MigrationInv
  <2>2. Versions + 1 - 1 = Versions
    OBVIOUS
  <2> QED
    BY <1>1, <2>1, <2>2 DEF Committed
<1>3. ASSUME NEW m \in 1 .. Versions
      PROVE  runs'[m] = 1
  <2>1. m \in txn[v].ran => m \notin recorded
    BY DEF MigrationInv
  <2>2. m \in recorded \/ m \in txn[v].ran
    BY <1>1, <1>2 DEF Committed
  <2>3. runs[m] = IF m \in recorded THEN 1 ELSE 0
    BY DEF MigrationInv, MigrationsAreSerial
  <2> QED
    BY <2>1, <2>2, <2>3 DEF Committed
<1> QED
  BY <1>2, <1>3

(* While a server is in its transaction, no other one is.                  *)
LEMMA OneMigrates ==
  ASSUME TypeInv, MigrationInv, NEW v \in Servers, NEW u \in Servers, u # v,
         txn[v].pc # "none"
  PROVE  txn[u] = NoTxn /\ lock # u /\ server[u] # "migrating" /\ lock = v
  BY DEF MigrationInv

(* Every step of a boot keeps the migrations serial.                       *)
LEMMA BootKeepsMigrations ==
  ASSUME IndInv, NEW v \in Servers, BootStep(v)
  PROVE  MigrationInv'
<1> USE IndInvParts
<1>0. /\ server \in [Servers -> Phases]
      /\ \A u \in Servers : ended[u] # "conflict"
  BY DEF TypeInv, TypeOK, MigrationInv, MigrationsAreSerial
<1>1. CASE Boot(v)
  BY <1>0, <1>1, PhaseMove DEF Boot
<1>2. CASE buildSandboxPool(v)
  <2>1. CASE sandboxes'[v] = PoolSize
    BY <1>0, <1>2, <2>1, PhaseMove DEF buildSandboxPool
  <2>2. CASE sandboxes'[v] # PoolSize
    BY <1>0, <1>2, <2>2, MigrationFrame DEF buildSandboxPool
  <2> QED
    BY <2>1, <2>2
<1>3. CASE StartSandboxFails(v)
  BY <1>3, FatalKeepsMigrations DEF StartSandboxFails
<1>4. CASE LockMigrations(v)
  <2>1. \A u \in Servers : txn[u] = NoTxn /\ server[u] # "migrating"
    BY <1>4 DEF LockMigrations, MigrationInv
  <2>2. ASSUME NEW u \in Servers
        PROVE  /\ u # v => server'[u] = server[u] /\ txn'[u] = txn[u] /\ lock' # u
               /\ u = v => /\ server'[u] = "migrating" /\ lock' = u
                           /\ txn'[u] = [pc |-> "check", next |-> 1, ran |-> {}]
    BY <1>0, <1>4 DEF LockMigrations, TypeInv
  <2>3. UNCHANGED <<recorded, runs, ended>>
    BY <1>4 DEF LockMigrations
  <2> QED
    BY <2>1, <2>2, <2>3 DEF MigrationInv, MigrationsAreSerial
<1>5. CASE CheckMigration(v)
  <2>1. UNCHANGED <<recorded, runs, lock, server, ended>>
    BY <1>5 DEF CheckMigration
  <2>2. \A u \in Servers : u # v => txn'[u] = txn[u]
    BY <1>5 DEF CheckMigration, TypeInv
  <2>3. txn[v].next \in 1 .. Versions
    BY <1>5 DEF CheckMigration, TypeInv, TypeOK
  <2>4. CASE txn[v].next \in recorded
    <3>1. /\ txn'[v].pc = "check" /\ txn'[v].next = txn[v].next + 1
          /\ txn'[v].ran = txn[v].ran
      BY <1>5, <2>4 DEF CheckMigration, TypeInv
    <3> QED
      BY <1>5, <2>1, <2>2, <2>3, <2>4, <3>1 DEF CheckMigration, MigrationInv, MigrationsAreSerial
  <2>5. CASE txn[v].next \notin recorded
    <3>1. /\ txn'[v].pc = "run" /\ txn'[v].next = txn[v].next
          /\ txn'[v].ran = txn[v].ran
      BY <1>5, <2>5 DEF CheckMigration, TypeInv
    <3> QED
      BY <1>5, <2>1, <2>2, <2>3, <2>5, <3>1 DEF CheckMigration, MigrationInv, MigrationsAreSerial
  <2> QED
    BY <2>4, <2>5
<1>6. CASE RunMigration(v)
  <2>1. txn[v].next \in (1 .. Versions) \ recorded
    BY <1>6 DEF RunMigration, MigrationInv
  <2>2. UNCHANGED <<recorded, runs, lock, server, ended>>
    BY <1>6, <2>1 DEF RunMigration
  <2>3. \A u \in Servers : u # v => txn'[u] = txn[u]
    BY <1>6, <2>1 DEF RunMigration, TypeInv
  <2>4. /\ txn'[v].pc = "check" /\ txn'[v].next = txn[v].next + 1
        /\ txn'[v].ran = txn[v].ran \cup {txn[v].next}
    BY <1>6, <2>1 DEF RunMigration, TypeInv
  <2>5. txn[v].pc # "none"
    BY <1>6 DEF RunMigration
  <2>6. /\ txn'[v].ran \subseteq 1 .. txn'[v].next - 1 /\ txn'[v].ran \cap recorded = {}
        /\ 1 .. txn'[v].next - 1 \subseteq recorded \cup txn'[v].ran
    <3>1. /\ txn[v].ran \subseteq 1 .. txn[v].next - 1 /\ txn[v].ran \cap recorded = {}
          /\ 1 .. txn[v].next - 1 \subseteq recorded \cup txn[v].ran
      BY DEF MigrationInv
    <3>2. 1 .. txn'[v].next - 1 = (1 .. txn[v].next - 1) \cup {txn[v].next}
      BY <2>1, <2>4
    <3> QED
      BY <2>1, <2>4, <3>1, <3>2
  <2> QED
    BY <2>2, <2>3, <2>4, <2>5, <2>6 DEF MigrationInv, MigrationsAreSerial
<1>7. CASE CommitMigrations(v)
  <2>1. recorded' = 1 .. Versions /\ \A m \in 1 .. Versions : runs'[m] = 1
    BY <1>7, CommittedOnce DEF CommitMigrations
  <2>2. ASSUME NEW u \in Servers
        PROVE  /\ u # v => server'[u] = server[u] /\ server[u] # "migrating"
               /\ u = v => server'[u] = "recovering"
               /\ txn'[u] = NoTxn /\ lock' # u
    BY <1>0, <1>7, OneMigrates DEF CommitMigrations, TypeInv
  <2>3. UNCHANGED ended
    BY <1>7 DEF CommitMigrations
  <2> QED
    BY <1>0, <2>1, <2>2, <2>3 DEF MigrationInv, MigrationsAreSerial
<1>8. CASE buildPersistenceFails(v)
  <2>1. CASE UNCHANGED <<recorded, runs>>
    BY <1>8, <2>1, FatalKeepsMigrations DEF buildPersistenceFails
  <2>2. CASE txn[v].pc = "check" /\ txn[v].next > Versions /\ Committed(v)
    <3>1. recorded' = 1 .. Versions /\ \A m \in 1 .. Versions : runs'[m] = 1
      BY <2>2, CommittedOnce
    <3>2. ASSUME NEW u \in Servers
          PROVE  /\ u # v => server'[u] = server[u] /\ server[u] # "migrating"
                 /\ u = v => server'[u] = "down"
                 /\ txn'[u] = NoTxn /\ lock' # u /\ ended'[u] # "conflict"
      <4>1. Fatal(v, "fatal")
        BY <1>8 DEF buildPersistenceFails
      <4>2. u # v => txn[u] = NoTxn /\ lock # u /\ server[u] # "migrating" /\ lock = v
        BY <2>2, OneMigrates
      <4>3. lock' # u
        BY <4>1, <4>2 DEF Fatal
      <4>4. ended'[u] # "conflict"
        BY <1>0, <4>1 DEF Fatal, TypeInv, TypeOK
      <4> QED
        BY <1>0, <4>1, <4>2, <4>3, <4>4 DEF Fatal, TypeInv
    <3> QED
      BY <3>1, <3>2 DEF MigrationInv, MigrationsAreSerial
  <2> QED
    BY <1>8, <2>1, <2>2 DEF buildPersistenceFails
<1>9. CASE RecoverAtStartupFails(v)
  BY <1>9, FatalKeepsMigrations DEF RecoverAtStartupFails
<1>10. CASE Listen(v)
  BY <1>0, <1>10, PhaseMove DEF Listen
<1>11. CASE ListenFails(v)
  <2>1. \A u \in Servers : ended'[u] # "conflict"
    BY <1>0, <1>11 DEF ListenFails, TypeInv, TypeOK
  <2> QED
    BY <1>0, <1>11, <2>1, PhaseMove DEF ListenFails
<1>12. CASE Signal(v)
  BY <1>0, <1>12, PhaseMove DEF Signal
<1>13. CASE shutdownDeadline(v)
  BY <1>13, MigrationFrame DEF shutdownDeadline
<1>14. CASE Shutdown(v)
  BY <1>0, <1>14, PhaseMove DEF Shutdown
<1> QED
  BY <1>1, <1>2, <1>3, <1>4, <1>5, <1>6, <1>7, <1>8, <1>9, <1>10, <1>11, <1>12, <1>13, <1>14
     DEF BootStep

(* So does every other step: it leaves the schema alone, but for a crash,  *)
(* which rolls the transaction back.                                       *)
LEMMA NextKeepsMigrations ==
  ASSUME IndInv, Next
  PROVE  MigrationInv'
<1> USE IndInvParts
<1>0. /\ server \in [Servers -> Phases]
      /\ \A u \in Servers : ended[u] # "conflict"
  BY DEF TypeInv, TypeOK, MigrationInv, MigrationsAreSerial
<1>1. ASSUME NEW v \in Servers, RowStep(v)
      PROVE  MigrationInv'
  <2>1. CASE RecoverAtStartup(v)
    BY <1>0, <2>1, PhaseMove DEF RecoverAtStartup
  <2> QED
    BY <1>1, <2>1, MigrationFrame
       DEF RowStep, RecoverExpired, UpdateIsRefused, Dequeue, ProcessSubmission
<1>2. ASSUME NEW v \in Servers, Exit(v)
      PROVE  MigrationInv'
  <2>1. \A u \in Servers : ended'[u] # "conflict"
    BY <1>0, <1>2 DEF Exit, TypeInv, TypeOK
  <2> QED
    BY <1>0, <1>2, <2>1, PhaseMove DEF Exit
<1>3. ASSUME NEW v \in Servers, Crash(v)
      PROVE  MigrationInv'
  <2>1. ASSUME NEW u \in Servers
        PROVE  /\ ended'[u] # "conflict"
               /\ u # v => server'[u] = server[u] /\ txn'[u] = txn[u] /\ (lock' = u <=> lock = u)
               /\ u = v => server'[u] = "down" /\ txn'[u] = NoTxn /\ lock' # u
    BY <1>0, <1>3 DEF TypeInv, TypeOK, Crash
  <2>2. UNCHANGED <<recorded, runs>>
    BY <1>3 DEF Crash
  <2> QED
    BY <2>1, <2>2 DEF MigrationInv, MigrationsAreSerial
<1>4. ASSUME NEW v \in Servers, NEW r \in Requests, acquireValidationSlot(r, v)
      PROVE  MigrationInv'
  BY <1>4, MigrationFrame DEF acquireValidationSlot
<1>5. ASSUME NEW r \in Requests, RequestStep(r)
      PROVE  MigrationInv'
  BY <1>5, MigrationFrame DEF RequestStep, decodeAndValidateJudgeJob, SaveAdmitted, SaveAdmittedFails,
     pollSubmission, pollSubmissionFails, tick, submitTimeout, stopWaiting
<1> QED
  BY <1>1, <1>2, <1>3, <1>4, <1>5, BootKeepsMigrations, NextSteps

-----------------------------------------------------------------------------
(* Rows, handlers and answers.                                             *)

(* A step that leaves rows, handlers and answers alone.                    *)
LEMMA DataFrame ==
  ASSUME DataInv, UNCHANGED <<row, req, answer>>
  PROVE  DataInv'
  BY DEF DataInv, RowInv, HandlerInv, AnswerStands, AcknowledgedIsStored

(* What the workers and recovery may do to a row: nothing to one that is   *)
(* absent or terminal, and nothing makes one absent.                       *)
RowChange(r) ==
  \/ row'[r] = row[r]
  \/ /\ row[r].status \in {"queued", "running"}
     /\ row'[r].status \in {"queued", "running", "finished", "failed"}
     /\ row'[r].status = "queued" => row'[r].attempt < MaxAttempts

(* Such changes keep what handlers and answers rely on.                    *)
LEMMA RowChangeKeepsData ==
  ASSUME TypeInv, DataInv, \A r \in Requests : RowChange(r), UNCHANGED <<req, answer>>
  PROVE  DataInv'
<1> SUFFICES ASSUME NEW r \in Requests
             PROVE  /\ row'[r].status = "absent" => row'[r].attempt = 0
                    /\ row'[r].status = "queued" => row'[r].attempt < MaxAttempts
                    /\ req[r].pc \in {"none", "validating", "saving"} => row'[r].status = "absent"
                    /\ req[r].pc \in {"polling", "waiting"} => row'[r].status # "absent"
                    /\ answer[r].code # "none" => req[r].pc = "answered"
                    /\ answer[r].code = "ok" => row'[r] = row[r] /\ row[r].status \in Terminal
                    /\ row'[r].status = "absent" <=> row[r].status = "absent"
  BY DEF DataInv, RowInv, HandlerInv, AnswerStands, AcknowledgedIsStored
<1> QED
  BY DEF DataInv, RowInv, HandlerInv, RowChange

(* Recovery requeues or fails running rows.                                *)
LEMMA GiveUpChanges ==
  ASSUME TypeInv, NEW S \in SUBSET Running, GiveUp(S), NEW r \in Requests
  PROVE  RowChange(r) /\ row'[r].attempt = row[r].attempt
  BY DEF TypeInv, TypeOK, GiveUp, Running, RowChange

(* Recovery and the queue worker keep what handlers and answers rely on.   *)
LEMMA RowStepKeepsData ==
  ASSUME IndInv, NEW v \in Servers, RowStep(v)
  PROVE  DataInv'
<1> USE IndInvParts
<1>1. CASE RecoverAtStartup(v)
  BY <1>1, GiveUpChanges, RowChangeKeepsData DEF RecoverAtStartup
<1>2. CASE RecoverExpired(v)
  BY <1>2, GiveUpChanges, RowChangeKeepsData DEF RecoverExpired
<1>3. CASE UpdateIsRefused(v)
  BY <1>3, DataFrame DEF UpdateIsRefused
<1>4. ASSUME NEW q \in Requests, Dequeue(v, q)
      PROVE  DataInv'
  <2>1. \A r \in Requests : RowChange(r)
    BY <1>4 DEF Dequeue, RowChange, TypeInv, TypeOK
  <2> QED
    BY <1>4, <2>1, RowChangeKeepsData DEF Dequeue
<1>5. ASSUME NEW outcome \in Terminal, ProcessSubmission(v, outcome)
      PROVE  DataInv'
  <2>1. \A r \in Requests : RowChange(r)
    BY <1>5 DEF ProcessSubmission, RowChange, TypeInv, TypeOK
  <2> QED
    BY <1>5, <2>1, RowChangeKeepsData DEF ProcessSubmission
<1> QED
  BY <1>1, <1>2, <1>3, <1>4, <1>5 DEF RowStep

(* A step of the handler of q that changes nothing of another request.     *)
LEMMA RequestFrame ==
  ASSUME TypeInv, DataInv, NEW q \in Requests,
         \A r \in Requests \ {q} : row'[r] = row[r] /\ req'[r] = req[r] /\ answer'[r] = answer[r],
         row'[q].status = "absent" => row'[q].attempt = 0,
         row'[q].status = "queued" => row'[q].attempt < MaxAttempts,
         req'[q].pc \in {"none", "validating", "saving"} => row'[q].status = "absent",
         req'[q].pc \in {"polling", "waiting"} => row'[q].status # "absent",
         answer'[q].code # "none" => req'[q].pc = "answered",
         answer'[q].code = "ok" => /\ row'[q].status \in Terminal
                                   /\ answer'[q].status = row'[q].status
                                   /\ answer'[q].result = row'[q].result,
         answer'[q].code = "accepted" => row'[q].status # "absent",
         answer'[q].code \in {"busy", "invalid", "queue_full"} => row'[q].status = "absent"
  PROVE  DataInv'
<1>1. \A r \in Requests : r = q \/ r \in Requests \ {q}
  OBVIOUS
<1>2. RowInv' /\ HandlerInv'
  BY <1>1 DEF DataInv, RowInv, HandlerInv
<1>3. AnswerStands' /\ AcknowledgedIsStored'
  BY <1>1 DEF DataInv, AnswerStands, AcknowledgedIsStored
<1> QED
  BY <1>2, <1>3 DEF DataInv

(* What a response does to the handler's state.                            *)
LEMMA RespondEffect ==
  ASSUME TypeInv, NEW q \in Requests, NEW code, NEW status, NEW result,
         Respond(q, code, status, result)
  PROVE  /\ \A r \in Requests \ {q} : req'[r] = req[r] /\ answer'[r] = answer[r]
         /\ req'[q].pc = "answered"
         /\ answer'[q].code = code /\ answer'[q].status = status /\ answer'[q].result = result
  BY DEF TypeInv, TypeOK, Respond

(* What a handler's move to another program counter does.                  *)
LEMMA MoveEffect ==
  ASSUME TypeInv, NEW q \in Requests, NEW p, req' = [req EXCEPT ![q].pc = p]
  PROVE  (\A r \in Requests \ {q} : req'[r] = req[r]) /\ req'[q].pc = p
<1>1. req \in [Requests -> [pc : ActivePcs \cup {"none", "answered", "cut", "crashed"},
                           at : Servers \cup {Nobody},
                           seen : {"absent", "queued", "running"}, expired : BOOLEAN]]
  BY DEF TypeInv, TypeOK
<1> QED
  BY <1>1

(* The handlers keep it.                                                   *)
LEMMA RequestStepKeepsData ==
  ASSUME IndInv, NEW q \in Requests, RequestStep(q)
  PROVE  DataInv'
<1> USE IndInvParts
<1>0. /\ row \in [Requests -> [status : {"absent", "queued", "running", "finished", "failed"},
                               attempt : 0 .. MaxAttempts, result : 0 .. MaxAttempts]]
      /\ row[q].status = "absent" => row[q].attempt = 0
      /\ row[q].status = "queued" => row[q].attempt < MaxAttempts
  BY DEF TypeInv, TypeOK, DataInv, RowInv
<1>1. CASE decodeAndValidateJudgeJob(q)
  <2>1. row[q].status = "absent" /\ row' = row /\ answer[q].code = "none"
    BY <1>1 DEF decodeAndValidateJudgeJob, DataInv, HandlerInv
  <2>2. CASE req' = [req EXCEPT ![q].pc = "saving"] /\ UNCHANGED answer
    <3>1. (\A r \in Requests \ {q} : req'[r] = req[r]) /\ req'[q].pc = "saving"
      BY <2>2, MoveEffect
    <3> QED
      BY <1>0, <2>1, <2>2, <3>1, RequestFrame
  <2>3. CASE Respond(q, "invalid", "absent", 0)
    BY <1>0, <2>1, <2>3, RespondEffect, RequestFrame
  <2> QED
    BY <1>1, <2>2, <2>3 DEF decodeAndValidateJudgeJob
<1>2. CASE SaveAdmitted(q) \/ SaveAdmittedFails(q)
  <2>1. row[q].status = "absent" /\ answer[q].code = "none"
    BY <1>2 DEF SaveAdmitted, SaveAdmittedFails, DataInv, HandlerInv
  <2>2. CASE UNCHANGED row
    BY <1>0, <1>2, <2>1, <2>2, RespondEffect, RequestFrame DEF SaveAdmitted, SaveAdmittedFails
  <2>3. CASE row' = [row EXCEPT ![q].status = "queued"]
    <3>1. /\ \A r \in Requests \ {q} : row'[r] = row[r]
          /\ row'[q].status = "queued" /\ row'[q].attempt = 0
      BY <1>0, <2>1, <2>3
    <3>2. CASE req' = [req EXCEPT ![q].pc = "polling"] /\ UNCHANGED answer
      <4>1. (\A r \in Requests \ {q} : req'[r] = req[r]) /\ req'[q].pc = "polling"
        BY <3>2, MoveEffect
      <4> QED
        BY <2>1, <3>1, <3>2, <4>1, RequestFrame
    <3>3. CASE Respond(q, "accepted", "queued", 0) \/ Respond(q, "internal_error", "absent", 0)
      BY <3>1, <3>3, RespondEffect, RequestFrame
    <3>4. \/ req' = [req EXCEPT ![q].pc = "polling"] /\ UNCHANGED answer
          \/ Respond(q, "accepted", "queued", 0) \/ Respond(q, "internal_error", "absent", 0)
      BY <1>2, <2>1, <3>1 DEF SaveAdmitted, SaveAdmittedFails
    <3> QED
      BY <3>2, <3>3, <3>4
  <2> QED
    BY <1>2, <2>2, <2>3 DEF SaveAdmitted, SaveAdmittedFails
<1>3. CASE pollSubmission(q) \/ pollSubmissionFails(q) \/ tick(q) \/ submitTimeout(q) \/ stopWaiting(q)
  <2>1. UNCHANGED row
    BY <1>3 DEF pollSubmission, pollSubmissionFails, tick, submitTimeout, stopWaiting
  <2>2. CASE pollSubmission(q) /\ row[q].status \in Terminal
    BY <1>0, <2>1, <2>2, RespondEffect, RequestFrame DEF pollSubmission
  <2>3. CASE pollSubmissionFails(q) \/ stopWaiting(q)
    BY <1>0, <2>1, <2>3, RespondEffect, RequestFrame
       DEF pollSubmissionFails, stopWaiting, DataInv, HandlerInv
  <2>4. CASE (pollSubmission(q) /\ row[q].status \notin Terminal) \/ tick(q) \/ submitTimeout(q)
    <3>1. /\ UNCHANGED answer
          /\ \A r \in Requests \ {q} : req'[r] = req[r]
          /\ req[q].pc = "saving" => req'[q].pc = "saving"
          /\ req[q].pc \in {"polling", "waiting"} => req'[q].pc \in {"polling", "waiting"}
          /\ req[q].pc \in {"saving", "polling", "waiting"}
      BY <2>4 DEF pollSubmission, tick, submitTimeout, TypeInv, TypeOK
    <3>2. answer[q].code = "none"
      BY <3>1 DEF DataInv, HandlerInv
    <3> QED
      BY <1>0, <2>1, <3>1, <3>2, RequestFrame DEF DataInv, HandlerInv
  <2> QED
    BY <1>3, <2>2, <2>3, <2>4
<1> QED
  BY <1>1, <1>2, <1>3 DEF RequestStep

(* A process that ends cuts its handlers off, whatever they were doing.    *)
LEMMA CutKeepsData ==
  ASSUME TypeInv, DataInv, NEW v \in Servers, NEW how \in {"cut", "crashed"}, Cut(v, how),
         UNCHANGED <<row, answer>>
  PROVE  DataInv'
<1>1. ASSUME NEW r \in Requests
      PROVE  \/ req'[r] = req[r]
             \/ req[r].pc \in ActivePcs /\ req'[r].pc = how
  BY DEF Cut, ActiveAt
<1> QED
  BY <1>1 DEF DataInv, RowInv, HandlerInv, AnswerStands, AcknowledgedIsStored

(* Every step keeps what handlers and answers rely on.                     *)
LEMMA NextKeepsData ==
  ASSUME IndInv, Next
  PROVE  DataInv'
<1> USE IndInvParts
<1>1. ASSUME NEW v \in Servers, BootStep(v)
      PROVE  DataInv'
  BY <1>1, DataFrame DEF BootStep, Boot, buildSandboxPool, StartSandboxFails, LockMigrations,
     CheckMigration, RunMigration, CommitMigrations, buildPersistenceFails, RecoverAtStartupFails,
     Listen, ListenFails, Signal, shutdownDeadline, Shutdown
<1>2. ASSUME NEW v \in Servers, Exit(v) \/ Crash(v)
      PROVE  DataInv'
  BY <1>2, CutKeepsData DEF Exit, Crash
<1>3. ASSUME NEW v \in Servers, NEW q \in Requests, acquireValidationSlot(q, v)
      PROVE  DataInv'
  <2>1. row[q].status = "absent" /\ UNCHANGED row /\ answer[q].code = "none" /\ row[q].attempt = 0
    BY <1>3 DEF acquireValidationSlot, DataInv, HandlerInv, RowInv
  <2>2. CASE req' = [req EXCEPT ![q] = Req("validating", v)] /\ UNCHANGED answer
    BY <2>1, <2>2, RequestFrame DEF TypeInv, TypeOK
  <2>3. CASE Respond(q, "busy", "absent", 0)
    BY <2>1, <2>3, RespondEffect, RequestFrame
  <2> QED
    BY <1>3, <2>2, <2>3 DEF acquireValidationSlot
<1> QED
  BY <1>1, <1>2, <1>3, RowStepKeepsData, RequestStepKeepsData, NextSteps

-----------------------------------------------------------------------------
(* Types.                                                                  *)

(* The types, by the variables a step may change together.                 *)
SchemaType ==
  /\ recorded \subseteq 1 .. Versions /\ runs \in [1 .. Versions -> Nat]
  /\ lock \in Servers \cup {Nobody}
  /\ txn \in [Servers -> [pc : {"none", "check", "run"}, next : 1 .. Versions + 1,
                          ran : SUBSET (1 .. Versions)]]

ProcessType ==
  /\ server \in [Servers -> Phases]
  /\ ended \in [Servers -> {"none", "fatal", "conflict", "listen", "exit", "crash"}]
  /\ late \in [Servers -> BOOLEAN] /\ sandboxes \in [Servers -> 0 .. PoolSize]
  /\ \A v \in Servers : server[v] = "building" => sandboxes[v] < PoolSize

RowType ==
  /\ row \in [Requests -> [status : {"absent", "queued", "running", "finished", "failed"},
                           attempt : 0 .. MaxAttempts, result : 0 .. MaxAttempts]]
  /\ worker \in [Servers -> [of : Requests \cup {Nobody}, attempt : 0 .. MaxAttempts]]

HttpType ==
  /\ req \in [Requests -> [pc : ActivePcs \cup {"none", "answered", "cut", "crashed"},
                           at : Servers \cup {Nobody},
                           seen : {"absent", "queued", "running"}, expired : BOOLEAN]]
  /\ answer \in [Requests -> [code : {"none", "busy", "invalid", "queue_full", "internal_error",
                                     "accepted", "ok"},
                              status : {"absent", "queued", "running", "finished", "failed"},
                              result : 0 .. MaxAttempts]]

BoundType == faults \in 0 .. MaxFaults /\ signals \in 0 .. MaxSignals /\ boots \in 0 .. MaxBoots

(* The type invariant is its parts.                                        *)
LEMMA TypeParts == TypeInv <=> SchemaType /\ ProcessType /\ RowType /\ HttpType /\ BoundType
<1>1. TypeInv => SchemaType /\ ProcessType /\ RowType /\ HttpType /\ BoundType
  BY DEF TypeInv, TypeOK, SchemaType, ProcessType, RowType, HttpType, BoundType
<1>2. ASSUME SchemaType, ProcessType, RowType, HttpType, BoundType
      PROVE  TypeInv
  <2>1. ASSUME NEW v \in Servers
        PROVE  /\ txn[v].pc \in {"none", "check", "run"}
               /\ txn[v].next \in 1 .. Versions + 1 /\ txn[v].ran \subseteq 1 .. Versions
               /\ worker[v].of \in Requests \cup {Nobody} /\ worker[v].attempt \in 0 .. MaxAttempts
    BY <1>2 DEF SchemaType, RowType
  <2> QED
    BY <1>2, <2>1 DEF TypeInv, TypeOK, SchemaType, ProcessType, RowType, HttpType, BoundType
<1> QED
  BY <1>1, <1>2

(* The same after a step.                                                  *)
LEMMA NextTypeParts ==
  SchemaType' /\ ProcessType' /\ RowType' /\ HttpType' /\ BoundType' => TypeInv'
  BY TypeParts, PTL

(* What a step leaves alone keeps its type.                                *)
LEMMA TypeFrames ==
  /\ SchemaType /\ UNCHANGED schemaVars => SchemaType'
  /\ ProcessType /\ UNCHANGED processVars => ProcessType'
  /\ RowType /\ UNCHANGED <<row, worker>> => RowType'
  /\ HttpType /\ UNCHANGED httpVars => HttpType'
  /\ BoundType /\ UNCHANGED boundVars => BoundType'
  BY DEF SchemaType, ProcessType, RowType, HttpType, BoundType

(* A fault is counted within its bound.                                    *)
LEMMA FaultTypes == BoundType /\ Fault => BoundType'
  BY DEF BoundType, Fault

(* A failing boot keeps the types.                                         *)
LEMMA FatalTypes ==
  ASSUME SchemaType, ProcessType, NEW v \in Servers, Fatal(v, "fatal"),
         recorded' \subseteq 1 .. Versions, runs' \in [1 .. Versions -> Nat]
  PROVE  SchemaType' /\ ProcessType'
  BY DEF SchemaType, ProcessType, Fatal

(* A commit keeps the types of what it writes.                             *)
LEMMA CommittedTypes ==
  ASSUME SchemaType, NEW v \in Servers, Committed(v)
  PROVE  recorded' \subseteq 1 .. Versions /\ runs' \in [1 .. Versions -> Nat]
<1>1. txn[v].ran \subseteq 1 .. Versions
  BY DEF SchemaType
<1>2. recorded' \subseteq 1 .. Versions
  BY <1>1 DEF SchemaType, Committed
<1>3. runs' \in [1 .. Versions -> Nat]
  BY DEF SchemaType, Committed
<1> QED
  BY <1>2, <1>3

(* Every step of a boot keeps the types.                                   *)
LEMMA BootKeepsTypes ==
  ASSUME IndInv, NEW v \in Servers, BootStep(v)
  PROVE  TypeInv'
<1> USE IndInvParts, TypeParts, NextTypeParts, TypeFrames
<1>1. CASE Boot(v)
  <2>1. ProcessType'
    BY <1>1 DEF Boot, ProcessType
  <2>2. BoundType'
    BY <1>1 DEF Boot, BoundType
  <2> QED
    BY <1>1, <2>1, <2>2 DEF Boot
<1>2. CASE buildSandboxPool(v)
  <2>1. sandboxes[v] + 1 \in 0 .. PoolSize
    BY <1>2 DEF buildSandboxPool, ProcessType
  <2>2. ProcessType'
    BY <1>2, <2>1 DEF buildSandboxPool, ProcessType
  <2> QED
    BY <1>2, <2>2 DEF buildSandboxPool
<1>3. CASE StartSandboxFails(v) \/ RecoverAtStartupFails(v)
  <2>1. recorded' \subseteq 1 .. Versions /\ runs' \in [1 .. Versions -> Nat]
    BY <1>3 DEF StartSandboxFails, RecoverAtStartupFails, SchemaType
  <2> QED
    BY <1>3, <2>1, FatalTypes, FaultTypes DEF StartSandboxFails, RecoverAtStartupFails
<1>4. CASE LockMigrations(v)
  <2>1. NewTxn \in [pc : {"none", "check", "run"}, next : 1 .. Versions + 1, ran : SUBSET (1 .. Versions)]
    OBVIOUS
  <2>2. SchemaType'
    BY <1>4, <2>1 DEF LockMigrations, SchemaType
  <2>3. ProcessType'
    BY <1>4 DEF LockMigrations, ProcessType
  <2> QED
    BY <1>4, <2>2, <2>3 DEF LockMigrations
<1>5. CASE CheckMigration(v)
  <2>1. txn[v].next + 1 \in 1 .. Versions + 1
    BY <1>5 DEF CheckMigration, SchemaType
  <2>2. SchemaType'
    BY <1>5, <2>1 DEF CheckMigration, SchemaType
  <2> QED
    BY <1>5, <2>2 DEF CheckMigration
<1>6. CASE RunMigration(v)
  <2>1. txn[v].next \in (1 .. Versions) \ recorded
    BY <1>6 DEF RunMigration, MigrationInv
  <2>2. SchemaType'
    BY <1>6, <2>1 DEF RunMigration, SchemaType
  <2> QED
    BY <1>6, <2>1, <2>2 DEF RunMigration
<1>7. CASE CommitMigrations(v)
  <2>1. SchemaType'
    BY <1>7, CommittedTypes DEF CommitMigrations, SchemaType
  <2>2. ProcessType'
    BY <1>7 DEF CommitMigrations, ProcessType
  <2> QED
    BY <1>7, <2>1, <2>2 DEF CommitMigrations
<1>8. CASE buildPersistenceFails(v)
  <2>1. recorded' \subseteq 1 .. Versions /\ runs' \in [1 .. Versions -> Nat]
    BY <1>8, CommittedTypes DEF buildPersistenceFails, SchemaType
  <2> QED
    BY <1>8, <2>1, FatalTypes, FaultTypes DEF buildPersistenceFails
<1>9. CASE Listen(v) \/ Signal(v) \/ shutdownDeadline(v) \/ Shutdown(v)
  <2>1. ProcessType'
    BY <1>9 DEF Listen, Signal, shutdownDeadline, Shutdown, ProcessType
  <2>2. BoundType'
    BY <1>9 DEF Listen, Signal, shutdownDeadline, Shutdown, BoundType
  <2> QED
    BY <1>9, <2>1, <2>2 DEF Listen, Signal, shutdownDeadline, Shutdown
<1>10. CASE ListenFails(v)
  <2>1. ProcessType'
    BY <1>10 DEF ListenFails, ProcessType
  <2>2. RowType'
    BY <1>10 DEF ListenFails, RowType
  <2> QED
    BY <1>10, <2>1, <2>2, FaultTypes DEF ListenFails
<1> QED
  BY <1>1, <1>2, <1>3, <1>4, <1>5, <1>6, <1>7, <1>8, <1>9, <1>10 DEF BootStep

(* Recovery and the queue worker keep the types: a queued row has an       *)
(* attempt left, so no attempt goes past MaxAttempts.                      *)
LEMMA RowStepKeepsTypes ==
  ASSUME IndInv, NEW v \in Servers, RowStep(v)
  PROVE  TypeInv'
<1> USE IndInvParts, TypeParts, NextTypeParts, TypeFrames
<1>1. ASSUME NEW S \in SUBSET Running, GiveUp(S), UNCHANGED worker
      PROVE  RowType'
  BY <1>1 DEF GiveUp, RowType
<1>2. CASE RecoverAtStartup(v)
  <2>1. ProcessType'
    BY <1>2 DEF RecoverAtStartup, ProcessType
  <2> QED
    BY <1>1, <1>2, <2>1 DEF RecoverAtStartup
<1>3. CASE RecoverExpired(v)
  BY <1>1, <1>3 DEF RecoverExpired
<1>4. CASE UpdateIsRefused(v)
  <2>1. RowType'
    BY <1>4 DEF UpdateIsRefused, RowType
  <2> QED
    BY <1>4, <2>1 DEF UpdateIsRefused
<1>5. ASSUME NEW q \in Requests, Dequeue(v, q)
      PROVE  TypeInv'
  <2>1. row[q].attempt + 1 \in 0 .. MaxAttempts
    BY <1>5 DEF Dequeue, RowType, DataInv, RowInv
  <2>2. RowType'
    BY <1>5, <2>1 DEF Dequeue, RowType
  <2> QED
    BY <1>5, <2>2 DEF Dequeue
<1>6. ASSUME NEW outcome \in Terminal, ProcessSubmission(v, outcome)
      PROVE  TypeInv'
  <2>1. worker[v].of \in Requests /\ worker[v].attempt \in 0 .. MaxAttempts
    BY <1>6 DEF ProcessSubmission, RowType
  <2>2. RowType'
    BY <1>6, <2>1 DEF ProcessSubmission, RowType
  <2> QED
    BY <1>6, <2>2 DEF ProcessSubmission
<1> QED
  BY <1>2, <1>3, <1>4, <1>5, <1>6 DEF RowStep

(* A response is well typed when its parts are.                            *)
LEMMA RespondTypes ==
  ASSUME HttpType, NEW r \in Requests,
         NEW code \in {"busy", "invalid", "queue_full", "internal_error", "accepted", "ok"},
         NEW status \in {"absent", "queued", "running", "finished", "failed"},
         NEW result \in 0 .. MaxAttempts, Respond(r, code, status, result)
  PROVE  HttpType'
  BY DEF HttpType, Respond

(* A handler that goes on to another step keeps the types.                 *)
LEMMA MovedTypes ==
  ASSUME HttpType, NEW r \in Requests, NEW p \in ActivePcs,
         req' = [req EXCEPT ![r].pc = p], UNCHANGED answer
  PROVE  HttpType'
<1>1. req' \in [Requests -> [pc : ActivePcs \cup {"none", "answered", "cut", "crashed"},
                             at : Servers \cup {Nobody},
                             seen : {"absent", "queued", "running"}, expired : BOOLEAN]]
  <2>1. [req[r] EXCEPT !.pc = p] \in [pc : ActivePcs \cup {"none", "answered", "cut", "crashed"},
                                      at : Servers \cup {Nobody},
                                      seen : {"absent", "queued", "running"}, expired : BOOLEAN]
    BY DEF HttpType
  <2> QED
    BY <2>1 DEF HttpType
<1> QED
  BY <1>1 DEF HttpType

(* A handler's steps keep the types.                                       *)
LEMMA RequestStepKeepsTypes ==
  ASSUME IndInv, NEW r \in Requests, RequestStep(r)
  PROVE  TypeInv'
<1> USE IndInvParts, TypeParts, NextTypeParts, TypeFrames
<1>1. ASSUME NEW p \in ActivePcs, req' = [req EXCEPT ![r].pc = p], UNCHANGED answer
      PROVE  HttpType'
  BY <1>1, MovedTypes
<1>2. ASSUME row' = [row EXCEPT ![r].status = "queued"], UNCHANGED worker
      PROVE  RowType'
  BY <1>2 DEF RowType
<1>3. CASE decodeAndValidateJudgeJob(r)
  BY <1>1, <1>3, RespondTypes DEF decodeAndValidateJudgeJob
<1>4. CASE SaveAdmitted(r)
  <2>1. HttpType'
    BY <1>1, <1>4, RespondTypes DEF SaveAdmitted
  <2>2. RowType'
    BY <1>2, <1>4 DEF SaveAdmitted
  <2> QED
    BY <1>4, <2>1, <2>2 DEF SaveAdmitted
<1>5. CASE SaveAdmittedFails(r)
  <2>1. HttpType'
    BY <1>5, RespondTypes DEF SaveAdmittedFails
  <2>2. RowType'
    BY <1>2, <1>5 DEF SaveAdmittedFails
  <2>3. BoundType'
    BY <1>5, FaultTypes DEF SaveAdmittedFails
  <2> QED
    BY <1>5, <2>1, <2>2, <2>3 DEF SaveAdmittedFails
<1>6. CASE pollSubmission(r)
  <2>1. /\ row[r].status \in {"absent", "queued", "running", "finished", "failed"}
        /\ row[r].result \in 0 .. MaxAttempts
    BY DEF RowType
  <2>2. CASE row[r].status \in Terminal
    BY <1>6, <2>1, <2>2, RespondTypes DEF pollSubmission
  <2>3. CASE row[r].status \notin Terminal
    <3>1. HttpType'
      <4>1. /\ UNCHANGED answer
            /\ req' = [req EXCEPT ![r].pc = "waiting", ![r].seen = row[r].status]
        BY <1>6, <2>3 DEF pollSubmission
      <4>2. row[r].status \in {"absent", "queued", "running"}
        BY <2>1, <2>3
      <4> DEFINE T == [Requests -> [pc : ActivePcs \cup {"none", "answered", "cut", "crashed"},
                                    at : Servers \cup {Nobody},
                                    seen : {"absent", "queued", "running"}, expired : BOOLEAN]]
                 moved == [req EXCEPT ![r].pc = "waiting"]
      <4>3. moved \in T
        BY DEF HttpType
      <4>4. ASSUME NEW f \in T, NEW x \in {"absent", "queued", "running"}
            PROVE  [f EXCEPT ![r].seen = x] \in T
        OBVIOUS
      <4>5. req' = [moved EXCEPT ![r].seen = row[r].status]
        BY <4>1
      <4> HIDE DEF moved
      <4>6. req' \in T
        BY <4>2, <4>3, <4>4, <4>5
      <4> QED
        BY <4>1, <4>6 DEF HttpType
    <3> QED
      BY <1>6, <3>1 DEF pollSubmission
  <2> QED
    BY <2>2, <2>3
<1>7. CASE pollSubmissionFails(r)
  <2>1. HttpType'
    BY <1>7, RespondTypes DEF pollSubmissionFails
  <2>2. BoundType'
    BY <1>7, FaultTypes DEF pollSubmissionFails
  <2> QED
    BY <1>7, <2>1, <2>2 DEF pollSubmissionFails
<1>8. CASE tick(r)
  BY <1>1, <1>8 DEF tick
<1>9. CASE submitTimeout(r)
  <2>1. HttpType'
    BY <1>9 DEF submitTimeout, HttpType
  <2> QED
    BY <1>9, <2>1 DEF submitTimeout
<1>10. CASE stopWaiting(r)
  <2>1. req[r].seen \in {"absent", "queued", "running"}
    BY DEF HttpType
  <2> QED
    BY <1>10, <2>1, RespondTypes DEF stopWaiting
<1> QED
  BY <1>3, <1>4, <1>5, <1>6, <1>7, <1>8, <1>9, <1>10 DEF RequestStep

(* Every step keeps the types.                                             *)
LEMMA NextKeepsTypes ==
  ASSUME IndInv, Next
  PROVE  TypeInv'
<1> USE IndInvParts, TypeParts, NextTypeParts, TypeFrames
<1>1. ASSUME NEW v \in Servers, NEW how \in {"cut", "crashed"}, Cut(v, how), UNCHANGED answer
      PROVE  HttpType'
  BY <1>1 DEF Cut, HttpType
<1>2. ASSUME NEW v \in Servers, Exit(v)
      PROVE  TypeInv'
  <2>1. ProcessType'
    BY <1>2 DEF Exit, ProcessType
  <2>2. RowType'
    BY <1>2 DEF Exit, RowType
  <2> QED
    BY <1>1, <1>2, <2>1, <2>2 DEF Exit
<1>3. ASSUME NEW v \in Servers, Crash(v)
      PROVE  TypeInv'
  <2>1. ProcessType'
    BY <1>3 DEF Crash, ProcessType
  <2>2. RowType'
    BY <1>3 DEF Crash, RowType
  <2>3. SchemaType'
    BY <1>3 DEF Crash, SchemaType
  <2> QED
    BY <1>1, <1>3, <2>1, <2>2, <2>3, FaultTypes DEF Crash
<1>4. ASSUME NEW v \in Servers, NEW r \in Requests, acquireValidationSlot(r, v)
      PROVE  TypeInv'
  <2>1. CASE req' = [req EXCEPT ![r] = Req("validating", v)] /\ UNCHANGED answer
    <3>1. HttpType'
      BY <2>1 DEF HttpType
    <3> QED
      BY <1>4, <3>1 DEF acquireValidationSlot
  <2>2. CASE Respond(r, "busy", "absent", 0)
    BY <1>4, <2>2, RespondTypes DEF acquireValidationSlot
  <2> QED
    BY <1>4, <2>1, <2>2 DEF acquireValidationSlot
<1> QED
  BY <1>2, <1>3, <1>4, BootKeepsTypes, RowStepKeepsTypes, RequestStepKeepsTypes, NextSteps

-----------------------------------------------------------------------------
(* The theorems.                                                           *)

(* The invariant holds at first, and every step preserves it.              *)
LEMMA InitIndInv == Init => IndInv
<1> SUFFICES ASSUME Init PROVE IndInv
  OBVIOUS
<1> USE DEF Init
<1>1. SchemaType /\ BoundType
  BY DEF SchemaType, BoundType
<1>2. ProcessType
  BY DEF ProcessType
<1>3. RowType /\ HttpType
  BY DEF RowType, HttpType
<1>4. MigrationInv
  BY DEF MigrationInv, MigrationsAreSerial
<1>5. DataInv
  BY DEF DataInv, RowInv, HandlerInv, AnswerStands, AcknowledgedIsStored
<1> QED
  BY <1>1, <1>2, <1>3, <1>4, <1>5, TypeParts, IndInvParts

(* The same for every step, stuttering included.                           *)
LEMMA NextIndInv == IndInv /\ [Next]_vars => IndInv'
<1>1. CASE UNCHANGED vars
  <2>1. IndInv /\ UNCHANGED vars => TypeInv' /\ MigrationInv' /\ DataInv'
    BY IndInvParts, TypeParts, NextTypeParts, TypeFrames, MigrationFrame, DataFrame DEF vars
  <2> QED
    BY <1>1, <2>1 DEF IndInv, DataInv
<1>2. CASE Next
  BY <1>2, NextKeepsTypes, NextKeepsMigrations, NextKeepsData DEF IndInv, DataInv
<1> QED
  BY <1>1, <1>2

(* IndInv holds in every state.                                            *)
THEOREM Invariance == Spec => []IndInv
  BY InitIndInv, NextIndInv, PTL DEF Spec

(* Type correctness; in particular, no attempt goes past MaxAttempts and   *)
(* no process starts more sandboxes than its pool holds.                   *)
THEOREM TypeCorrect == Spec => []TypeOK
<1>1. IndInv => TypeOK
  BY DEF IndInv, TypeInv
<1> QED
  BY <1>1, Invariance, PTL

(* Whatever number of servers boot, fail or crash together: db.Apply runs  *)
(* each migration once, no boot finds a version recorded behind its back,  *)
(* and no server touches the submissions before every version is in.       *)
THEOREM SerialMigrations == Spec => []MigrationsAreSerial
<1>1. IndInv => MigrationsAreSerial
  BY DEF IndInv, MigrationInv
<1> QED
  BY <1>1, Invariance, PTL

(* A result /submit answered with is never changed.                        *)
THEOREM FinalAnswers == Spec => []AnswerStands
<1>1. IndInv => AnswerStands
  BY DEF IndInv
<1> QED
  BY <1>1, Invariance, PTL

(* A client that was given an id has a row, one that was refused has none. *)
THEOREM StoredAcknowledgements == Spec => []AcknowledgedIsStored
<1>1. IndInv => AcknowledgedIsStored
  BY DEF IndInv
<1> QED
  BY <1>1, Invariance, PTL

-----------------------------------------------------------------------------
(* The refinement of SubmissionLifecycle.                                  *)

(* A step that leaves the rows alone is a stuttering step of the life      *)
(* cycle.                                                                  *)
LEMMA RowFrame == UNCHANGED row => UNCHANGED Lifecycle!abstractVars
  BY DEF Lifecycle!abstractVars

(* Storing a row that is not there admits the submission.                  *)
LEMMA SavedIsAdmitted ==
  ASSUME RowType, NEW q \in Requests, row[q].status = "absent",
         row' = [row EXCEPT ![q].status = "queued"]
  PROVE  Lifecycle!Admit(q)
<1>1. ASSUME NEW r \in Requests
      PROVE  /\ row'[r].status = IF r = q THEN "queued" ELSE row[r].status
             /\ row'[r].attempt = row[r].attempt /\ row'[r].result = row[r].result
  BY DEF RowType
<1> QED
  BY <1>1 DEF Lifecycle!Admit

(* A claim starts an attempt.                                              *)
LEMMA DequeueStarts ==
  ASSUME RowType, RowInv, NEW v \in Servers, NEW q \in Requests, Dequeue(v, q)
  PROVE  Lifecycle!Start(q)
<1>1. ASSUME NEW r \in Requests
      PROVE  /\ row'[r].status = IF r = q THEN "running" ELSE row[r].status
             /\ row'[r].attempt = IF r = q THEN row[r].attempt + 1 ELSE row[r].attempt
             /\ row'[r].result = row[r].result
  BY DEF RowType, Dequeue
<1>2. row[q].status = "queued" /\ row[q].attempt < MaxAttempts
  BY DEF Dequeue, RowInv
<1> QED
  BY <1>1, <1>2 DEF Lifecycle!Start

(* The worker's last write settles the attempt the row is running, or does *)
(* nothing.                                                                *)
LEMMA ProcessSettles ==
  ASSUME RowType, NEW v \in Servers, NEW outcome \in Terminal, ProcessSubmission(v, outcome)
  PROVE  UNCHANGED row \/ Lifecycle!Next
<1> DEFINE q == worker[v].of
<1>1. q \in Requests
  BY DEF RowType, ProcessSubmission
<1>2. CASE row[q].status = "running" /\ row[q].attempt = worker[v].attempt
  <2>1. ASSUME NEW r \in Requests
        PROVE  /\ row'[r].status = IF r = q THEN outcome ELSE row[r].status
               /\ row'[r].attempt = row[r].attempt
               /\ row'[r].result = IF r = q THEN row[q].attempt ELSE row[r].result
    BY <1>1, <1>2 DEF RowType, ProcessSubmission
  <2>2. Lifecycle!Settle(q, outcome)
    BY <1>1, <1>2, <2>1 DEF Lifecycle!Settle
  <2> QED
    BY <1>1, <2>2 DEF Lifecycle!Next, Lifecycle!TerminalStatuses
<1>3. CASE ~(row[q].status = "running" /\ row[q].attempt = worker[v].attempt)
  BY <1>3 DEF ProcessSubmission
<1> QED
  BY <1>2, <1>3

(* One recovery gives up the attempts of its rows at once.                 *)
LEMMA GiveUpSettles ==
  ASSUME RowType, NEW S \in SUBSET Running, GiveUp(S)
  PROVE  Lifecycle!Next
<1>1. S \in SUBSET Requests /\ \A s \in S : row[s].status = "running"
  BY DEF Running
<1>2. ASSUME NEW r \in Requests
      PROVE  /\ row[r].attempt \in Nat
             /\ row'[r].status = IF r \notin S THEN row[r].status
                                 ELSE IF row[r].attempt < MaxAttempts THEN "queued" ELSE "failed"
             /\ row'[r].attempt = row[r].attempt
             /\ row'[r].result = IF r \in S /\ row[r].attempt >= MaxAttempts
                                 THEN row[r].attempt ELSE row[r].result
  BY DEF RowType, GiveUp
<1>3. Lifecycle!GiveUpAttempts(S)
  BY <1>1, <1>2 DEF Lifecycle!GiveUpAttempts
<1> QED
  BY <1>1, <1>3 DEF Lifecycle!Next

(* Every step of the servers is a step of the life cycle, or none.         *)
LEMMA LifecycleStep == IndInv /\ [Next]_vars => [Lifecycle!Next]_(Lifecycle!abstractVars)
<1> SUFFICES ASSUME IndInv, [Next]_vars
             PROVE  UNCHANGED row \/ Lifecycle!Next
  BY RowFrame
<1> USE IndInvParts, TypeParts
<1>1. ASSUME NEW v \in Servers, BootStep(v) \/ Exit(v) \/ Crash(v)
      PROVE  UNCHANGED row
  BY <1>1 DEF BootStep, Boot, buildSandboxPool, StartSandboxFails, LockMigrations,
     CheckMigration, RunMigration, CommitMigrations, buildPersistenceFails, RecoverAtStartupFails,
     Listen, ListenFails, Signal, shutdownDeadline, Shutdown, Exit, Crash
<1>2. ASSUME NEW v \in Servers, RowStep(v)
      PROVE  UNCHANGED row \/ Lifecycle!Next
  <2>1. CASE RecoverAtStartup(v) \/ RecoverExpired(v)
    BY <2>1, GiveUpSettles DEF RecoverAtStartup, RecoverExpired
  <2>2. ASSUME NEW q \in Requests, Dequeue(v, q)
        PROVE  Lifecycle!Next
    BY <2>2, DequeueStarts DEF Lifecycle!Next, DataInv
  <2> QED
    BY <1>2, <2>1, <2>2, ProcessSettles DEF RowStep, UpdateIsRefused
<1>3. ASSUME NEW q \in Requests, RequestStep(q)
      PROVE  UNCHANGED row \/ Lifecycle!Next
  <2>1. CASE SaveAdmitted(q) \/ SaveAdmittedFails(q)
    <3>1. row[q].status = "absent"
      BY <2>1 DEF SaveAdmitted, SaveAdmittedFails, DataInv, HandlerInv
    <3>2. UNCHANGED row \/ row' = [row EXCEPT ![q].status = "queued"]
      BY <2>1 DEF SaveAdmitted, SaveAdmittedFails
    <3>3. UNCHANGED row \/ Lifecycle!Admit(q)
      BY <3>1, <3>2, SavedIsAdmitted
    <3> QED
      BY <3>3 DEF Lifecycle!Next
  <2> QED
    BY <1>3, <2>1 DEF RequestStep, decodeAndValidateJudgeJob, pollSubmission,
       pollSubmissionFails, tick, submitTimeout, stopWaiting
<1>4. ASSUME NEW v \in Servers, NEW q \in Requests, acquireValidationSlot(q, v)
      PROVE  UNCHANGED row
  BY <1>4 DEF acquireValidationSlot
<1> QED
  BY <1>1, <1>2, <1>3, <1>4, NextSteps DEF vars

(* Seen from the API, with any number of servers, crashes and late         *)
(* workers, a submission lives the life SubmissionLifecycle promises.      *)
THEOREM Refinement == Spec => LifecycleSpec
<1>1. Init => Lifecycle!Init
  BY DEF Init, Lifecycle!Init
<1> QED
  BY <1>1, Invariance, LifecycleStep, PTL DEF Spec, LifecycleSpec, Lifecycle!Spec
=============================================================================
