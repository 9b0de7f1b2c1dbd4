------------------------- MODULE SubmissionLifecycle -------------------------
(***************************************************************************)
(* What the durable queue promises for every submission, whatever workers, *)
(* servers, leases and lost statements do: a submission is admitted once,  *)
(* is tried at most MaxAttempts times, one attempt at a time, and reaches  *)
(* at most one terminal status, whose result is the one of the attempt     *)
(* that was current when it was recorded.                                  *)
(*                                                                         *)
(* The status values are judge.SubmissionStatus (types.go); "absent" is a  *)
(* row that was never inserted.                                            *)
(***************************************************************************)
EXTENDS Naturals

CONSTANTS Submissions,   \* the submissions clients may create
          MaxAttempts    \* QUEUE_MAX_ATTEMPTS

VARIABLES status,    \* status column
          attempt,   \* attempt_count column
          result     \* the attempt the stored result belongs to, 0 for NULL

abstractVars == <<status, attempt, result>>

TerminalStatuses == {"finished", "failed"}
-----------------------------------------------------------------------------
Init ==
  /\ status  = [s \in Submissions |-> "absent"]
  /\ attempt = [s \in Submissions |-> 0]
  /\ result  = [s \in Submissions |-> 0]

Admit(s) ==
  /\ status[s] = "absent"
  /\ status' = [status EXCEPT ![s] = "queued"]
  /\ UNCHANGED <<attempt, result>>

Start(s) ==
  /\ status[s] = "queued"
  /\ attempt[s] < MaxAttempts
  /\ status'  = [status EXCEPT ![s] = "running"]
  /\ attempt' = [attempt EXCEPT ![s] = @ + 1]
  /\ UNCHANGED result

Settle(s, outcome) ==
  /\ status[s] = "running"
  /\ status' = [status EXCEPT ![s] = outcome]
  /\ result' = [result EXCEPT ![s] = attempt[s]]
  /\ UNCHANGED attempt

(* One recovery transaction gives up the current attempt of a set of       *)
(* submissions at once: retried while attempts are left, failed otherwise. *)
GiveUpAttempts(S) ==
  /\ \A s \in S : status[s] = "running"
  /\ status' = [s \in Submissions |->
                  IF s \notin S THEN status[s]
                  ELSE IF attempt[s] < MaxAttempts THEN "queued" ELSE "failed"]
  /\ result' = [s \in Submissions |->
                  IF s \in S /\ attempt[s] >= MaxAttempts THEN attempt[s] ELSE result[s]]
  /\ UNCHANGED attempt

Next ==
  \/ \E s \in Submissions : Admit(s) \/ Start(s)
  \/ \E s \in Submissions, outcome \in TerminalStatuses : Settle(s, outcome)
  \/ \E S \in SUBSET Submissions : GiveUpAttempts(S)

Spec == Init /\ [][Next]_abstractVars
=============================================================================
