----------------------------- MODULE SandboxPool -----------------------------
(***************************************************************************)
(* ExecutorSandboxPool (pool.go): the runtime sandboxes that submission    *)
(* workers borrow, the asynchronous Release that resets or replaces them,  *)
(* the goroutines that start replacements, and Close.                      *)
(*                                                                         *)
(* A sandbox is its container.  Each action is what a goroutine does       *)
(* between two points where another one can run: a channel operation, a    *)
(* critical section of p.mu, or a Docker command.                          *)
(***************************************************************************)
EXTENDS Naturals, Sequences, FiniteSets, SequencesExt

CONSTANTS Capacity,        \* SANDBOX_POOL_SIZE
          Borrowers,       \* submission workers
          MaxContainers,   \* bound: how many containers are ever started
          MaxFaults        \* bound: how often a sandbox or a Docker command fails

ASSUME CapacityAssumption   == Capacity \in Nat \ {0}
ASSUME ContainersAssumption == MaxContainers \in Nat /\ MaxContainers >= Capacity
ASSUME FaultsAssumption     == MaxFaults \in Nat
ASSUME BorrowersAssumption  == IsFiniteSet(Borrowers)

(* Containers are named by the order of their start.                       *)
Containers == 1..MaxContainers

VARIABLES
  \* fields of ExecutorSandboxPool; "closed" is closer # "open"
  available, all, starting,
  \* fields of Sandbox, as sets of sandboxes
  needsReplace, restarted,
  \* Docker
  exists,     \* containers that exist
  used,       \* names that were given out
  orphans,    \* containers whose start was cut off or whose removal failed
  dirty,      \* containers with files or processes of a submission
  \* goroutines
  pc, hold,   \* borrowers, and the sandbox each has in hand
  rel,        \* Release (or removeSandbox) of a sandbox
  repl, new,  \* replacement of a sandbox, and the sandbox that replaces it
  closer,     \* Close, and the process around it
  doomed,     \* what Close still has to remove
  faults

poolVars   == <<available, all, starting>>
flagVars   == <<needsReplace, restarted>>
dockerVars == <<exists, used, dirty, orphans>>
borrowVars == <<pc, hold>>
replVars   == <<repl, new>>
closeVars  == <<closer, doomed>>
vars == <<poolVars, flagVars, dockerVars, borrowVars, rel, replVars, closeVars, faults>>

None == 0

TypeOK ==
  /\ available \in Seq(Containers)
  /\ {all, needsReplace, restarted, exists, used, dirty, orphans, doomed} \subseteq SUBSET Containers
  /\ starting \in Nat
  /\ pc \in [Borrowers -> {"idle", "acquiring", "received", "configuring", "holding", "failing"}]
  /\ hold \in [Borrowers -> Containers \cup {None}]
  /\ rel \in [Containers -> {"none", "check", "resetting", "replace", "replaceRm", "spawn", "register",
                             "returning", "remove", "rm"}]
  /\ repl \in [Containers -> {"none", "arming", "waiting", "launching", "started",
                              "counted", "added", "rm"}]
  /\ new \in [Containers -> Containers \cup {None}]
  /\ closer \in {"open", "waiting", "collecting", "removing", "closed", "exited"}
  /\ faults \in 0..MaxFaults

Init ==
  /\ available = [i \in 1..Capacity |-> i]
  /\ all = 1..Capacity
  /\ starting = 0
  /\ needsReplace = {} /\ restarted = {}
  /\ exists = 1..Capacity /\ used = 1..Capacity /\ dirty = {} /\ orphans = {}
  /\ pc = [b \in Borrowers |-> "idle"]
  /\ hold = [b \in Borrowers |-> None]
  /\ rel = [c \in Containers |-> "none"]
  /\ repl = [c \in Containers |-> "none"]
  /\ new = [c \in Containers |-> None]
  /\ closer = "open" /\ doomed = {}
  /\ faults = 0

Closed == closer # "open"
Alive  == closer # "exited"

Fault == faults < MaxFaults /\ faults' = faults + 1

Goto(b, l) == pc' = [pc EXCEPT ![b] = l]
(* docker rm -f; its error is ignored.                                     *)
RemoveSandbox(c) ==
  \/ exists' = exists \ {c} /\ UNCHANGED <<orphans, faults>>
  \/ Fault /\ orphans' = orphans \cup {c} /\ UNCHANGED exists

RelGoto(c, l) == rel' = [rel EXCEPT ![c] = l]
-----------------------------------------------------------------------------
(* Acquire, and what a worker does with the sandbox.                       *)

StartAcquire(b) ==
  /\ Alive /\ pc[b] = "idle"
  /\ Goto(b, "acquiring")
  /\ UNCHANGED <<poolVars, flagVars, dockerVars, hold, rel, replVars, closeVars, faults>>

AcquireReceives(b) ==
  /\ Alive /\ pc[b] = "acquiring"
  /\ available # <<>>
  /\ hold' = [hold EXCEPT ![b] = Head(available)]
  /\ available' = Tail(available)
  /\ Goto(b, "received")
  /\ UNCHANGED <<all, starting, flagVars, dockerVars, rel, replVars, closeVars, faults>>

(* The pool is closed, or the context of the submission is cancelled.      *)
AcquireGivesUp(b) ==
  /\ Alive /\ pc[b] = "acquiring"
  /\ Goto(b, "idle")
  /\ UNCHANGED <<poolVars, flagVars, dockerVars, hold, rel, replVars, closeVars, faults>>

AcquireChecksClosed(b) ==
  /\ Alive /\ pc[b] = "received"
  /\ IF Closed
       THEN Goto(b, "failing") /\ RelGoto(hold[b], "remove")
       ELSE Goto(b, "configuring") /\ UNCHANGED rel
  /\ UNCHANGED <<poolVars, flagVars, dockerVars, hold, replVars, closeVars, faults>>

ConfigureOk(b) ==
  /\ Alive /\ pc[b] = "configuring"
  /\ hold[b] \in exists
  /\ Goto(b, "holding")
  /\ UNCHANGED <<poolVars, flagVars, dockerVars, hold, rel, replVars, closeVars, faults>>

(* Mutant: the sandbox that was released is returned to the worker too.    *)
ConfigureFailsReturnsIt(b) ==
  /\ Alive /\ pc[b] = "configuring"
  /\ Fault
  /\ needsReplace' = needsReplace \cup {hold[b]}
  /\ Goto(b, "holding")
  /\ RelGoto(hold[b], "check")
  /\ UNCHANGED <<poolVars, restarted, dockerVars, hold, replVars, closeVars>>

(* docker update fails or is cancelled, or the container is gone.          *)
ConfigureFails(b) ==
  /\ Alive /\ pc[b] = "configuring"
  /\ IF hold[b] \in exists THEN Fault ELSE UNCHANGED faults
  /\ needsReplace' = needsReplace \cup {hold[b]}
  /\ Goto(b, "failing")
  /\ RelGoto(hold[b], "check")
  /\ UNCHANGED <<poolVars, restarted, dockerVars, hold, replVars, closeVars>>

(* Acquire returns its error once its own Release or removal has returned. *)
AcquireReturnsError(b) ==
  /\ Alive /\ pc[b] = "failing"
  /\ rel[hold[b]] = "none"
  /\ Goto(b, "idle")
  /\ hold' = [hold EXCEPT ![b] = None]
  /\ UNCHANGED <<poolVars, flagVars, dockerVars, rel, replVars, closeVars, faults>>

(* The deferred "go s.pool.Release(sandbox)" of ProcessSubmission.         *)
GoRelease(b) ==
  /\ Alive /\ pc[b] = "holding"
  /\ Goto(b, "idle")
  /\ hold' = [hold EXCEPT ![b] = None]
  /\ RelGoto(hold[b], "check")

(* The submission was staged and ran, or failed on the way.                *)
UseAndRelease(b) ==
  /\ GoRelease(b)
  /\ dirty' = dirty \cup {hold[b]}
  /\ UNCHANGED <<poolVars, flagVars, exists, used, orphans, replVars, closeVars, faults>>

(* RunTestCases was interrupted and restarted the container itself.        *)
UseRestartsAndRelease(b) ==
  /\ GoRelease(b)
  /\ hold[b] \in exists
  /\ dirty' = dirty \ {hold[b]}
  /\ restarted' = restarted \cup {hold[b]}
  /\ UNCHANGED <<poolVars, needsReplace, exists, used, orphans, replVars, closeVars, faults>>

(* RunTestCases could not trust the sandbox any more.                      *)
UseBreaksAndRelease(b) ==
  /\ GoRelease(b)
  /\ Fault
  /\ dirty' = dirty \cup {hold[b]}
  /\ needsReplace' = needsReplace \cup {hold[b]}
  /\ UNCHANGED <<poolVars, restarted, exists, used, orphans, replVars, closeVars>>
-----------------------------------------------------------------------------
(* Release, returnSandbox and removeSandbox.                               *)

(* Mutant: the restarted flag stays set.                                   *)
AfterRestartKeepsFlag(c) ==
  /\ RelGoto(c, "returning")
  /\ UNCHANGED <<needsReplace, restarted>>

(* A sandbox that was just restarted need not be reset again.              *)
AfterRestart(c) ==
  /\ RelGoto(c, "returning")
  /\ restarted' = restarted \ {c}
  /\ UNCHANGED needsReplace

ReleaseDecides(c) ==
  /\ Alive /\ rel[c] = "check"
  /\ \/ /\ Closed
        /\ RelGoto(c, "remove")
        /\ UNCHANGED flagVars
     \/ /\ ~Closed /\ c \in needsReplace
        /\ RelGoto(c, "replace")
        /\ needsReplace' = needsReplace \ {c}
        /\ UNCHANGED restarted
     \/ /\ ~Closed /\ c \notin needsReplace /\ c \in restarted
        /\ AfterRestart(c)
     \/ /\ ~Closed /\ c \notin needsReplace /\ c \notin restarted
        /\ RelGoto(c, "resetting")
        /\ UNCHANGED flagVars
  /\ UNCHANGED <<poolVars, dockerVars, borrowVars, replVars, closeVars, faults>>

ResetOk(c) ==
  /\ Alive /\ rel[c] = "resetting"
  /\ c \in exists
  /\ dirty' = dirty \ {c}
  /\ RelGoto(c, "returning")
  /\ UNCHANGED <<poolVars, flagVars, exists, used, orphans, borrowVars, replVars, closeVars, faults>>

ResetFails(c) ==
  /\ Alive /\ rel[c] = "resetting"
  /\ IF c \in exists THEN Fault ELSE UNCHANGED faults
  /\ RelGoto(c, "replace")
  /\ UNCHANGED <<poolVars, flagVars, dockerVars, borrowVars, replVars, closeVars>>

(* returnSandbox: with both channels ready, select takes either.           *)
ReturnSends(c) ==
  /\ Alive /\ rel[c] = "returning"
  /\ Len(available) < Capacity
  /\ available' = Append(available, c)
  /\ RelGoto(c, "none")
  /\ UNCHANGED <<all, starting, flagVars, dockerVars, borrowVars, replVars, closeVars, faults>>

ReturnSeesClosed(c) ==
  /\ Alive /\ rel[c] = "returning"
  /\ Closed
  /\ RelGoto(c, "remove")
  /\ UNCHANGED <<poolVars, flagVars, dockerVars, borrowVars, replVars, closeVars, faults>>

(* removeSandbox first forgets the sandbox, then removes the container;    *)
(* replace does the same before it starts a replacement.                   *)
RemoveForgets(c) ==
  /\ Alive /\ rel[c] \in {"remove", "replace"}
  /\ all' = all \ {c}
  /\ RelGoto(c, IF rel[c] = "remove" THEN "rm" ELSE "replaceRm")
  /\ UNCHANGED <<available, starting, flagVars, dockerVars, borrowVars, replVars, closeVars, faults>>

RemoveContainer(c) ==
  /\ Alive /\ rel[c] \in {"rm", "replaceRm"}
  /\ RemoveSandbox(c)
  /\ RelGoto(c, IF rel[c] = "rm" THEN "none" ELSE "spawn")
  /\ UNCHANGED <<poolVars, flagVars, used, dirty, borrowVars, replVars, closeVars>>
-----------------------------------------------------------------------------
(* replace: the replacement goroutine.                                     *)

(* Close does not take p.mu, so the pool may be closed between this check  *)
(* and the registration of the goroutine with replaceWG.                   *)
SpawnChecksClosed(c) ==
  /\ Alive /\ rel[c] = "spawn"
  /\ RelGoto(c, IF Closed THEN "none" ELSE "register")
  /\ UNCHANGED <<poolVars, flagVars, dockerVars, borrowVars, replVars, closeVars, faults>>

(* Mutant: replace does not start anything in place of what it removed.    *)
SpawnForgotten(c) ==
  /\ Alive /\ rel[c] = "register"
  /\ RelGoto(c, "none")
  /\ UNCHANGED <<poolVars, flagVars, dockerVars, borrowVars, replVars, closeVars, faults>>

Spawn(c) ==
  /\ Alive /\ rel[c] = "register"
  /\ RelGoto(c, "none")
  /\ starting' = starting + 1
  /\ repl' = [repl EXCEPT ![c] = "arming"]
  /\ UNCHANGED <<available, all, flagVars, dockerVars, borrowVars, new, closeVars, faults>>

ReplGoto(c, l) == repl' = [repl EXCEPT ![c] = l]

(* The goroutine ends early; its deferred function decrements starting.    *)
ReplacementLeaves(c) ==
  /\ Alive /\ repl[c] \in {"arming", "waiting"}
  /\ Closed
  /\ ReplGoto(c, "none")
  /\ starting' = starting - 1
  /\ UNCHANGED <<available, all, flagVars, dockerVars, borrowVars, rel, new, closeVars, faults>>

(* The select is entered: its 500 ms timer cannot be ready yet.            *)
ReplacementWaits(c) ==
  /\ Alive /\ repl[c] = "arming"
  /\ ~Closed
  /\ ReplGoto(c, "waiting")
  /\ UNCHANGED <<poolVars, flagVars, dockerVars, borrowVars, rel, new, closeVars, faults>>

TimerFires(c) ==
  /\ Alive /\ repl[c] = "waiting"
  /\ ReplGoto(c, "launching")
  /\ UNCHANGED <<poolVars, flagVars, dockerVars, borrowVars, rel, new, closeVars, faults>>

Unused == Containers \ used
FreshName == CHOOSE c \in Unused : \A d \in Unused : c <= d

StartSandboxOk(c) ==
  /\ Alive /\ repl[c] = "launching"
  /\ Unused # {}
  /\ exists' = exists \cup {FreshName}
  /\ used' = used \cup {FreshName}
  /\ new' = [new EXCEPT ![c] = FreshName]
  /\ ReplGoto(c, "started")
  /\ UNCHANGED <<poolVars, flagVars, dirty, orphans, borrowVars, rel, closeVars, faults>>

(* Mutant: a failed start is not tried again.                              *)
StartSandboxFailsForGood(c) ==
  /\ Alive /\ repl[c] = "launching"
  /\ ReplGoto(c, "none")
  /\ starting' = starting - 1
  /\ UNCHANGED <<available, all, flagVars, dockerVars, borrowVars, rel, new, closeVars, faults>>

(* docker run fails, or the sandbox never gets ready and is removed.       *)
StartSandboxFails(c) ==
  /\ Alive /\ repl[c] = "launching"
  /\ ReplGoto(c, "arming")
  /\ UNCHANGED <<poolVars, flagVars, dockerVars, borrowVars, rel, new, closeVars, faults>>

(* docker run is killed at its deadline after the daemon has made the      *)
(* container: StartSandbox returns the error and forgets the name.         *)
StartSandboxTimesOut(c) ==
  /\ Alive /\ repl[c] = "launching"
  /\ Fault
  /\ Unused # {}
  /\ exists' = exists \cup {FreshName}
  /\ used' = used \cup {FreshName}
  /\ orphans' = orphans \cup {FreshName}
  /\ ReplGoto(c, "arming")
  /\ UNCHANGED <<poolVars, flagVars, dirty, borrowVars, rel, new, closeVars>>

CountStarted(c) ==
  /\ Alive /\ repl[c] = "started"
  /\ starting' = starting - 1
  /\ ReplGoto(c, "counted")
  /\ UNCHANGED <<available, all, flagVars, dockerVars, borrowVars, rel, new, closeVars, faults>>

AddSandbox(c) ==
  /\ Alive /\ repl[c] = "counted"
  /\ all' = all \cup {new[c]}
  /\ ReplGoto(c, "added")
  /\ UNCHANGED <<available, starting, flagVars, dockerVars, borrowVars, rel, new, closeVars, faults>>

(* Mutant: the deferred function decrements starting a second time.        *)
ReplacementSendsUncounts(c) ==
  /\ Alive /\ repl[c] = "added"
  /\ Len(available) < Capacity
  /\ available' = Append(available, new[c])
  /\ starting' = starting - 1
  /\ ReplGoto(c, "none")
  /\ UNCHANGED <<all, flagVars, dockerVars, borrowVars, rel, new, closeVars, faults>>

(* returnSandbox for the replacement; it ends the goroutine.               *)
ReplacementSends(c) ==
  /\ Alive /\ repl[c] = "added"
  /\ Len(available) < Capacity
  /\ available' = Append(available, new[c])
  /\ ReplGoto(c, "none")
  /\ UNCHANGED <<all, starting, flagVars, dockerVars, borrowVars, rel, new, closeVars, faults>>

ReplacementForgets(c) ==
  /\ Alive /\ repl[c] = "added"
  /\ Closed
  /\ all' = all \ {new[c]}
  /\ ReplGoto(c, "rm")
  /\ UNCHANGED <<available, starting, flagVars, dockerVars, borrowVars, rel, new, closeVars, faults>>

ReplacementRemoved(c) ==
  /\ Alive /\ repl[c] = "rm"
  /\ RemoveSandbox(new[c])
  /\ ReplGoto(c, "none")
  /\ UNCHANGED <<poolVars, flagVars, used, dirty, borrowVars, rel, new, closeVars>>
-----------------------------------------------------------------------------
(* Close, and the end of the process after it.                             *)

CloseBegins ==
  /\ closer = "open"
  /\ closer' = "waiting"
  /\ UNCHANGED <<poolVars, flagVars, dockerVars, borrowVars, rel, replVars, doomed, faults>>

(* Mutant: Close does not wait for the replacement goroutines.             *)
NoWait == TRUE

ReplacementsDone == \A c \in Containers : repl[c] = "none"

CloseWaited ==
  /\ closer = "waiting"
  /\ ReplacementsDone
  /\ closer' = "collecting"
  /\ UNCHANGED <<poolVars, flagVars, dockerVars, borrowVars, rel, replVars, doomed, faults>>

(* Mutant: Close drains the channel instead of collecting p.all.           *)
CloseDrains ==
  /\ closer = "collecting"
  /\ doomed' = ToSet(available)
  /\ all' = {}
  /\ closer' = "removing"
  /\ UNCHANGED <<available, starting, flagVars, dockerVars, borrowVars, rel, replVars, faults>>

CloseCollects ==
  /\ closer = "collecting"
  /\ doomed' = all
  /\ all' = {}
  /\ closer' = "removing"
  /\ UNCHANGED <<available, starting, flagVars, dockerVars, borrowVars, rel, replVars, faults>>

CloseRemoves(c) ==
  /\ closer = "removing"
  /\ c \in doomed
  /\ doomed' = doomed \ {c}
  /\ RemoveSandbox(c)
  /\ UNCHANGED <<poolVars, flagVars, used, dirty, borrowVars, rel, replVars, closer>>

CloseReturns ==
  /\ closer = "removing"
  /\ doomed = {}
  /\ closer' = "closed"
  /\ UNCHANGED <<poolVars, flagVars, dockerVars, borrowVars, rel, replVars, doomed, faults>>

(* main returns after runtimePool.Close: no goroutine takes another step.  *)
ProcessExits ==
  /\ closer = "closed"
  /\ closer' = "exited"
  /\ UNCHANGED <<poolVars, flagVars, dockerVars, borrowVars, rel, replVars, doomed, faults>>
-----------------------------------------------------------------------------
Borrow(b) ==
  \/ StartAcquire(b) \/ AcquireReceives(b) \/ AcquireGivesUp(b) \/ AcquireChecksClosed(b)
  \/ ConfigureOk(b) \/ ConfigureFails(b) \/ AcquireReturnsError(b)
  \/ UseAndRelease(b) \/ UseRestartsAndRelease(b) \/ UseBreaksAndRelease(b)

Release(c) ==
  \/ ReleaseDecides(c) \/ ResetOk(c) \/ ResetFails(c)
  \/ ReturnSends(c) \/ ReturnSeesClosed(c)
  \/ RemoveForgets(c) \/ RemoveContainer(c) \/ SpawnChecksClosed(c) \/ Spawn(c)

Replace(c) ==
  \/ ReplacementLeaves(c) \/ ReplacementWaits(c) \/ TimerFires(c)
  \/ StartSandboxOk(c) \/ StartSandboxFails(c) \/ StartSandboxTimesOut(c)
  \/ CountStarted(c) \/ AddSandbox(c)
  \/ ReplacementSends(c) \/ ReplacementForgets(c) \/ ReplacementRemoved(c)

CloseStep ==
  CloseWaited \/ CloseCollects \/ CloseReturns \/ \E c \in Containers : CloseRemoves(c)

Next ==
  \/ \E b \in Borrowers : Borrow(b)
  \/ \E c \in Containers : Release(c) \/ Replace(c)
  \/ CloseBegins \/ CloseStep \/ ProcessExits

Spec == Init /\ [][Next]_vars

(* Goroutines are scheduled, Docker commands end, and a replacement that   *)
(* is tried again and again is started some time.                          *)
Fairness ==
  /\ \A b \in Borrowers :
       /\ WF_vars(AcquireReceives(b) \/ AcquireGivesUp(b))
       /\ WF_vars(AcquireChecksClosed(b) \/ ConfigureOk(b) \/ ConfigureFails(b)
              \/ AcquireReturnsError(b))
       /\ WF_vars(UseAndRelease(b))
  /\ \A c \in Containers :
       /\ WF_vars(Release(c))
       /\ WF_vars(Replace(c))
       /\ SF_vars(StartSandboxOk(c))
  /\ WF_vars(CloseStep)

FairSpec == Spec /\ Fairness
-----------------------------------------------------------------------------
HeldBy(b) == IF pc[b] \in {"received", "configuring", "holding"} THEN {hold[b]} ELSE {}

(* No sandbox is ever with two submissions, or with one and back in the    *)
(* channel, or being released while someone uses it.                       *)
NoSharedSandbox ==
  /\ IsInjective(available)
  /\ \A b \in Borrowers : \A c \in HeldBy(b) :
       /\ c \notin ToSet(available)
       /\ rel[c] = "none"
       /\ \A a \in Borrowers \ {b} : c \notin HeldBy(a)
  /\ \A c \in ToSet(available) : rel[c] = "none"

(* Until Close, each of the Capacity slots is in exactly one place: in the *)
(* channel, borrowed, being released, or being replaced.  So no failure    *)
(* shrinks the pool for good, and returnSandbox never blocks on a full     *)
(* channel.  The counter that Ready and Stats read stays, at all times,    *)
(* the number of replacements under way.                                   *)
SlotsConserved ==
  /\ ~Closed =>
       Capacity = Len(available)
                + Cardinality({b \in Borrowers : HeldBy(b) # {}})
                + Cardinality({c \in Containers : rel[c] # "none"})
                + Cardinality({c \in Containers : repl[c] # "none"})
  /\ starting = Cardinality({c \in Containers : repl[c] \in {"arming", "waiting", "launching", "started"}})

(* What the next submission gets carries nothing of the one before: every  *)
(* sandbox in the channel was reset, restarted or newly started.           *)
AvailableIsClean == ToSet(available) \cap dirty = {}

(* Every step of the pool is one of lending: a sandbox goes to one worker  *)
(* at a time, and back into the channel only when it is clean.             *)
Lending == INSTANCE SandboxLending WITH
  Sandboxes <- Containers, ready <- ToSet(available),
  lent <- [b \in Borrowers |-> HeldBy(b)], soiled <- dirty

LendingSpec == Lending!Spec

(* When Close has returned, every container the pool ever learned of is    *)
(* gone or is just being removed by a Release: neither a replacement that  *)
(* was on its way nor a sandbox that was sent to the channel after the     *)
(* closing is forgotten.                                                   *)
NothingForgotten ==
  closer \in {"closed", "exited"} => \A c \in exists \ orphans : rel[c] \in {"rm", "replaceRm"}

(* Close ends although replacements are under way, and from then on every  *)
(* container it knows of goes, unless the process ends first.              *)
CloseRemovesAll == closer = "waiting" ~> (exists \subseteq orphans \/ closer = "exited")

(* A sandbox that is to be replaced gets a replacement that reaches the    *)
(* channel, however often starting one fails, unless the pool closes.      *)
CapacityComesBack ==
  \A c \in Containers : rel[c] = "replace" ~> (Closed \/ new[c] \in ToSet(available))

(* Sandboxes the pool has known: the first ones and every replacement that *)
(* StartSandbox returned.                                                  *)
Known == 1..Capacity \cup {new[c] : c \in Containers}

(* Comment of Close: it "removes every sandbox currently owned by the      *)
(* pool, including replacements that were still being provisioned".  Only  *)
(* a failed docker rm excuses a container that is left.                    *)
ProvisionedIsRemoved ==
  closer = "closed" =>
    \A c \in exists : rel[c] \in {"rm", "replaceRm"} \/ c \in orphans \cap Known

(* docs/operations.md on graceful shutdown: "workers are awaited, and      *)
(* pool-owned sandbox containers are removed".  It is asked of an exit     *)
(* before which every worker had ended, and no docker rm failed.           *)
ExitLeavesNoContainer ==
  closer = "exited" /\ (\A b \in Borrowers : pc[b] = "idle") => exists \subseteq orphans
-----------------------------------------------------------------------------
(* The inductive invariant (SandboxPoolProofs).                            *)

(* A worker with a sandbox in hand, and a goroutine with a new one.        *)
Holds(b)    == pc[b] \in {"received", "configuring", "holding"}
Arriving(c) == repl[c] \in {"started", "counted", "added", "rm"}

(* A sandbox is in one place at a time: the channel, a worker, a Release,  *)
(* the goroutine that started it, or the one that replaces it.             *)
PlacesInv ==
  /\ IsInjective(available)
  /\ \A c \in ToSet(available) : c \in used /\ rel[c] = "none" /\ repl[c] = "none"
  /\ \A b \in Borrowers : Holds(b) =>
       /\ hold[b] \in used /\ hold[b] \notin ToSet(available)
       /\ rel[hold[b]] = "none" /\ repl[hold[b]] = "none"
  /\ \A a, b \in Borrowers : Holds(a) /\ Holds(b) /\ hold[a] = hold[b] => a = b
  /\ \A c \in Containers : rel[c] # "none" => c \in used /\ repl[c] = "none"
  /\ \A c \in Containers : repl[c] # "none" => c \in used
  /\ \A c \in Containers : Arriving(c) =>
       /\ new[c] \in used /\ new[c] \notin ToSet(available)
       /\ rel[new[c]] = "none" /\ repl[new[c]] = "none"
       /\ \A b \in Borrowers : Holds(b) => hold[b] # new[c]
  /\ \A c, d \in Containers : Arriving(c) /\ Arriving(d) /\ new[c] = new[d] => c = d

(* Where files of a submission may be, and when a restart excuses a reset. *)
CleanInv ==
  /\ dirty \cup restarted \subseteq used
  /\ \A c \in ToSet(available) : c \notin dirty \cup restarted
  /\ \A b \in Borrowers : Holds(b) => hold[b] \notin restarted
  /\ \A c \in Containers :
       /\ rel[c] = "returning" => c \notin dirty \cup restarted
       /\ rel[c] = "resetting" => c \notin restarted
       /\ rel[c] = "check" /\ c \in restarted => c \notin dirty
       /\ Arriving(c) => new[c] \notin dirty \cup restarted

(* What can only happen once the pool is closed, and what no longer can.   *)
CloseInv ==
  /\ \A c \in Containers : rel[c] \in {"remove", "rm"} \/ repl[c] = "rm" => Closed
  /\ closer \in {"collecting", "removing", "closed", "exited"} =>
       \A c \in Containers : repl[c] \in {"none", "arming"}
  /\ closer \in {"removing", "closed", "exited"} => all = {}
  /\ closer # "removing" => doomed = {}

(* Somebody is in charge of every container that should be removed.        *)
ChargeInv ==
  \A c \in exists \ orphans :
    \/ c \in all \cup doomed
    \/ rel[c] \in {"rm", "replaceRm"}
    \/ \E d \in Containers : repl[d] \in {"started", "counted", "rm"} /\ new[d] = c

IndInv == TypeOK /\ PlacesInv /\ CleanInv /\ CloseInv /\ ChargeInv /\ SlotsConserved
=============================================================================
