------------------------- MODULE SandboxPoolProofs -------------------------
(***************************************************************************)
(* Proofs about SandboxPool, for any capacity, any finite set of workers   *)
(* and any number of containers and failures.                              *)
(***************************************************************************)
EXTENDS SandboxPool, FiniteSetTheorems, NumberTheorems, TLAPS

-----------------------------------------------------------------------------
(* Sequences and names.                                                    *)

(* What sending to the channel does.                                       *)
LEMMA Sending ==
  ASSUME NEW S, NEW q \in Seq(S), NEW e \in S
  PROVE  /\ Append(q, e) \in Seq(S) /\ Len(Append(q, e)) = Len(q) + 1 /\ Len(q) \in Nat
         /\ ToSet(Append(q, e)) = ToSet(q) \cup {e}
         /\ IsInjective(q) /\ e \notin ToSet(q) => IsInjective(Append(q, e))
<1>1. /\ Append(q, e) \in Seq(S) /\ Len(Append(q, e)) = Len(q) + 1 /\ Len(q) \in Nat
      /\ DOMAIN q = 1..Len(q) /\ DOMAIN Append(q, e) = 1..(Len(q) + 1)
      /\ Append(q, e)[Len(q) + 1] = e
      /\ \A i \in 1..Len(q) : Append(q, e)[i] = q[i]
  OBVIOUS
<1>2. 1..(Len(q) + 1) = (1..Len(q)) \cup {Len(q) + 1}
  BY <1>1
<1>3. ToSet(Append(q, e)) = ToSet(q) \cup {e}
  BY <1>1, <1>2 DEF ToSet
<1>4. ASSUME IsInjective(q), e \notin ToSet(q)
      PROVE  IsInjective(Append(q, e))
  <2>1. \A i \in 1..Len(q) : q[i] # e
    BY <1>1, <1>4 DEF ToSet
  <2>2. \A i, j \in 1..Len(q) : q[i] = q[j] => i = j
    BY <1>1, <1>4 DEF IsInjective
  <2>3. \A i, j \in 1..(Len(q) + 1) : Append(q, e)[i] = Append(q, e)[j] => i = j
    BY <1>1, <1>2, <2>1, <2>2
  <2> QED
    BY <1>1, <2>3 DEF IsInjective
<1> QED
  BY <1>1, <1>3, <1>4

(* What receiving from it does.                                            *)
LEMMA Receiving ==
  ASSUME NEW S, NEW q \in Seq(S), q # <<>>, IsInjective(q)
  PROVE  /\ Head(q) \in ToSet(q) /\ Head(q) \in S
         /\ Tail(q) \in Seq(S) /\ Len(Tail(q)) = Len(q) - 1 /\ Len(q) \in Nat
         /\ ToSet(Tail(q)) = ToSet(q) \ {Head(q)}
         /\ IsInjective(Tail(q))
<1>1. /\ Tail(q) \in Seq(S) /\ Len(Tail(q)) = Len(q) - 1 /\ Len(q) \in Nat /\ Len(q) > 0
      /\ DOMAIN q = 1..Len(q) /\ DOMAIN Tail(q) = 1..(Len(q) - 1)
      /\ Head(q) = q[1] /\ q[1] \in S
      /\ \A i \in 1..(Len(q) - 1) : Tail(q)[i] = q[i + 1]
  OBVIOUS
<1>2. \A i, j \in 1..Len(q) : q[i] = q[j] => i = j
  BY <1>1 DEF IsInjective
<1>3. Head(q) \in ToSet(q)
  BY <1>1 DEF ToSet
<1>4. \A i, j \in 1..(Len(q) - 1) : Tail(q)[i] = Tail(q)[j] => i = j
  BY <1>1, <1>2
<1>5. IsInjective(Tail(q))
  BY <1>1, <1>4 DEF IsInjective
<1>6. ASSUME NEW x \in ToSet(Tail(q))
      PROVE  x \in ToSet(q) /\ x # Head(q)
  <2>1. PICK i \in 1..(Len(q) - 1) : x = Tail(q)[i]
    BY <1>1 DEF ToSet
  <2>2. i + 1 \in 1..Len(q) /\ 1 \in 1..Len(q) /\ i + 1 # 1 /\ x = q[i + 1]
    BY <1>1, <2>1
  <2> QED
    BY <1>1, <1>2, <2>2 DEF ToSet
<1>7. ASSUME NEW x \in ToSet(q), x # Head(q)
      PROVE  x \in ToSet(Tail(q))
  <2>1. PICK i \in 1..Len(q) : x = q[i]
    BY <1>1 DEF ToSet
  <2>2. i # 1
    BY <1>1, <1>7, <2>1
  <2>3. i - 1 \in 1..(Len(q) - 1) /\ (i - 1) + 1 = i
    BY <1>1, <2>2
  <2>4. x = Tail(q)[i - 1]
    BY <1>1, <2>1, <2>3
  <2> QED
    BY <1>1, <2>3, <2>4 DEF ToSet
<1> QED
  BY <1>1, <1>3, <1>5, <1>6, <1>7

(* A container that is started gets a name nobody had.                     *)
LEMMA FreshIsUnused ==
  ASSUME Unused # {}
  PROVE  FreshName \in Containers /\ FreshName \notin used
<1>1. Unused \in SUBSET Nat
  BY ContainersAssumption DEF Unused, Containers
<1>2. \E c \in Unused : \A d \in Unused : c <= d
  BY <1>1, LeastNatural
<1>3. FreshName \in Unused
  BY <1>2 DEF FreshName
<1> QED
  BY <1>3 DEF Unused

USE DEF poolVars, flagVars, dockerVars, borrowVars, replVars, closeVars, Goto, RelGoto, ReplGoto

-----------------------------------------------------------------------------
(* A sandbox is in one place at a time.                                    *)

(* No place gains a sandbox, and no name is given back.                    *)
PlacesShrink ==
  /\ available' = available /\ used \subseteq used'
  /\ \A b \in Borrowers : Holds(b)' => Holds(b) /\ hold'[b] = hold[b]
  /\ \A c \in Containers : rel'[c] # "none" => rel[c] # "none"
  /\ \A c \in Containers : repl'[c] # "none" => repl[c] # "none"
  /\ \A c \in Containers : Arriving(c)' => Arriving(c) /\ new'[c] = new[c]

(* Places that only lose sandboxes stay apart.                             *)
LEMMA ShrinkingKeepsPlaces ==
  ASSUME TypeOK, PlacesInv, PlacesShrink
  PROVE  PlacesInv'
<1>1. used \subseteq Containers
  BY DEF TypeOK
<1>2. /\ IsInjective(available)'
      /\ \A c \in ToSet(available') : c \in used' /\ rel'[c] = "none" /\ repl'[c] = "none"
  BY <1>1 DEF PlacesInv, PlacesShrink
<1>3. \A b \in Borrowers : Holds(b)' =>
        /\ hold'[b] \in used' /\ hold'[b] \notin ToSet(available')
        /\ rel'[hold'[b]] = "none" /\ repl'[hold'[b]] = "none"
  BY <1>1 DEF PlacesInv, PlacesShrink
<1>4. \A a, b \in Borrowers : Holds(a)' /\ Holds(b)' /\ hold'[a] = hold'[b] => a = b
  BY DEF PlacesInv, PlacesShrink
<1>5. /\ \A c \in Containers : rel'[c] # "none" => c \in used' /\ repl'[c] = "none"
      /\ \A c \in Containers : repl'[c] # "none" => c \in used'
  BY DEF PlacesInv, PlacesShrink
<1>6. \A c \in Containers : Arriving(c)' =>
        /\ new'[c] \in used' /\ new'[c] \notin ToSet(available')
        /\ rel'[new'[c]] = "none" /\ repl'[new'[c]] = "none"
        /\ \A b \in Borrowers : Holds(b)' => hold'[b] # new'[c]
  BY <1>1 DEF PlacesInv, PlacesShrink
<1>7. \A c, d \in Containers : Arriving(c)' /\ Arriving(d)' /\ new'[c] = new'[d] => c = d
  BY DEF PlacesInv, PlacesShrink
<1> QED
  BY <1>2, <1>3, <1>4, <1>5, <1>6, <1>7 DEF PlacesInv

(* Steps of a worker that take nothing.                                    *)
LEMMA WorkerShrinks ==
  ASSUME TypeOK, NEW b \in Borrowers,
         \/ StartAcquire(b) \/ AcquireGivesUp(b) \/ ConfigureOk(b) \/ AcquireReturnsError(b)
         \/ AcquireChecksClosed(b) /\ ~Closed
  PROVE  PlacesShrink
<1>1. /\ UNCHANGED <<available, used, rel, repl, new>>
      /\ pc' = [pc EXCEPT ![b] = pc'[b]]
      /\ \A a \in Borrowers \ {b} : hold'[a] = hold[a]
      /\ Holds(b)' => Holds(b) /\ hold'[b] = hold[b]
  BY DEF TypeOK, StartAcquire, AcquireGivesUp, ConfigureOk, AcquireReturnsError, AcquireChecksClosed, Holds
<1>2. \A a \in Borrowers : Holds(a)' => Holds(a) /\ hold'[a] = hold[a]
  BY <1>1 DEF TypeOK, Holds
<1> QED
  BY <1>1, <1>2 DEF PlacesShrink, Arriving

(* Steps of a Release that put nothing back.                               *)
LEMMA ReleaseShrinks ==
  ASSUME TypeOK, NEW c \in Containers,
         \/ ReleaseDecides(c) \/ ResetOk(c) \/ ResetFails(c) \/ ReturnSeesClosed(c)
         \/ RemoveForgets(c) \/ RemoveContainer(c) \/ SpawnChecksClosed(c)
  PROVE  PlacesShrink
<1>1. /\ UNCHANGED <<available, used, pc, hold, repl, new>>
      /\ \A d \in Containers : rel'[d] # "none" => rel[d] # "none"
  BY DEF TypeOK, ReleaseDecides, AfterRestart, ResetOk, ResetFails, ReturnSeesClosed, RemoveForgets,
     RemoveContainer, SpawnChecksClosed
<1> QED
  BY <1>1 DEF PlacesShrink, Holds, Arriving

(* Steps of a replacement that bring nothing new.                          *)
LEMMA ReplacementShrinks ==
  ASSUME TypeOK, NEW c \in Containers,
         \/ ReplacementLeaves(c) \/ ReplacementWaits(c) \/ TimerFires(c) \/ StartSandboxFails(c)
         \/ StartSandboxTimesOut(c) \/ CountStarted(c) \/ AddSandbox(c)
         \/ ReplacementForgets(c) \/ ReplacementRemoved(c)
  PROVE  PlacesShrink
<1>1. UNCHANGED <<available, pc, hold, rel, new>> /\ used \subseteq used'
  BY DEF ReplacementLeaves, ReplacementWaits, TimerFires, StartSandboxFails, StartSandboxTimesOut,
     CountStarted, AddSandbox, ReplacementForgets, ReplacementRemoved
<1>2. /\ \A d \in Containers : repl'[d] # "none" => repl[d] # "none"
      /\ \A d \in Containers : Arriving(d)' => Arriving(d)
  BY DEF TypeOK, Arriving, ReplacementLeaves, ReplacementWaits, TimerFires, StartSandboxFails,
     StartSandboxTimesOut, CountStarted, AddSandbox, ReplacementForgets, ReplacementRemoved
<1> QED
  BY <1>1, <1>2 DEF PlacesShrink, Holds

(* Close takes nothing.                                                    *)
LEMMA CloseShrinks ==
  ASSUME CloseBegins \/ CloseStep \/ ProcessExits
  PROVE  PlacesShrink
<1>1. UNCHANGED <<available, used, pc, hold, rel, repl, new>>
  BY DEF CloseBegins, CloseStep, ProcessExits, CloseWaited, CloseCollects, CloseReturns, CloseRemoves
<1> QED
  BY <1>1 DEF PlacesShrink, Holds, Arriving

(* A worker receives what was in the channel.                              *)
LEMMA ReceivingKeepsPlaces ==
  ASSUME TypeOK, PlacesInv, NEW b \in Borrowers, AcquireReceives(b)
  PROVE  PlacesInv'
<1> DEFINE c == Head(available)
<1>1. /\ available # <<>> /\ hold' = [hold EXCEPT ![b] = c] /\ available' = Tail(available)
      /\ pc' = [pc EXCEPT ![b] = "received"] /\ pc[b] = "acquiring"
      /\ UNCHANGED <<used, rel, repl, new>>
  BY DEF AcquireReceives
<1>2. /\ c \in ToSet(available) /\ ToSet(available') = ToSet(available) \ {c} /\ IsInjective(available')
  BY <1>1, Receiving DEF TypeOK, PlacesInv
<1> HIDE DEF c
<1>3. hold'[b] = c /\ \A a \in Borrowers \ {b} : hold'[a] = hold[a] /\ (Holds(a)' <=> Holds(a))
  BY <1>1 DEF TypeOK, Holds
<1>4. \A d \in Containers : Arriving(d)' <=> Arriving(d)
  BY <1>1 DEF Arriving
<1>5. IsInjective(available)' /\ \A d \in ToSet(available') : d \in used' /\ rel'[d] = "none" /\ repl'[d] = "none"
  BY <1>1, <1>2 DEF PlacesInv
<1>6. c \in used /\ rel[c] = "none" /\ repl[c] = "none"
  BY <1>2 DEF PlacesInv
<1>7. \A a \in Borrowers : Holds(a)' =>
        /\ hold'[a] \in used' /\ hold'[a] \notin ToSet(available')
        /\ rel'[hold'[a]] = "none" /\ repl'[hold'[a]] = "none"
  BY <1>1, <1>2, <1>3, <1>6 DEF PlacesInv
<1>8. \A a, e \in Borrowers : Holds(a)' /\ Holds(e)' /\ hold'[a] = hold'[e] => a = e
  BY <1>2, <1>3 DEF PlacesInv
<1>9. \A d \in Containers : Arriving(d)' =>
        /\ new'[d] \in used' /\ new'[d] \notin ToSet(available')
        /\ rel'[new'[d]] = "none" /\ repl'[new'[d]] = "none"
        /\ \A a \in Borrowers : Holds(a)' => hold'[a] # new'[d]
  BY <1>1, <1>2, <1>3, <1>4 DEF PlacesInv
<1>10. /\ \A d \in Containers : rel'[d] # "none" => d \in used' /\ repl'[d] = "none"
       /\ \A d \in Containers : repl'[d] # "none" => d \in used'
       /\ \A d, e \in Containers : Arriving(d)' /\ Arriving(e)' /\ new'[d] = new'[e] => d = e
  BY <1>1, <1>4 DEF PlacesInv
<1> QED
  BY <1>5, <1>7, <1>8, <1>9, <1>10 DEF PlacesInv

(* A worker hands its sandbox over to a Release.                           *)
HandsOver(b) ==
  /\ Holds(b) /\ ~Holds(b)'
  /\ \E l \in {"check", "remove"} : rel' = [rel EXCEPT ![hold[b]] = l]
  /\ \A a \in Borrowers \ {b} : hold'[a] = hold[a] /\ (Holds(a)' <=> Holds(a))
  /\ UNCHANGED <<available, used, repl, new>>

(* These are the steps that do.                                            *)
LEMMA HandingOver ==
  ASSUME TypeOK, NEW b \in Borrowers,
         \/ AcquireChecksClosed(b) /\ Closed
         \/ ConfigureFails(b) \/ UseAndRelease(b) \/ UseRestartsAndRelease(b) \/ UseBreaksAndRelease(b)
  PROVE  HandsOver(b)
<1>1. CASE AcquireChecksClosed(b) /\ Closed
  BY <1>1 DEF AcquireChecksClosed, HandsOver, Holds, TypeOK
<1>2. CASE ConfigureFails(b)
  BY <1>2 DEF ConfigureFails, HandsOver, Holds, TypeOK
<1>3. CASE UseAndRelease(b) \/ UseRestartsAndRelease(b) \/ UseBreaksAndRelease(b)
  BY <1>3 DEF UseAndRelease, UseRestartsAndRelease, UseBreaksAndRelease, GoRelease, HandsOver, Holds, TypeOK
<1> QED
  BY <1>1, <1>2, <1>3

(* The Release has what the worker had.                                    *)
LEMMA HandingOverKeepsPlaces ==
  ASSUME TypeOK, PlacesInv, NEW b \in Borrowers, HandsOver(b)
  PROVE  PlacesInv'
<1> DEFINE c == hold[b]
<1>1. /\ c \in used /\ c \notin ToSet(available) /\ rel[c] = "none" /\ repl[c] = "none" /\ c \in Containers
      /\ \A d \in Containers : Arriving(d) => new[d] # c
      /\ \A a \in Borrowers \ {b} : Holds(a) => hold[a] # c
  BY DEF HandsOver, PlacesInv, TypeOK
<1>2. /\ \A d \in Containers \ {c} : rel'[d] = rel[d]
      /\ UNCHANGED <<available, used, repl, new>>
      /\ \A a \in Borrowers : Holds(a)' => a # b /\ Holds(a) /\ hold'[a] = hold[a]
  BY <1>1 DEF HandsOver, TypeOK
<1>3. \A d \in Containers : Arriving(d)' <=> Arriving(d)
  BY <1>2 DEF Arriving
<1> HIDE DEF c
<1>4. used \subseteq Containers
  BY DEF TypeOK
<1>5. /\ IsInjective(available)'
      /\ \A d \in ToSet(available') : d \in used' /\ rel'[d] = "none" /\ repl'[d] = "none"
  BY <1>1, <1>2, <1>4 DEF PlacesInv
<1>6. \A a \in Borrowers : Holds(a)' =>
        /\ hold'[a] \in used' /\ hold'[a] \notin ToSet(available')
        /\ rel'[hold'[a]] = "none" /\ repl'[hold'[a]] = "none"
  BY <1>1, <1>2, <1>4 DEF PlacesInv
<1>7. \A a, e \in Borrowers : Holds(a)' /\ Holds(e)' /\ hold'[a] = hold'[e] => a = e
  BY <1>2 DEF PlacesInv
<1>8. \A d \in Containers : Arriving(d)' =>
        /\ new'[d] \in used' /\ new'[d] \notin ToSet(available')
        /\ rel'[new'[d]] = "none" /\ repl'[new'[d]] = "none"
        /\ \A a \in Borrowers : Holds(a)' => hold'[a] # new'[d]
  BY <1>1, <1>2, <1>3, <1>4 DEF PlacesInv
<1>9. /\ \A d \in Containers : rel'[d] # "none" => d \in used' /\ repl'[d] = "none"
      /\ \A d \in Containers : repl'[d] # "none" => d \in used'
      /\ \A d, e \in Containers : Arriving(d)' /\ Arriving(e)' /\ new'[d] = new'[e] => d = e
  BY <1>1, <1>2, <1>3 DEF PlacesInv
<1> QED
  BY <1>5, <1>6, <1>7, <1>8, <1>9 DEF PlacesInv

(* A sandbox enters the channel, from a Release or as a replacement.       *)
Enters(c) ==
  /\ c \in Containers /\ c \in used /\ c \notin ToSet(available)
  /\ rel'[c] = "none" /\ repl'[c] = "none"
  /\ \A b \in Borrowers : Holds(b) => hold[b] # c
  /\ \A d \in Containers : Arriving(d)' => Arriving(d) /\ new[d] # c
  /\ available' = Append(available, c)
  /\ UNCHANGED <<used, pc, hold, new>>
  /\ \A d \in Containers : rel'[d] # "none" => rel[d] # "none"
  /\ \A d \in Containers : repl'[d] # "none" => repl[d] # "none"

(* These are the steps that do it.                                         *)
LEMMA Entering ==
  ASSUME TypeOK, PlacesInv, NEW c \in Containers
  PROVE  /\ ReturnSends(c) => Enters(c)
         /\ ReplacementSends(c) => Enters(new[c])
<1>1. ASSUME ReturnSends(c)
      PROVE  Enters(c)
  <2>1. /\ rel[c] = "returning" /\ available' = Append(available, c) /\ rel' = [rel EXCEPT ![c] = "none"]
        /\ UNCHANGED <<used, pc, hold, repl, new>>
    BY <1>1 DEF ReturnSends
  <2>2. rel'[c] = "none" /\ \A d \in Containers : rel'[d] # "none" => rel[d] # "none"
    BY <2>1 DEF TypeOK
  <2> QED
    BY <2>1, <2>2 DEF Enters, PlacesInv, Arriving
<1>2. ASSUME ReplacementSends(c)
      PROVE  Enters(new[c])
  <2>1. /\ repl[c] = "added" /\ available' = Append(available, new[c]) /\ repl' = [repl EXCEPT ![c] = "none"]
        /\ UNCHANGED <<used, pc, hold, rel, new>>
    BY <1>2 DEF ReplacementSends
  <2>2. /\ repl'[c] = "none" /\ \A d \in Containers : repl'[d] # "none" => repl[d] # "none" /\ d # c
        /\ \A d \in Containers : Arriving(d)' => Arriving(d) /\ d # c
    BY <2>1 DEF TypeOK, Arriving
  <2>3. Arriving(c)
    BY <2>1 DEF Arriving
  <2>4. /\ new[c] \in used /\ new[c] \in Containers /\ new[c] \notin ToSet(available)
        /\ rel[new[c]] = "none" /\ repl[new[c]] = "none"
        /\ \A b \in Borrowers : Holds(b) => hold[b] # new[c]
        /\ \A d \in Containers : Arriving(d) /\ d # c => new[d] # new[c]
    BY <2>3 DEF PlacesInv, TypeOK
  <2>5. rel'[new[c]] = "none" /\ repl'[new[c]] = "none"
    BY <2>1, <2>2, <2>4
  <2> QED
    BY <2>1, <2>2, <2>4, <2>5 DEF Enters
<1> QED
  BY <1>1, <1>2

(* The channel has what the Release or the replacement had.                *)
LEMMA EnteringKeepsPlaces ==
  ASSUME TypeOK, PlacesInv, NEW c, Enters(c)
  PROVE  PlacesInv'
<1>1. /\ c \in used /\ c \in Containers /\ c \notin ToSet(available) /\ available' = Append(available, c)
      /\ rel'[c] = "none" /\ repl'[c] = "none" /\ UNCHANGED <<used, pc, hold, new>>
  BY DEF Enters
<1>2. ToSet(available') = ToSet(available) \cup {c} /\ IsInjective(available')
  BY <1>1, Sending DEF TypeOK, PlacesInv
<1>3. \A b \in Borrowers : Holds(b)' <=> Holds(b)
  BY <1>1 DEF Holds
<1>4. used \subseteq Containers
  BY DEF TypeOK
<1>5. /\ IsInjective(available)'
      /\ \A d \in ToSet(available') : d \in used' /\ rel'[d] = "none" /\ repl'[d] = "none"
  BY <1>1, <1>2, <1>4 DEF PlacesInv, Enters
<1>6. \A a \in Borrowers : Holds(a)' =>
        /\ hold'[a] \in used' /\ hold'[a] \notin ToSet(available')
        /\ rel'[hold'[a]] = "none" /\ repl'[hold'[a]] = "none"
  BY <1>1, <1>2, <1>3, <1>4 DEF PlacesInv, Enters
<1>7. \A a, e \in Borrowers : Holds(a)' /\ Holds(e)' /\ hold'[a] = hold'[e] => a = e
  BY <1>1, <1>3 DEF PlacesInv
<1>8. \A d \in Containers : Arriving(d)' =>
        /\ new'[d] \in used' /\ new'[d] \notin ToSet(available')
        /\ rel'[new'[d]] = "none" /\ repl'[new'[d]] = "none"
        /\ \A a \in Borrowers : Holds(a)' => hold'[a] # new'[d]
  BY <1>1, <1>2, <1>3, <1>4 DEF PlacesInv, Enters
<1>9. /\ \A d \in Containers : rel'[d] # "none" => d \in used' /\ repl'[d] = "none"
      /\ \A d \in Containers : repl'[d] # "none" => d \in used'
      /\ \A d, e \in Containers : Arriving(d)' /\ Arriving(e)' /\ new'[d] = new'[e] => d = e
  BY <1>1 DEF PlacesInv, Enters
<1> QED
  BY <1>5, <1>6, <1>7, <1>8, <1>9 DEF PlacesInv

(* A replacement is registered in place of the Release.                    *)
LEMMA SpawnKeepsPlaces ==
  ASSUME TypeOK, PlacesInv, NEW c \in Containers, Spawn(c)
  PROVE  PlacesInv'
<1>1. /\ rel[c] = "register" /\ rel' = [rel EXCEPT ![c] = "none"] /\ repl' = [repl EXCEPT ![c] = "arming"]
      /\ UNCHANGED <<available, used, pc, hold, new>>
  BY DEF Spawn
<1>2. /\ rel'[c] = "none" /\ repl'[c] = "arming"
      /\ \A d \in Containers : d # c => rel'[d] = rel[d] /\ repl'[d] = repl[d]
  BY <1>1 DEF TypeOK
<1>3. /\ \A b \in Borrowers : Holds(b)' <=> Holds(b)
      /\ \A d \in Containers : Arriving(d)' => Arriving(d)
  BY <1>1, <1>2 DEF Holds, Arriving
<1>4. used \subseteq Containers
  BY DEF TypeOK
<1>5. /\ IsInjective(available)'
      /\ \A d \in ToSet(available') : d \in used' /\ rel'[d] = "none" /\ repl'[d] = "none"
  BY <1>1, <1>2, <1>4 DEF PlacesInv
<1>6. \A a \in Borrowers : Holds(a)' =>
        /\ hold'[a] \in used' /\ hold'[a] \notin ToSet(available')
        /\ rel'[hold'[a]] = "none" /\ repl'[hold'[a]] = "none"
  BY <1>1, <1>2, <1>3, <1>4 DEF PlacesInv
<1>7. \A a, e \in Borrowers : Holds(a)' /\ Holds(e)' /\ hold'[a] = hold'[e] => a = e
  BY <1>1, <1>3 DEF PlacesInv
<1>8. \A d \in Containers : Arriving(d)' =>
        /\ new'[d] \in used' /\ new'[d] \notin ToSet(available')
        /\ rel'[new'[d]] = "none" /\ repl'[new'[d]] = "none"
        /\ \A a \in Borrowers : Holds(a)' => hold'[a] # new'[d]
  BY <1>1, <1>2, <1>3, <1>4 DEF PlacesInv
<1>9. /\ \A d \in Containers : rel'[d] # "none" => d \in used' /\ repl'[d] = "none"
      /\ \A d \in Containers : repl'[d] # "none" => d \in used'
      /\ \A d, e \in Containers : Arriving(d)' /\ Arriving(e)' /\ new'[d] = new'[e] => d = e
  BY <1>1, <1>2, <1>3 DEF PlacesInv
<1> QED
  BY <1>5, <1>6, <1>7, <1>8, <1>9 DEF PlacesInv

(* A new sandbox has a name that is in no place yet.                       *)
LEMMA StartKeepsPlaces ==
  ASSUME TypeOK, PlacesInv, NEW c \in Containers, StartSandboxOk(c)
  PROVE  PlacesInv'
<1> DEFINE f == FreshName
<1>1. /\ repl[c] = "launching" /\ repl' = [repl EXCEPT ![c] = "started"] /\ new' = [new EXCEPT ![c] = f]
      /\ used' = used \cup {f} /\ f \notin used /\ f \in Containers
      /\ UNCHANGED <<available, pc, hold, rel>>
  BY FreshIsUnused DEF StartSandboxOk
<1> HIDE DEF f
<1>2. /\ new'[c] = f /\ repl'[c] = "started"
      /\ \A d \in Containers : d # c => new'[d] = new[d] /\ repl'[d] = repl[d]
  BY <1>1 DEF TypeOK
<1>3. /\ \A b \in Borrowers : Holds(b)' <=> Holds(b)
      /\ \A d \in Containers : Arriving(d)' /\ d # c => Arriving(d)
  BY <1>1, <1>2 DEF Holds, Arriving
<1>4. used \subseteq Containers
  BY DEF TypeOK
<1>5. /\ IsInjective(available)'
      /\ \A d \in ToSet(available') : d \in used' /\ rel'[d] = "none" /\ repl'[d] = "none"
  BY <1>1, <1>2, <1>4 DEF PlacesInv
<1>6. \A a \in Borrowers : Holds(a)' =>
        /\ hold'[a] \in used' /\ hold'[a] \notin ToSet(available')
        /\ rel'[hold'[a]] = "none" /\ repl'[hold'[a]] = "none"
  BY <1>1, <1>2, <1>3, <1>4 DEF PlacesInv
<1>7. \A a, e \in Borrowers : Holds(a)' /\ Holds(e)' /\ hold'[a] = hold'[e] => a = e
  BY <1>1, <1>3 DEF PlacesInv
<1>8. \A d \in Containers : Arriving(d)' =>
        /\ new'[d] \in used' /\ new'[d] \notin ToSet(available')
        /\ rel'[new'[d]] = "none" /\ repl'[new'[d]] = "none"
        /\ \A a \in Borrowers : Holds(a)' => hold'[a] # new'[d]
  BY <1>1, <1>2, <1>3, <1>4 DEF PlacesInv
<1>9. /\ \A d \in Containers : rel'[d] # "none" => d \in used' /\ repl'[d] = "none"
      /\ \A d \in Containers : repl'[d] # "none" => d \in used'
      /\ \A d, e \in Containers : Arriving(d)' /\ Arriving(e)' /\ new'[d] = new'[e] => d = e
  BY <1>1, <1>2, <1>3 DEF PlacesInv
<1> QED
  BY <1>5, <1>6, <1>7, <1>8, <1>9 DEF PlacesInv

(* Every step keeps the places apart.                                      *)
LEMMA PlacesKept ==
  ASSUME TypeOK, PlacesInv, Next
  PROVE  PlacesInv'
<1>1. ASSUME NEW b \in Borrowers, Borrow(b)
      PROVE  PlacesInv'
  BY <1>1, WorkerShrinks, ShrinkingKeepsPlaces, ReceivingKeepsPlaces, HandingOver, HandingOverKeepsPlaces
     DEF Borrow
<1>2. ASSUME NEW c \in Containers, Release(c)
      PROVE  PlacesInv'
  BY <1>2, ReleaseShrinks, ShrinkingKeepsPlaces, Entering, EnteringKeepsPlaces, SpawnKeepsPlaces
     DEF Release
<1>3. ASSUME NEW c \in Containers, Replace(c)
      PROVE  PlacesInv'
  BY <1>3, ReplacementShrinks, ShrinkingKeepsPlaces, Entering, EnteringKeepsPlaces, StartKeepsPlaces
     DEF Replace
<1>4. CASE CloseBegins \/ CloseStep \/ ProcessExits
  BY <1>4, CloseShrinks, ShrinkingKeepsPlaces
<1> QED
  BY <1>1, <1>2, <1>3, <1>4 DEF Next

-----------------------------------------------------------------------------
(* What is in the channel is clean.                                        *)

(* Nothing gets dirty, nobody gets a sandbox, and a Release sends back     *)
(* only what is clean.                                                     *)
CleanStep ==
  /\ available' = available /\ used \subseteq used'
  /\ dirty' \subseteq dirty /\ restarted' \subseteq restarted
  /\ \A b \in Borrowers : Holds(b)' => Holds(b) /\ hold'[b] = hold[b]
  /\ \A c \in Containers :
       \/ rel'[c] = rel[c]
       \/ rel'[c] \notin {"returning", "resetting", "check"}
       \/ rel'[c] = "returning" /\ c \notin dirty' \cup restarted'
       \/ rel'[c] = "resetting" /\ c \notin restarted'
  /\ \A c \in Containers : Arriving(c)' => Arriving(c) /\ new'[c] = new[c]

(* Such a step keeps clean what was.                                       *)
LEMMA CleanStepsKeep ==
  ASSUME CleanInv, CleanStep
  PROVE  CleanInv'
<1>1. dirty' \cup restarted' \subseteq used'
  BY DEF CleanInv, CleanStep
<1>2. \A c \in ToSet(available') : c \notin dirty' \cup restarted'
  BY DEF CleanInv, CleanStep
<1>3. \A b \in Borrowers : Holds(b)' => hold'[b] \notin restarted'
  BY DEF CleanInv, CleanStep
<1>4. \A c \in Containers :
        /\ rel'[c] = "returning" => c \notin dirty' \cup restarted'
        /\ rel'[c] = "resetting" => c \notin restarted'
        /\ rel'[c] = "check" /\ c \in restarted' => c \notin dirty'
        /\ Arriving(c)' => new'[c] \notin dirty' \cup restarted'
  BY DEF CleanInv, CleanStep
<1> QED
  BY <1>1, <1>2, <1>3, <1>4 DEF CleanInv

(* Steps of a Release.                                                     *)
LEMMA ReleaseIsClean ==
  ASSUME TypeOK, CleanInv, NEW c \in Containers,
         \/ ReleaseDecides(c) \/ ResetOk(c) \/ ResetFails(c) \/ ReturnSeesClosed(c)
         \/ RemoveForgets(c) \/ RemoveContainer(c) \/ SpawnChecksClosed(c) \/ Spawn(c)
  PROVE  CleanStep
<1>1. /\ UNCHANGED <<available, used, pc, hold, new>>
      /\ \E l \in {"resetting", "replace", "replaceRm", "spawn", "register", "returning", "remove", "rm", "none"} :
           /\ rel' = [rel EXCEPT ![c] = l]
           /\ l = "resetting" => c \notin restarted'
           /\ l = "returning" => c \notin dirty' \cup restarted'
      /\ dirty' \subseteq dirty /\ restarted' \subseteq restarted
  <2>1. CASE ReleaseDecides(c)
    BY <2>1 DEF ReleaseDecides, AfterRestart, CleanInv
  <2>2. CASE ResetOk(c)
    BY <2>2 DEF ResetOk, CleanInv
  <2>3. CASE ResetFails(c) \/ ReturnSeesClosed(c) \/ RemoveForgets(c) \/ RemoveContainer(c)
             \/ SpawnChecksClosed(c) \/ Spawn(c)
    BY <2>3 DEF ResetFails, ReturnSeesClosed, RemoveForgets, RemoveContainer, SpawnChecksClosed, Spawn
  <2> QED
    BY <2>1, <2>2, <2>3
<1>2. \A d \in Containers : Arriving(d)' => Arriving(d)
  BY DEF TypeOK, Arriving, ReleaseDecides, ResetOk, ResetFails, ReturnSeesClosed, RemoveForgets,
     RemoveContainer, SpawnChecksClosed, Spawn
<1>3. \A d \in Containers :
       \/ rel'[d] = rel[d]
       \/ rel'[d] \notin {"returning", "resetting", "check"}
       \/ rel'[d] = "returning" /\ d \notin dirty' \cup restarted'
       \/ rel'[d] = "resetting" /\ d \notin restarted'
  BY <1>1 DEF TypeOK
<1> QED
  BY <1>1, <1>2, <1>3 DEF CleanStep, Holds

(* A sandbox that is handed over may be dirty or restarted, but not both.  *)
LEMMA HandingOverIsClean ==
  ASSUME TypeOK, PlacesInv, CleanInv, NEW b \in Borrowers, HandsOver(b),
         dirty' \subseteq dirty \cup {hold[b]}, restarted' \subseteq restarted \cup {hold[b]},
         ~(hold[b] \in dirty' /\ hold[b] \in restarted')
  PROVE  CleanInv'
<1> DEFINE c == hold[b]
<1>1. /\ c \in used /\ c \notin ToSet(available) /\ c \in Containers /\ rel[c] = "none"
      /\ \A d \in Containers : Arriving(d) => new[d] # c
      /\ \A a \in Borrowers \ {b} : Holds(a) => hold[a] # c
  BY DEF HandsOver, PlacesInv, TypeOK
<1>2. /\ \A d \in Containers \ {c} : rel'[d] = rel[d]
      /\ rel'[c] \in {"check", "remove"}
      /\ UNCHANGED <<available, used, repl, new>>
      /\ \A a \in Borrowers : Holds(a)' => a # b /\ Holds(a) /\ hold'[a] = hold[a]
  BY <1>1 DEF HandsOver, TypeOK
<1>3. \A d \in Containers : Arriving(d)' <=> Arriving(d)
  BY <1>2 DEF Arriving
<1>4. /\ dirty' \subseteq dirty \cup {c} /\ restarted' \subseteq restarted \cup {c}
      /\ ~(c \in dirty' /\ c \in restarted')
  OBVIOUS
<1> HIDE DEF c
<1>5. /\ dirty' \cup restarted' \subseteq used'
      /\ \A d \in ToSet(available') : d \notin dirty' \cup restarted'
  BY <1>1, <1>2, <1>4 DEF CleanInv
<1>6. \A a \in Borrowers : Holds(a)' => hold'[a] \notin restarted'
  BY <1>1, <1>2, <1>4 DEF CleanInv
<1>7. \A d \in Containers :
        /\ rel'[d] = "returning" => d \notin dirty' \cup restarted'
        /\ rel'[d] = "resetting" => d \notin restarted'
        /\ rel'[d] = "check" /\ d \in restarted' => d \notin dirty'
        /\ Arriving(d)' => new'[d] \notin dirty' \cup restarted'
  BY <1>1, <1>2, <1>3, <1>4 DEF CleanInv
<1> QED
  BY <1>5, <1>6, <1>7 DEF CleanInv

(* Steps of a worker.                                                      *)
LEMMA WorkerIsClean ==
  ASSUME TypeOK, PlacesInv, CleanInv, NEW b \in Borrowers, Borrow(b)
  PROVE  CleanInv'
<1>1. CASE \/ StartAcquire(b) \/ AcquireGivesUp(b) \/ ConfigureOk(b) \/ AcquireReturnsError(b)
           \/ AcquireChecksClosed(b) /\ ~Closed
  <2>1. PlacesShrink
    BY <1>1, WorkerShrinks
  <2>2. UNCHANGED <<rel, dirty, restarted>>
    BY <1>1 DEF StartAcquire, AcquireGivesUp, ConfigureOk, AcquireReturnsError, AcquireChecksClosed
  <2>3. CleanStep
    BY <2>1, <2>2 DEF PlacesShrink, CleanStep
  <2> QED
    BY <2>3, CleanStepsKeep
<1>2. CASE AcquireReceives(b)
  <2> DEFINE c == Head(available)
  <2>1. /\ available # <<>> /\ hold' = [hold EXCEPT ![b] = c] /\ available' = Tail(available)
        /\ pc' = [pc EXCEPT ![b] = "received"] /\ pc[b] = "acquiring"
        /\ UNCHANGED <<used, rel, repl, new, dirty, restarted>>
    BY <1>2 DEF AcquireReceives
  <2>2. c \in ToSet(available) /\ ToSet(available') = ToSet(available) \ {c}
    BY <2>1, Receiving DEF TypeOK, PlacesInv
  <2> HIDE DEF c
  <2>3. hold'[b] = c /\ \A a \in Borrowers \ {b} : hold'[a] = hold[a] /\ (Holds(a)' <=> Holds(a))
    BY <2>1 DEF TypeOK, Holds
  <2>4. \A d \in Containers : Arriving(d)' <=> Arriving(d)
    BY <2>1 DEF Arriving
  <2>5. \A a \in Borrowers : Holds(a)' => hold'[a] \notin restarted'
    BY <2>1, <2>2, <2>3 DEF CleanInv
  <2> QED
    BY <2>1, <2>2, <2>4, <2>5 DEF CleanInv
<1>3. ASSUME \/ AcquireChecksClosed(b) /\ Closed
             \/ ConfigureFails(b) \/ UseAndRelease(b) \/ UseRestartsAndRelease(b) \/ UseBreaksAndRelease(b)
      PROVE  CleanInv'
  <2>1. HandsOver(b)
    BY <1>3, HandingOver
  <2>2. hold[b] \notin restarted
    BY <2>1 DEF HandsOver, CleanInv
  <2>3. /\ dirty' \subseteq dirty \cup {hold[b]} /\ restarted' \subseteq restarted \cup {hold[b]}
        /\ ~(hold[b] \in dirty' /\ hold[b] \in restarted')
    BY <1>3, <2>2 DEF AcquireChecksClosed, ConfigureFails, UseAndRelease, UseRestartsAndRelease, UseBreaksAndRelease
  <2> QED
    BY <2>1, <2>3, HandingOverIsClean
<1> QED
  BY <1>1, <1>2, <1>3 DEF Borrow

(* A clean sandbox enters the channel.                                     *)
LEMMA EnteringIsClean ==
  ASSUME TypeOK, CleanInv, NEW c, Enters(c), c \notin dirty \cup restarted,
         UNCHANGED <<dirty, restarted>>, \A d \in Containers : rel'[d] = rel[d] \/ rel'[d] = "none"
  PROVE  CleanInv'
<1>1. ToSet(available') = ToSet(available) \cup {c}
  BY Sending DEF Enters, TypeOK
<1>2. /\ \A b \in Borrowers : Holds(b)' <=> Holds(b)
      /\ \A d \in Containers : Arriving(d)' => Arriving(d)
      /\ UNCHANGED <<used, hold, new>>
  BY DEF Enters, Holds
<1>3. \A d \in ToSet(available') : d \notin dirty' \cup restarted'
  BY <1>1 DEF CleanInv
<1>4. \A d \in Containers :
        /\ rel'[d] = "returning" => d \notin dirty' \cup restarted'
        /\ rel'[d] = "resetting" => d \notin restarted'
        /\ rel'[d] = "check" /\ d \in restarted' => d \notin dirty'
        /\ Arriving(d)' => new'[d] \notin dirty' \cup restarted'
  BY <1>2 DEF CleanInv
<1> QED
  BY <1>2, <1>3, <1>4 DEF CleanInv

(* Every step keeps the channel clean.                                     *)
LEMMA CleanKept ==
  ASSUME TypeOK, PlacesInv, CleanInv, Next
  PROVE  CleanInv'
<1>1. ASSUME NEW b \in Borrowers, Borrow(b)
      PROVE  CleanInv'
  BY <1>1, WorkerIsClean
<1>2. ASSUME NEW c \in Containers, Release(c), ~ReturnSends(c)
      PROVE  CleanInv'
  BY <1>2, ReleaseIsClean, CleanStepsKeep DEF Release
<1>3. ASSUME NEW c \in Containers, ReturnSends(c)
      PROVE  CleanInv'
  <2>1. Enters(c)
    BY <1>3, Entering
  <2>2. /\ rel[c] = "returning" /\ UNCHANGED <<dirty, restarted>>
        /\ \A d \in Containers : rel'[d] = rel[d] \/ rel'[d] = "none"
    BY <1>3 DEF ReturnSends, TypeOK
  <2> QED
    BY <2>1, <2>2, EnteringIsClean DEF CleanInv
<1>4. ASSUME NEW c \in Containers, ReplacementSends(c)
      PROVE  CleanInv'
  <2>1. Enters(new[c])
    BY <1>4, Entering
  <2>2. Arriving(c) /\ UNCHANGED <<dirty, restarted, rel>>
    BY <1>4 DEF ReplacementSends, Arriving
  <2> QED
    BY <2>1, <2>2, EnteringIsClean DEF CleanInv
<1>5. ASSUME NEW c \in Containers, StartSandboxOk(c)
      PROVE  CleanInv'
  <2> DEFINE f == FreshName
  <2>1. /\ repl' = [repl EXCEPT ![c] = "started"] /\ new' = [new EXCEPT ![c] = f]
        /\ used' = used \cup {f} /\ f \notin used
        /\ UNCHANGED <<available, pc, hold, rel, dirty, restarted>>
    BY <1>5, FreshIsUnused DEF StartSandboxOk
  <2> HIDE DEF f
  <2>2. /\ new'[c] = f
        /\ \A d \in Containers : Arriving(d)' /\ d # c => Arriving(d) /\ new'[d] = new[d]
    BY <2>1 DEF TypeOK, Arriving
  <2>3. \A d \in Containers : Arriving(d)' => new'[d] \notin dirty' \cup restarted'
    BY <2>1, <2>2 DEF CleanInv
  <2> QED
    BY <2>1, <2>3 DEF CleanInv, Holds
<1>6. ASSUME NEW c \in Containers, Replace(c), ~StartSandboxOk(c), ~ReplacementSends(c)
      PROVE  CleanInv'
  <2>1. PlacesShrink
    BY <1>6, ReplacementShrinks DEF Replace
  <2>2. UNCHANGED <<rel, dirty, restarted>>
    BY <1>6 DEF Replace, ReplacementLeaves, ReplacementWaits, TimerFires, StartSandboxFails,
       StartSandboxTimesOut, CountStarted, AddSandbox, ReplacementForgets, ReplacementRemoved
  <2> QED
    BY <2>1, <2>2, CleanStepsKeep DEF PlacesShrink, CleanStep
<1>7. CASE CloseBegins \/ CloseStep \/ ProcessExits
  <2>1. PlacesShrink
    BY <1>7, CloseShrinks
  <2>2. UNCHANGED <<rel, dirty, restarted>>
    BY <1>7 DEF CloseBegins, CloseStep, ProcessExits, CloseWaited, CloseCollects, CloseReturns, CloseRemoves
  <2> QED
    BY <2>1, <2>2, CleanStepsKeep DEF PlacesShrink, CleanStep
<1> QED
  BY <1>1, <1>2, <1>3, <1>4, <1>5, <1>6, <1>7 DEF Next

-----------------------------------------------------------------------------
(* Close.                                                                  *)

(* Only Close moves closer and doomed.                                     *)
LEMMA CloseFrame ==
  ASSUME (\E b \in Borrowers : Borrow(b)) \/ (\E c \in Containers : Release(c) \/ Replace(c))
  PROVE  UNCHANGED <<closer, doomed>>
<1>1. ASSUME NEW b \in Borrowers, Borrow(b)
      PROVE  UNCHANGED <<closer, doomed>>
  BY <1>1 DEF Borrow, StartAcquire, AcquireReceives, AcquireGivesUp, AcquireChecksClosed, ConfigureOk,
     ConfigureFails, AcquireReturnsError, UseAndRelease, UseRestartsAndRelease, UseBreaksAndRelease
<1>2. ASSUME NEW c \in Containers, Release(c)
      PROVE  UNCHANGED <<closer, doomed>>
  BY <1>2 DEF Release, ReleaseDecides, ResetOk, ResetFails, ReturnSends, ReturnSeesClosed, RemoveForgets,
     RemoveContainer, SpawnChecksClosed, Spawn
<1>3. ASSUME NEW c \in Containers, Replace(c)
      PROVE  UNCHANGED <<closer, doomed>>
  BY <1>3 DEF Replace, ReplacementLeaves, ReplacementWaits, TimerFires, StartSandboxOk, StartSandboxFails,
     StartSandboxTimesOut, CountStarted, AddSandbox, ReplacementSends, ReplacementForgets, ReplacementRemoved
<1> QED
  BY <1>1, <1>2, <1>3

(* A pool that was closed stays closed.                                    *)
LEMMA ClosedForGood ==
  ASSUME Next, Closed
  PROVE  Closed'
<1>1. CASE CloseBegins \/ CloseStep \/ ProcessExits
  BY <1>1 DEF Closed, CloseBegins, CloseStep, ProcessExits, CloseWaited, CloseCollects, CloseReturns, CloseRemoves
<1> QED
  BY <1>1, CloseFrame DEF Next, Closed

(* A sandbox is removed for good only once the pool is closed, and after   *)
(* Close has waited no replacement gets beyond its first check.            *)
LEMMA CloseKept ==
  ASSUME TypeOK, CloseInv, Next
  PROVE  CloseInv'
<1>1. ASSUME NEW b \in Borrowers, Borrow(b)
      PROVE  CloseInv'
  <2>1. UNCHANGED <<closer, doomed, repl, all>>
    BY <1>1 DEF Borrow, StartAcquire, AcquireReceives, AcquireGivesUp, AcquireChecksClosed, ConfigureOk,
       ConfigureFails, AcquireReturnsError, UseAndRelease, UseRestartsAndRelease, UseBreaksAndRelease
  <2>2. \A c \in Containers : rel'[c] \in {"remove", "rm"} => rel[c] \in {"remove", "rm"} \/ Closed
    BY <1>1 DEF TypeOK, Borrow, StartAcquire, AcquireReceives, AcquireGivesUp, AcquireChecksClosed, ConfigureOk,
       ConfigureFails, AcquireReturnsError, UseAndRelease, UseRestartsAndRelease, UseBreaksAndRelease, GoRelease
  <2> QED
    BY <2>1, <2>2 DEF CloseInv, Closed
<1>2. ASSUME NEW c \in Containers, Release(c)
      PROVE  CloseInv'
  <2>1. UNCHANGED <<closer, doomed>>
    BY <1>2, CloseFrame
  <2>2. \A d \in Containers : rel'[d] \in {"remove", "rm"} => rel[d] \in {"remove", "rm"} \/ Closed
    BY <1>2 DEF TypeOK, Release, ReleaseDecides, AfterRestart, ResetOk, ResetFails, ReturnSends,
       ReturnSeesClosed, RemoveForgets, RemoveContainer, SpawnChecksClosed, Spawn
  <2>3. \A d \in Containers : repl'[d] = repl[d] \/ repl'[d] = "arming"
    BY <1>2 DEF TypeOK, Release, ReleaseDecides, ResetOk, ResetFails, ReturnSends, ReturnSeesClosed,
       RemoveForgets, RemoveContainer, SpawnChecksClosed, Spawn
  <2>4. all' \subseteq all
    BY <1>2 DEF Release, ReleaseDecides, ResetOk, ResetFails, ReturnSends, ReturnSeesClosed,
       RemoveForgets, RemoveContainer, SpawnChecksClosed, Spawn
  <2> QED
    BY <2>1, <2>2, <2>3, <2>4 DEF CloseInv, Closed
<1>3. ASSUME NEW c \in Containers, Replace(c)
      PROVE  CloseInv'
  <2>1. UNCHANGED <<closer, doomed, rel>>
    BY <1>3 DEF Replace, ReplacementLeaves, ReplacementWaits, TimerFires, StartSandboxOk, StartSandboxFails,
       StartSandboxTimesOut, CountStarted, AddSandbox, ReplacementSends, ReplacementForgets, ReplacementRemoved
  <2>2. \A d \in Containers : repl'[d] = "rm" => repl[d] = "rm" \/ Closed
    BY <1>3 DEF TypeOK, Replace, ReplacementLeaves, ReplacementWaits, TimerFires, StartSandboxOk, StartSandboxFails,
       StartSandboxTimesOut, CountStarted, AddSandbox, ReplacementSends, ReplacementForgets, ReplacementRemoved
  <2>3. /\ repl[c] \in {"none", "arming"} => UNCHANGED all /\ (Closed => repl'[c] = "none")
        /\ \A d \in Containers \ {c} : repl'[d] = repl[d]
    BY <1>3 DEF TypeOK, Replace, ReplacementLeaves, ReplacementWaits, TimerFires, StartSandboxOk, StartSandboxFails,
       StartSandboxTimesOut, CountStarted, AddSandbox, ReplacementSends, ReplacementForgets, ReplacementRemoved
  <2> QED
    BY <2>1, <2>2, <2>3 DEF CloseInv, Closed
<1>4. CASE CloseBegins \/ CloseStep \/ ProcessExits
  BY <1>4 DEF CloseInv, Closed, CloseBegins, CloseStep, ProcessExits, CloseWaited, ReplacementsDone,
     CloseCollects, CloseReturns, CloseRemoves
<1> QED
  BY <1>1, <1>2, <1>3, <1>4 DEF Next

(* Nothing is left for which nobody is in charge: a sandbox is forgotten   *)
(* only by who goes on to remove its container.                            *)
LEMMA ChargeKept ==
  ASSUME TypeOK, PlacesInv, CloseInv, ChargeInv, Next
  PROVE  ChargeInv'
<1> DEFINE InCharge(c) == \/ c \in all \cup doomed
                          \/ rel[c] \in {"rm", "replaceRm"}
                          \/ \E d \in Containers : repl[d] \in {"started", "counted", "rm"} /\ new[d] = c
<1>0. exists \subseteq Containers /\ \A c \in exists \ orphans : InCharge(c)
  BY DEF TypeOK, ChargeInv
<1>1. ASSUME NEW b \in Borrowers, Borrow(b)
      PROVE  ChargeInv'
  <2>1. UNCHANGED <<all, doomed, exists, orphans, repl, new>>
    BY <1>1 DEF Borrow, StartAcquire, AcquireReceives, AcquireGivesUp, AcquireChecksClosed, ConfigureOk,
       ConfigureFails, AcquireReturnsError, UseAndRelease, UseRestartsAndRelease, UseBreaksAndRelease
  <2>2. \A c \in Containers : rel[c] # "none" => rel'[c] = rel[c]
    <3>1. CASE HandsOver(b)
      BY <3>1 DEF HandsOver, PlacesInv, TypeOK
    <3>2. CASE UNCHANGED rel
      BY <3>2
    <3> QED
      BY <1>1, <3>1, <3>2, HandingOver DEF Borrow, StartAcquire, AcquireReceives, AcquireGivesUp,
         AcquireChecksClosed, ConfigureOk, AcquireReturnsError
  <2> QED
    BY <1>0, <2>1, <2>2 DEF ChargeInv
<1>2. ASSUME NEW c \in Containers, Release(c)
      PROVE  ChargeInv'
  <2>1. UNCHANGED <<doomed, new>> /\ \A d \in Containers \ {c} : rel'[d] = rel[d]
    BY <1>2 DEF TypeOK, Release, ReleaseDecides, AfterRestart, ResetOk, ResetFails, ReturnSends,
       ReturnSeesClosed, RemoveForgets, RemoveContainer, SpawnChecksClosed, Spawn
  <2>2. /\ exists' \ orphans' \subseteq exists \ orphans
        /\ all' = all \/ (all' = all \ {c} /\ rel'[c] \in {"rm", "replaceRm"})
        /\ rel[c] \in {"rm", "replaceRm"} => c \notin exists' \ orphans'
    BY <1>2 DEF TypeOK, RemoveSandbox, Release, ReleaseDecides, AfterRestart, ResetOk, ResetFails, ReturnSends,
       ReturnSeesClosed, RemoveForgets, RemoveContainer, SpawnChecksClosed, Spawn
  <2>3. \A d \in Containers : repl[d] \in {"started", "counted", "rm"} => repl'[d] = repl[d]
    BY <1>2 DEF TypeOK, PlacesInv, Release, ReleaseDecides, ResetOk, ResetFails, ReturnSends,
       ReturnSeesClosed, RemoveForgets, RemoveContainer, SpawnChecksClosed, Spawn
  <2>4. ASSUME NEW d \in exists' \ orphans'
        PROVE  InCharge(d)'
    <3>1. InCharge(d) /\ d \in Containers
      BY <1>0, <2>2
    <3>2. CASE d \in all \cup doomed
      BY <2>1, <2>2, <3>2
    <3>3. CASE rel[d] \in {"rm", "replaceRm"}
      BY <2>1, <2>2, <3>1, <3>3
    <3>4. CASE \E e \in Containers : repl[e] \in {"started", "counted", "rm"} /\ new[e] = d
      BY <2>1, <2>3, <3>4
    <3> QED
      BY <3>1, <3>2, <3>3, <3>4
  <2> QED
    BY <2>4 DEF ChargeInv
<1>3. ASSUME NEW c \in Containers, Replace(c)
      PROVE  ChargeInv'
  <2>1. UNCHANGED <<doomed, rel>> /\ \A d \in Containers \ {c} : repl'[d] = repl[d] /\ new'[d] = new[d]
    BY <1>3 DEF TypeOK, Replace, ReplacementLeaves, ReplacementWaits, TimerFires, StartSandboxOk, StartSandboxFails,
       StartSandboxTimesOut, CountStarted, AddSandbox, ReplacementSends, ReplacementForgets, ReplacementRemoved
  <2>2. CASE StartSandboxOk(c)
    <3>1. /\ exists' = exists \cup {FreshName} /\ repl'[c] = "started" /\ new'[c] = FreshName
          /\ repl[c] = "launching" /\ UNCHANGED <<all, orphans>>
      BY <2>2 DEF StartSandboxOk, TypeOK
    <3> QED
      BY <1>0, <2>1, <3>1 DEF ChargeInv
  <2>3. CASE ReplacementRemoved(c)
    <3>1. /\ exists' \ orphans' \subseteq (exists \ orphans) \ {new[c]} /\ UNCHANGED <<all, new>>
      BY <2>3 DEF ReplacementRemoved, RemoveSandbox
    <3>2. ASSUME NEW d \in exists' \ orphans'
          PROVE  InCharge(d)'
      <4>1. InCharge(d) /\ d # new[c]
        BY <1>0, <3>1
      <4> QED
        BY <2>1, <3>1, <4>1
    <3> QED
      BY <3>2 DEF ChargeInv
  <2>4. CASE AddSandbox(c)
    <3>1. all' = all \cup {new[c]} /\ UNCHANGED <<exists, orphans, new>>
      BY <2>4 DEF AddSandbox
    <3> QED
      BY <1>0, <2>1, <3>1 DEF ChargeInv
  <2>5. CASE ReplacementForgets(c)
    <3>1. all' = all \ {new[c]} /\ UNCHANGED <<exists, orphans, new>> /\ repl'[c] = "rm"
      BY <2>5 DEF ReplacementForgets, TypeOK
    <3> QED
      BY <1>0, <2>1, <3>1 DEF ChargeInv
  <2>6. CASE CountStarted(c)
    <3>1. UNCHANGED <<all, exists, orphans, new>> /\ repl'[c] = "counted"
      BY <2>6 DEF CountStarted, TypeOK
    <3> QED
      BY <1>0, <2>1, <3>1 DEF ChargeInv
  <2>7. CASE \/ ReplacementLeaves(c) \/ ReplacementWaits(c) \/ TimerFires(c) \/ StartSandboxFails(c)
             \/ StartSandboxTimesOut(c) \/ ReplacementSends(c)
    <3>1. /\ UNCHANGED <<all, new>> /\ exists' \ orphans' \subseteq exists \ orphans
          /\ repl[c] \in {"arming", "waiting", "launching", "added"}
      BY <2>7 DEF ReplacementLeaves, ReplacementWaits, TimerFires, StartSandboxFails, StartSandboxTimesOut,
         ReplacementSends
    <3>2. ASSUME NEW d \in exists' \ orphans'
          PROVE  InCharge(d)'
      <4>1. InCharge(d)
        BY <1>0, <3>1
      <4> QED
        BY <2>1, <3>1, <4>1
    <3> QED
      BY <3>2 DEF ChargeInv
  <2> QED
    BY <1>3, <2>2, <2>3, <2>4, <2>5, <2>6, <2>7 DEF Replace
<1>4. CASE CloseBegins \/ CloseStep \/ ProcessExits
  <2>1. UNCHANGED <<rel, repl, new>>
    BY <1>4 DEF CloseBegins, CloseStep, ProcessExits, CloseWaited, CloseCollects, CloseReturns, CloseRemoves
  <2>2. \A c \in exists' \ orphans' : c \in exists \ orphans /\ (c \in all \cup doomed => c \in all' \cup doomed')
    BY <1>4 DEF CloseBegins, CloseStep, ProcessExits, CloseWaited, CloseCollects, CloseReturns, CloseRemoves,
       RemoveSandbox, CloseInv
  <2> QED
    BY <1>0, <2>1, <2>2 DEF ChargeInv
<1> QED
  BY <1>1, <1>2, <1>3, <1>4 DEF Next

-----------------------------------------------------------------------------
(* Slots.                                                                  *)

Lent     == {b \in Borrowers : HeldBy(b) # {}}
Released == {c \in Containers : rel[c] # "none"}
Replaced == {c \in Containers : repl[c] # "none"}
Started  == {c \in Containers : repl[c] \in {"arming", "waiting", "launching", "started"}}

(* The two parts of SlotsConserved.                                        *)
SlotSum ==
  ~Closed => Capacity = Len(available) + Cardinality(Lent) + Cardinality(Released) + Cardinality(Replaced)
StartingCount == starting = Cardinality(Started)

(* They are its parts.                                                     *)
LEMMA SlotParts == SlotsConserved <=> SlotSum /\ StartingCount
  BY DEF SlotsConserved, SlotSum, StartingCount, Lent, Released, Replaced, Started

(* All these sets are finite.                                              *)
LEMMA SlotsFinite ==
  /\ IsFiniteSet(Lent) /\ IsFiniteSet(Released) /\ IsFiniteSet(Replaced) /\ IsFiniteSet(Started)
  /\ Cardinality(Lent) \in Nat /\ Cardinality(Released) \in Nat
  /\ Cardinality(Replaced) \in Nat /\ Cardinality(Started) \in Nat
<1>1. IsFiniteSet(Containers) /\ IsFiniteSet(Borrowers)
  BY FS_Interval, ContainersAssumption, BorrowersAssumption DEF Containers
<1>2. /\ Lent \in SUBSET Borrowers /\ Released \in SUBSET Containers
      /\ Replaced \in SUBSET Containers /\ Started \in SUBSET Containers
  BY DEF Lent, Released, Replaced, Started
<1>3. IsFiniteSet(Lent) /\ IsFiniteSet(Released) /\ IsFiniteSet(Replaced) /\ IsFiniteSet(Started)
  BY <1>1, <1>2, FS_Subset
<1> QED
  BY <1>3, FS_CardinalityType

(* A worker is among them while it holds a sandbox.                        *)
LEMMA LentHolds == \A b \in Borrowers : b \in Lent <=> Holds(b)
  BY DEF Lent, HeldBy, Holds

(* The same at the end of a step.                                          *)
LEMMA LentHoldsNext == \A b \in Borrowers : b \in Lent' <=> Holds(b)'
  BY DEF Lent, HeldBy, Holds

(* A replacement that starts is counted until it has started or left.      *)
LEMMA StartingKept ==
  ASSUME TypeOK, PlacesInv, StartingCount, Next
  PROVE  StartingCount'
<1>1. CASE UNCHANGED starting /\ \A c \in Containers : c \in Started' <=> c \in Started
  <2>1. Started' = Started
    BY <1>1 DEF Started
  <2> QED
    BY <1>1, <2>1 DEF StartingCount
<1>2. CASE UNCHANGED <<starting, repl>>
  BY <1>2 DEF StartingCount, Started
<1>3. ASSUME NEW b \in Borrowers, Borrow(b)
      PROVE  StartingCount'
  BY <1>2, <1>3 DEF Borrow, StartAcquire, AcquireReceives, AcquireGivesUp, AcquireChecksClosed, ConfigureOk,
     ConfigureFails, AcquireReturnsError, UseAndRelease, UseRestartsAndRelease, UseBreaksAndRelease
<1>4. ASSUME NEW c \in Containers, Spawn(c)
      PROVE  StartingCount'
  <2>1. rel[c] = "register" /\ starting' = starting + 1 /\ repl' = [repl EXCEPT ![c] = "arming"]
    BY <1>4 DEF Spawn
  <2>2. repl[c] = "none"
    BY <2>1 DEF PlacesInv
  <2>3. c \notin Started /\ Started' = Started \cup {c}
    BY <2>1, <2>2 DEF Started, TypeOK
  <2>4. Cardinality(Started \cup {c}) = Cardinality(Started) + 1
    BY <2>3, SlotsFinite, FS_AddElement
  <2> QED
    BY <2>1, <2>3, <2>4 DEF StartingCount
<1>5. ASSUME NEW c \in Containers, Release(c), ~Spawn(c)
      PROVE  StartingCount'
  BY <1>2, <1>5 DEF Release, ReleaseDecides, ResetOk, ResetFails, ReturnSends,
     ReturnSeesClosed, RemoveForgets, RemoveContainer, SpawnChecksClosed
<1>6. ASSUME NEW c \in Containers, ReplacementLeaves(c) \/ CountStarted(c)
      PROVE  StartingCount'
  <2>1. /\ starting' = starting - 1 /\ c \in Started
        /\ \E l \in {"none", "counted"} : repl' = [repl EXCEPT ![c] = l]
    BY <1>6 DEF ReplacementLeaves, CountStarted, Started
  <2>2. Started' = Started \ {c}
    BY <2>1 DEF Started, TypeOK
  <2>3. Cardinality(Started \ {c}) = Cardinality(Started) - 1
    BY <2>1, SlotsFinite, FS_RemoveElement
  <2> QED
    BY <2>1, <2>2, <2>3 DEF StartingCount
<1>7. ASSUME NEW c \in Containers, Replace(c), ~(ReplacementLeaves(c) \/ CountStarted(c))
      PROVE  StartingCount'
  <2>1. UNCHANGED starting
    BY <1>7 DEF Replace, ReplacementWaits, TimerFires, StartSandboxOk, StartSandboxFails,
       StartSandboxTimesOut, AddSandbox, ReplacementSends, ReplacementForgets, ReplacementRemoved
  <2>2. \A d \in Containers : d \in Started' <=> d \in Started
    BY <1>7 DEF TypeOK, Started, Replace, ReplacementWaits, TimerFires, StartSandboxOk, StartSandboxFails,
       StartSandboxTimesOut, AddSandbox, ReplacementSends, ReplacementForgets, ReplacementRemoved
  <2> QED
    BY <1>1, <2>1, <2>2
<1>8. CASE CloseBegins \/ CloseStep \/ ProcessExits
  BY <1>2, <1>8 DEF CloseBegins, CloseStep, ProcessExits, CloseWaited, CloseCollects, CloseReturns, CloseRemoves
<1> QED
  BY <1>3, <1>4, <1>5, <1>6, <1>7, <1>8 DEF Next

(* A slot that moves leaves one place and is counted in another.           *)
LEMMA SlotsKept ==
  ASSUME TypeOK, PlacesInv, CloseInv, SlotSum, Next
  PROVE  SlotSum'
<1> SUFFICES ASSUME ~Closed'
             PROVE  Capacity = Len(available') + Cardinality(Lent') + Cardinality(Released') + Cardinality(Replaced')
  BY DEF SlotSum
<1> DEFINE Sum == Capacity = Len(available') + Cardinality(Lent') + Cardinality(Released') + Cardinality(Replaced')
<1>0. /\ ~Closed
      /\ Capacity = Len(available) + Cardinality(Lent) + Cardinality(Released) + Cardinality(Replaced)
      /\ Len(available) \in Nat /\ Cardinality(Lent) \in Nat
      /\ Cardinality(Released) \in Nat /\ Cardinality(Replaced) \in Nat
  BY ClosedForGood, SlotsFinite DEF SlotSum, TypeOK
<1>1. ASSUME UNCHANGED available, Lent' = Lent, Released' = Released, Replaced' = Replaced
      PROVE  Sum
  BY <1>0, <1>1
<1>2. ASSUME NEW b \in Borrowers,
             \/ StartAcquire(b) \/ AcquireGivesUp(b) \/ ConfigureOk(b) \/ AcquireReturnsError(b)
             \/ AcquireChecksClosed(b) /\ ~Closed
      PROVE  Sum
  <2>1. UNCHANGED <<available, rel, repl>>
    BY <1>2 DEF StartAcquire, AcquireGivesUp, ConfigureOk, AcquireReturnsError, AcquireChecksClosed
  <2>2. \A a \in Borrowers : Holds(a)' <=> Holds(a)
    BY <1>2 DEF TypeOK, Holds, StartAcquire, AcquireGivesUp, ConfigureOk, AcquireReturnsError, AcquireChecksClosed
  <2>3. Lent' = Lent
    <3>1. Lent \subseteq Borrowers /\ Lent' \subseteq Borrowers
      BY DEF Lent
    <3> QED
      BY <2>2, <3>1, LentHolds, LentHoldsNext
  <2> QED
    BY <1>1, <2>1, <2>3 DEF Released, Replaced
<1>3. ASSUME NEW b \in Borrowers, AcquireReceives(b)
      PROVE  Sum
  <2>1. /\ available # <<>> /\ available' = Tail(available) /\ UNCHANGED <<rel, repl>>
        /\ ~Holds(b) /\ Holds(b)' /\ \A a \in Borrowers \ {b} : Holds(a)' <=> Holds(a)
    BY <1>3 DEF AcquireReceives, TypeOK, Holds
  <2>2. Lent' = Lent \cup {b} /\ b \notin Lent
    <3>1. Lent \subseteq Borrowers /\ Lent' \subseteq Borrowers
      BY DEF Lent
    <3> QED
      BY <2>1, <3>1, LentHolds, LentHoldsNext
  <2>3. Cardinality(Lent') = Cardinality(Lent) + 1
    BY <2>2, SlotsFinite, FS_AddElement
  <2>4. Len(available') = Len(available) - 1
    BY <2>1, Receiving DEF TypeOK, PlacesInv
  <2>5. Released' = Released /\ Replaced' = Replaced
    BY <2>1 DEF Released, Replaced
  <2> QED
    BY <1>0, <2>3, <2>4, <2>5
<1>4. ASSUME NEW b \in Borrowers, HandsOver(b)
      PROVE  Sum
  <2>1. /\ hold[b] \in Containers /\ rel[hold[b]] = "none"
    BY <1>4 DEF HandsOver, PlacesInv, TypeOK
  <2>2. /\ Released' = Released \cup {hold[b]} /\ hold[b] \notin Released
        /\ Replaced' = Replaced /\ UNCHANGED available
    BY <1>4, <2>1 DEF HandsOver, Released, Replaced, TypeOK
  <2>3. Lent' = Lent \ {b} /\ b \in Lent
    <3>1. Lent \subseteq Borrowers /\ Lent' \subseteq Borrowers
      BY DEF Lent
    <3>2. Holds(b) /\ ~Holds(b)' /\ \A a \in Borrowers \ {b} : Holds(a)' <=> Holds(a)
      BY <1>4 DEF HandsOver
    <3> QED
      BY <3>1, <3>2, LentHolds, LentHoldsNext
  <2>4. Cardinality(Lent') = Cardinality(Lent) - 1
    BY <2>3, SlotsFinite, FS_RemoveElement
  <2>5. Cardinality(Released') = Cardinality(Released) + 1
    BY <2>2, SlotsFinite, FS_AddElement
  <2> QED
    BY <1>0, <2>2, <2>4, <2>5
<1>5. ASSUME NEW b \in Borrowers, Borrow(b)
      PROVE  Sum
  BY <1>0, <1>2, <1>3, <1>4, <1>5, HandingOver DEF Borrow
<1>6. ASSUME NEW c \in Containers, ReturnSends(c)
      PROVE  Sum
  <2>1. /\ available' = Append(available, c) /\ UNCHANGED <<pc, hold, repl>>
        /\ Released' = Released \ {c} /\ c \in Released
    BY <1>6 DEF ReturnSends, Released, TypeOK
  <2>2. Lent' = Lent /\ Replaced' = Replaced
    BY <2>1 DEF Lent, HeldBy, Replaced
  <2>3. Cardinality(Released') = Cardinality(Released) - 1
    BY <2>1, SlotsFinite, FS_RemoveElement
  <2>4. Len(available') = Len(available) + 1
    BY <2>1, Sending DEF TypeOK
  <2> QED
    BY <1>0, <2>2, <2>3, <2>4
<1>7. ASSUME NEW c \in Containers, Spawn(c)
      PROVE  Sum
  <2>1. rel[c] = "register" /\ UNCHANGED <<available, pc, hold>>
        /\ rel' = [rel EXCEPT ![c] = "none"] /\ repl' = [repl EXCEPT ![c] = "arming"]
    BY <1>7 DEF Spawn
  <2>2. repl[c] = "none"
    BY <2>1 DEF PlacesInv
  <2>3. /\ Released' = Released \ {c} /\ c \in Released
        /\ Replaced' = Replaced \cup {c} /\ c \notin Replaced
    BY <2>1, <2>2 DEF Released, Replaced, TypeOK
  <2>4. Lent' = Lent
    BY <2>1 DEF Lent, HeldBy
  <2>5. Cardinality(Released') = Cardinality(Released) - 1
    BY <2>3, SlotsFinite, FS_RemoveElement
  <2>6. Cardinality(Replaced') = Cardinality(Replaced) + 1
    BY <2>3, SlotsFinite, FS_AddElement
  <2> QED
    BY <1>0, <2>1, <2>4, <2>5, <2>6
<1>8. ASSUME NEW c \in Containers, Release(c), ~ReturnSends(c), ~Spawn(c)
      PROVE  Sum
  <2>1. UNCHANGED <<available, pc, hold, repl>>
    BY <1>8 DEF Release, ReleaseDecides, ResetOk, ResetFails, ReturnSeesClosed, RemoveForgets,
       RemoveContainer, SpawnChecksClosed
  <2>2. rel[c] \notin {"remove", "rm"}
    BY <1>0 DEF CloseInv
  <2>3. \A d \in Containers : rel'[d] # "none" <=> rel[d] # "none"
    BY <1>0, <1>8, <2>2 DEF TypeOK, Release, ReleaseDecides, AfterRestart, ResetOk, ResetFails, ReturnSeesClosed,
       RemoveForgets, RemoveContainer, SpawnChecksClosed
  <2>4. Lent' = Lent /\ Released' = Released /\ Replaced' = Replaced
    BY <2>1, <2>3 DEF Lent, HeldBy, Released, Replaced
  <2> QED
    BY <1>1, <2>1, <2>4
<1>9. ASSUME NEW c \in Containers, ReplacementSends(c)
      PROVE  Sum
  <2>1. /\ available' = Append(available, new[c]) /\ UNCHANGED <<pc, hold, rel>>
        /\ Replaced' = Replaced \ {c} /\ c \in Replaced
    BY <1>9 DEF ReplacementSends, Replaced, TypeOK
  <2>2. new[c] \in Containers
    BY <1>9 DEF ReplacementSends, PlacesInv, Arriving, TypeOK
  <2>3. Lent' = Lent /\ Released' = Released
    BY <2>1 DEF Lent, HeldBy, Released
  <2>4. Cardinality(Replaced') = Cardinality(Replaced) - 1
    BY <2>1, SlotsFinite, FS_RemoveElement
  <2>5. Len(available') = Len(available) + 1
    BY <2>1, <2>2, Sending DEF TypeOK
  <2> QED
    BY <1>0, <2>3, <2>4, <2>5
<1>10. ASSUME NEW c \in Containers, Replace(c), ~ReplacementSends(c)
       PROVE  Sum
  <2>1. UNCHANGED <<available, pc, hold, rel>>
    BY <1>10 DEF Replace, ReplacementLeaves, ReplacementWaits, TimerFires, StartSandboxOk, StartSandboxFails,
       StartSandboxTimesOut, CountStarted, AddSandbox, ReplacementForgets, ReplacementRemoved
  <2>2. repl[c] # "rm"
    BY <1>0 DEF CloseInv
  <2>3. \A d \in Containers : repl'[d] # "none" <=> repl[d] # "none"
    BY <1>0, <1>10, <2>2 DEF TypeOK, Replace, ReplacementLeaves, ReplacementWaits, TimerFires, StartSandboxOk,
       StartSandboxFails, StartSandboxTimesOut, CountStarted, AddSandbox, ReplacementForgets, ReplacementRemoved
  <2>4. Lent' = Lent /\ Released' = Released /\ Replaced' = Replaced
    BY <2>1, <2>3 DEF Lent, HeldBy, Released, Replaced
  <2> QED
    BY <1>1, <2>1, <2>4
<1>11. CASE CloseBegins \/ CloseStep \/ ProcessExits
  BY <1>0, <1>11 DEF Closed, CloseBegins, CloseStep, ProcessExits, CloseWaited, CloseCollects, CloseReturns, CloseRemoves
<1> QED
  BY <1>5, <1>6, <1>7, <1>8, <1>9, <1>10, <1>11 DEF Next

-----------------------------------------------------------------------------
(* Types.                                                                  *)

(* A fault is counted within its bound.                                    *)
LEMMA FaultCounts ==
  ASSUME TypeOK, Fault
  PROVE  faults' \in 0..MaxFaults
  BY FaultsAssumption DEF TypeOK, Fault

(* Every step keeps the types; starting is a count.                        *)
LEMMA TypesKept ==
  ASSUME TypeOK, PlacesInv, StartingCount', Next
  PROVE  TypeOK'
<1> DEFINE Sets == /\ all \subseteq Containers /\ needsReplace \subseteq Containers /\ restarted \subseteq Containers
                   /\ exists \subseteq Containers /\ used \subseteq Containers /\ dirty \subseteq Containers
                   /\ orphans \subseteq Containers /\ doomed \subseteq Containers
           Labels == /\ pc \in [Borrowers -> {"idle", "acquiring", "received", "configuring", "holding", "failing"}]
                     /\ rel \in [Containers -> {"none", "check", "resetting", "replace", "replaceRm", "spawn", "register",
                                                "returning", "remove", "rm"}]
                     /\ repl \in [Containers -> {"none", "arming", "waiting", "launching", "started",
                                                 "counted", "added", "rm"}]
                     /\ closer \in {"open", "waiting", "collecting", "removing", "closed", "exited"}
           Names == /\ available \in Seq(Containers)
                    /\ hold \in [Borrowers -> Containers \cup {None}]
                    /\ new \in [Containers -> Containers \cup {None}]
<1>0. Sets /\ Labels /\ Names /\ faults \in 0..MaxFaults
  BY DEF TypeOK
<1>1. starting' \in Nat
  <2>1. IsFiniteSet(Containers) /\ Started' \in SUBSET Containers
    BY FS_Interval, ContainersAssumption DEF Containers, Started
  <2>2. Cardinality(Started') \in Nat
    BY <2>1, FS_Subset, FS_CardinalityType
  <2> QED
    BY <2>2 DEF StartingCount
<1>2. ASSUME NEW b \in Borrowers, Borrow(b)
      PROVE  (Sets /\ Labels /\ Names)' /\ faults' \in 0..MaxFaults
  <2>1. faults' \in 0..MaxFaults
    BY <1>0, <1>2, FaultCounts DEF Borrow, StartAcquire, AcquireReceives, AcquireGivesUp, AcquireChecksClosed,
       ConfigureOk, ConfigureFails, AcquireReturnsError, UseAndRelease, UseRestartsAndRelease, UseBreaksAndRelease
  <2>2. Labels'
    BY <1>0, <1>2 DEF Borrow, StartAcquire, AcquireReceives, AcquireGivesUp, AcquireChecksClosed, ConfigureOk,
       ConfigureFails, AcquireReturnsError, UseAndRelease, UseRestartsAndRelease, UseBreaksAndRelease, GoRelease
  <2>3. Names'
    <3>1. CASE AcquireReceives(b)
      <4>1. available # <<>> /\ hold' = [hold EXCEPT ![b] = Head(available)] /\ available' = Tail(available)
            /\ UNCHANGED new
        BY <3>1 DEF AcquireReceives
      <4>2. Head(available) \in Containers /\ Tail(available) \in Seq(Containers)
        BY <1>0, <4>1, Receiving DEF PlacesInv
      <4> QED
        BY <1>0, <4>1, <4>2
    <3>2. CASE ~AcquireReceives(b)
      BY <1>0, <1>2, <3>2 DEF Borrow, StartAcquire, AcquireGivesUp, AcquireChecksClosed, ConfigureOk,
         ConfigureFails, AcquireReturnsError, UseAndRelease, UseRestartsAndRelease, UseBreaksAndRelease, GoRelease
    <3> QED
      BY <3>1, <3>2
  <2>4. Sets'
    <3>1. /\ UNCHANGED <<all, exists, used, orphans, doomed>>
          /\ dirty' \subseteq dirty \cup {hold[b]} /\ restarted' \subseteq restarted \cup {hold[b]}
          /\ needsReplace' \subseteq needsReplace \cup {hold[b]}
          /\ Holds(b) \/ UNCHANGED <<dirty, restarted, needsReplace>>
      BY <1>2 DEF Borrow, StartAcquire, AcquireReceives, AcquireGivesUp, AcquireChecksClosed, ConfigureOk, Holds,
         ConfigureFails, AcquireReturnsError, UseAndRelease, UseRestartsAndRelease, UseBreaksAndRelease, GoRelease
    <3>2. Holds(b) => hold[b] \in Containers
      BY <1>0 DEF PlacesInv
    <3> QED
      BY <1>0, <3>1, <3>2
  <2> QED
    BY <2>1, <2>2, <2>3, <2>4
<1>3. ASSUME NEW c \in Containers, Release(c)
      PROVE  (Sets /\ Labels /\ Names)' /\ faults' \in 0..MaxFaults
  <2>1. faults' \in 0..MaxFaults
    BY <1>0, <1>3, FaultCounts DEF Release, ReleaseDecides, ResetOk, ResetFails, ReturnSends,
       ReturnSeesClosed, RemoveForgets, RemoveContainer, RemoveSandbox, SpawnChecksClosed, Spawn
  <2>2. Labels'
    BY <1>0, <1>3 DEF Release, ReleaseDecides, AfterRestart, ResetOk, ResetFails, ReturnSends,
       ReturnSeesClosed, RemoveForgets, RemoveContainer, SpawnChecksClosed, Spawn
  <2>3. Names'
    <3>1. UNCHANGED <<hold, new>> /\ (available' = available \/ available' = Append(available, c))
      BY <1>3 DEF Release, ReleaseDecides, ResetOk, ResetFails, ReturnSends,
         ReturnSeesClosed, RemoveForgets, RemoveContainer, SpawnChecksClosed, Spawn
    <3> QED
      BY <1>0, <3>1, Sending
  <2>4. Sets'
    BY <1>0, <1>3 DEF Release, ReleaseDecides, AfterRestart, ResetOk, ResetFails, ReturnSends,
       ReturnSeesClosed, RemoveForgets, RemoveContainer, RemoveSandbox, SpawnChecksClosed, Spawn
  <2> QED
    BY <2>1, <2>2, <2>3, <2>4
<1>4. ASSUME NEW c \in Containers, Replace(c)
      PROVE  (Sets /\ Labels /\ Names)' /\ faults' \in 0..MaxFaults
  <2>1. faults' \in 0..MaxFaults
    BY <1>0, <1>4, FaultCounts DEF Replace, ReplacementLeaves, ReplacementWaits, TimerFires, StartSandboxOk,
       StartSandboxFails, StartSandboxTimesOut, CountStarted, AddSandbox, ReplacementSends, ReplacementForgets,
       ReplacementRemoved, RemoveSandbox
  <2>2. Labels'
    BY <1>0, <1>4 DEF Replace, ReplacementLeaves, ReplacementWaits, TimerFires, StartSandboxOk, StartSandboxFails,
       StartSandboxTimesOut, CountStarted, AddSandbox, ReplacementSends, ReplacementForgets, ReplacementRemoved
  <2>3. Arriving(c) => new[c] \in Containers
    BY <1>0 DEF PlacesInv
  <2>4. Names'
    <3>1. UNCHANGED hold /\ \/ UNCHANGED <<available, new>>
                            \/ available' = Append(available, new[c]) /\ UNCHANGED new /\ Arriving(c)
                            \/ UNCHANGED available /\ new' = [new EXCEPT ![c] = FreshName] /\ Unused # {}
      BY <1>4 DEF Arriving, Replace, ReplacementLeaves, ReplacementWaits, TimerFires, StartSandboxOk,
         StartSandboxFails, StartSandboxTimesOut, CountStarted, AddSandbox, ReplacementSends,
         ReplacementForgets, ReplacementRemoved
    <3> QED
      BY <1>0, <2>3, <3>1, Sending, FreshIsUnused
  <2>5. Sets'
    <3>1. /\ UNCHANGED <<needsReplace, restarted, dirty, doomed>>
          /\ all' \subseteq all \/ (all' = all \cup {new[c]} /\ Arriving(c))
          /\ \/ UNCHANGED used /\ exists' \subseteq exists
                /\ (orphans' = orphans \/ (orphans' = orphans \cup {new[c]} /\ Arriving(c)))
             \/ /\ Unused # {} /\ used' = used \cup {FreshName} /\ exists' = exists \cup {FreshName}
                /\ orphans' \subseteq orphans \cup {FreshName}
      BY <1>4 DEF Arriving, Replace, ReplacementLeaves, ReplacementWaits, TimerFires, StartSandboxOk,
         StartSandboxFails, StartSandboxTimesOut, CountStarted, AddSandbox, ReplacementSends,
         ReplacementForgets, ReplacementRemoved, RemoveSandbox
    <3> QED
      BY <1>0, <2>3, <3>1, FreshIsUnused
  <2> QED
    BY <2>1, <2>2, <2>4, <2>5
<1>5. ASSUME CloseBegins \/ CloseStep \/ ProcessExits
      PROVE  (Sets /\ Labels /\ Names)' /\ faults' \in 0..MaxFaults
  <2>1. faults' \in 0..MaxFaults
    BY <1>0, <1>5, FaultCounts DEF CloseBegins, CloseStep, ProcessExits, CloseWaited, CloseCollects, CloseReturns,
       CloseRemoves, RemoveSandbox
  <2>2. Sets' /\ Labels' /\ Names'
    BY <1>0, <1>5 DEF CloseBegins, CloseStep, ProcessExits, CloseWaited, CloseCollects, CloseReturns,
       CloseRemoves, RemoveSandbox
  <2> QED
    BY <2>1, <2>2
<1>6. (Sets /\ Labels /\ Names)' /\ faults' \in 0..MaxFaults
  BY <1>2, <1>3, <1>4, <1>5 DEF Next
<1> QED
  BY <1>1, <1>6 DEF TypeOK

-----------------------------------------------------------------------------
(* The theorems.                                                           *)

(* The invariant holds once the pool has started its sandboxes.            *)
LEMMA InitIndInv == Init => IndInv
<1> SUFFICES ASSUME Init PROVE IndInv
  OBVIOUS
<1>1. /\ 1..Capacity \subseteq Containers /\ Capacity \in Nat
      /\ DOMAIN available = 1..Capacity /\ \A i \in 1..Capacity : available[i] = i
      /\ available \in Seq(Containers) /\ Len(available) = Capacity
  <2>1. 1..Capacity \subseteq Containers /\ Capacity \in Nat
    BY CapacityAssumption, ContainersAssumption DEF Containers
  <2> QED
    BY <2>1 DEF Init
<1>2. ToSet(available) = 1..Capacity /\ IsInjective(available)
  BY <1>1 DEF ToSet, IsInjective
<1>3. TypeOK
  <2>1. faults \in 0..MaxFaults
    BY FaultsAssumption DEF Init
  <2> QED
    BY <1>1, <2>1 DEF Init, TypeOK
<1>4. /\ \A c \in Containers : rel[c] = "none" /\ repl[c] = "none" /\ ~Arriving(c)
      /\ \A b \in Borrowers : ~Holds(b) /\ HeldBy(b) = {}
  BY DEF Init, Arriving, Holds, HeldBy
<1>5. PlacesInv
  BY <1>1, <1>2, <1>4 DEF Init, PlacesInv
<1>6. CleanInv /\ CloseInv /\ ChargeInv
  BY <1>2, <1>4 DEF Init, CleanInv, CloseInv, ChargeInv
<1>7. SlotsConserved
  <2>1. Lent = {} /\ Released = {} /\ Replaced = {} /\ Started = {}
    BY <1>4 DEF Lent, Released, Replaced, Started
  <2>2. SlotSum /\ StartingCount
    BY <1>1, <2>1, FS_EmptySet DEF Init, SlotSum, StartingCount
  <2> QED
    BY <2>2, SlotParts
<1> QED
  BY <1>3, <1>5, <1>6, <1>7 DEF IndInv

(* Every step keeps the invariant.                                         *)
LEMMA NextIndInv == IndInv /\ [Next]_vars => IndInv'
<1> SUFFICES ASSUME IndInv, [Next]_vars PROVE IndInv'
  OBVIOUS
<1>0. TypeOK /\ PlacesInv /\ CleanInv /\ CloseInv /\ ChargeInv /\ SlotSum /\ StartingCount
  BY SlotParts DEF IndInv
<1>1. SlotsConserved' <=> SlotSum' /\ StartingCount'
  BY SlotParts, PTL
<1>2. CASE Next
  <2>1. PlacesInv' /\ CleanInv' /\ CloseInv' /\ ChargeInv'
    BY <1>0, <1>2, PlacesKept, CleanKept, CloseKept, ChargeKept
  <2>2. SlotSum' /\ StartingCount'
    BY <1>0, <1>2, SlotsKept, StartingKept
  <2>3. TypeOK'
    BY <1>0, <1>2, <2>2, TypesKept
  <2> QED
    BY <1>1, <2>1, <2>2, <2>3 DEF IndInv
<1>3. CASE UNCHANGED vars
  <2>1. TypeOK'
    BY <1>0, <1>3 DEF vars, TypeOK
  <2>2. PlacesInv' /\ CleanInv' /\ CloseInv' /\ ChargeInv'
    BY <1>0, <1>3 DEF vars, PlacesInv, CleanInv, CloseInv, ChargeInv, Holds, Arriving, Closed
  <2>3. SlotSum' /\ StartingCount'
    BY <1>0, <1>3 DEF vars, SlotSum, StartingCount, Lent, HeldBy, Released, Replaced, Started, Closed
  <2> QED
    BY <1>1, <2>1, <2>2, <2>3 DEF IndInv
<1> QED
  BY <1>2, <1>3

(* The invariant holds throughout every run of the pool.                   *)
THEOREM Invariance == Spec => []IndInv
  BY InitIndInv, NextIndInv, PTL DEF Spec

(* Every variable keeps its type; p.starting never drops below zero.       *)
THEOREM TypeCorrect == Spec => []TypeOK
<1>1. IndInv => TypeOK
  BY DEF IndInv
<1> QED
  BY <1>1, Invariance, PTL

(* No sandbox is with two submissions, or with one and back in the         *)
(* channel, or being released while someone uses it (Acquire, Release and  *)
(* replace, in any order of their goroutines).                             *)
THEOREM NeverShared == Spec => []NoSharedSandbox
<1>1. IndInv => NoSharedSandbox
  BY DEF IndInv, PlacesInv, NoSharedSandbox, HeldBy, Holds
<1> QED
  BY <1>1, Invariance, PTL

(* Until Close, each of the Capacity slots is in exactly one place, and    *)
(* p.starting is the number of replacements under way.                     *)
THEOREM Conservation == Spec => []SlotsConserved
<1>1. IndInv => SlotsConserved
  BY DEF IndInv
<1> QED
  BY <1>1, Invariance, PTL

(* Every sandbox in the channel was reset, restarted or newly started      *)
(* since the last submission used it.                                      *)
THEOREM CleanChannel == Spec => []AvailableIsClean
<1>1. IndInv => AvailableIsClean
  BY DEF IndInv, CleanInv, AvailableIsClean
<1> QED
  BY <1>1, Invariance, PTL

(* When Close has returned, every container the pool ever learned of is    *)
(* gone or is just being removed by a Release.                             *)
THEOREM NoneForgotten == Spec => []NothingForgotten
<1>1. IndInv => NothingForgotten
  BY DEF IndInv, TypeOK, CloseInv, ChargeInv, NothingForgotten
<1> QED
  BY <1>1, Invariance, PTL
-----------------------------------------------------------------------------
(* The pool implements SandboxLending: the sandboxes ready are the ones in *)
(* the channel, a worker has the one it received until it releases it.     *)

(* A step that moves no sandbox to or from the channel or a worker.        *)
LEMMA LendingStutters ==
  ASSUME UNCHANGED <<available, dirty>>, \A b \in Borrowers : HeldBy(b)' = HeldBy(b)
  PROVE  UNCHANGED Lending!lendingVars
<1>1. UNCHANGED <<ToSet(available), dirty>>
  BY DEF ToSet
<1>2. [b \in Borrowers |-> HeldBy(b)]' = [b \in Borrowers |-> HeldBy(b)]
  OBVIOUS
<1> QED
  BY <1>1, <1>2 DEF Lending!lendingVars

(* Sending a sandbox nobody has and that is clean offers it.               *)
LEMMA LendingOffers ==
  ASSUME TypeOK, NEW c \in Containers,
         c \notin ToSet(available), c \notin dirty, \A b \in Borrowers : c \notin HeldBy(b),
         available' = Append(available, c), UNCHANGED dirty, \A b \in Borrowers : HeldBy(b)' = HeldBy(b)
  PROVE  Lending!Next
<1>1. ToSet(available)' = ToSet(available) \cup {c}
  BY Sending DEF TypeOK
<1>2. [b \in Borrowers |-> HeldBy(b)]' = [b \in Borrowers |-> HeldBy(b)]
  OBVIOUS
<1>3. c \notin Lending!Lent
  BY DEF Lending!Lent
<1>4. Lending!Offer(c)
  BY <1>1, <1>2, <1>3 DEF Lending!Offer
<1> QED
  BY <1>4 DEF Lending!Next

(* Receiving from the channel is a loan.                                   *)
LEMMA LendingLends ==
  ASSUME TypeOK, PlacesInv, NEW b \in Borrowers, AcquireReceives(b)
  PROVE  Lending!Next
<1>1. /\ Head(available) \in ToSet(available) /\ Head(available) \in Containers
      /\ ToSet(available)' = ToSet(available) \ {Head(available)}
  BY Receiving DEF TypeOK, PlacesInv, AcquireReceives
<1>2. HeldBy(b) = {} /\ HeldBy(b)' = {Head(available)} /\ \A a \in Borrowers \ {b} : HeldBy(a)' = HeldBy(a)
  BY DEF AcquireReceives, HeldBy, Goto, TypeOK
<1>3. [a \in Borrowers |-> HeldBy(a)]' = [[a \in Borrowers |-> HeldBy(a)] EXCEPT ![b] = {Head(available)}]
  BY <1>2
<1>4. dirty' = dirty
  BY DEF AcquireReceives, dockerVars
<1>5. Lending!Lend(b, Head(available))
  BY <1>1, <1>2, <1>3, <1>4 DEF Lending!Lend
<1> QED
  BY <1>1, <1>5 DEF Lending!Next

(* A worker that no longer has its sandbox gave it back.                   *)
LEMMA LendingGivesBack ==
  ASSUME TypeOK, NEW b \in Borrowers, Holds(b), pc' = [pc EXCEPT ![b] = pc'[b]], ~Holds(b)',
         \A a \in Borrowers \ {b} : hold'[a] = hold[a], UNCHANGED available,
         dirty' \in {dirty \cup {hold[b]}, dirty, dirty \ {hold[b]}}, hold[b] \in Containers
  PROVE  Lending!Next
<1>1. HeldBy(b) = {hold[b]} /\ HeldBy(b)' = {} /\ \A a \in Borrowers \ {b} : HeldBy(a)' = HeldBy(a)
  BY DEF HeldBy, Holds, TypeOK
<1>2. [a \in Borrowers |-> HeldBy(a)]' = [[a \in Borrowers |-> HeldBy(a)] EXCEPT ![b] = {}]
  BY <1>1
<1>3. ToSet(available)' = ToSet(available)
  BY DEF ToSet
<1>4. Lending!GiveBack(b, hold[b])
  BY <1>1, <1>2, <1>3 DEF Lending!GiveBack
<1> QED
  BY <1>4 DEF Lending!Next

(* Resetting a sandbox in Release cleans it.                               *)
LEMMA LendingCleans ==
  ASSUME TypeOK, PlacesInv, NEW c \in Containers, ResetOk(c)
  PROVE  Lending!Next
<1>1. UNCHANGED available /\ \A b \in Borrowers : HeldBy(b)' = HeldBy(b)
  BY DEF ResetOk, poolVars, borrowVars, HeldBy
<1>2. ToSet(available)' = ToSet(available) /\ [b \in Borrowers |-> HeldBy(b)]' = [b \in Borrowers |-> HeldBy(b)]
  BY <1>1 DEF ToSet
<1>3. rel[c] = "resetting" /\ dirty' = dirty \ {c}
  BY DEF ResetOk
<1>4. c \notin ToSet(available) /\ \A b \in Borrowers : c \notin HeldBy(b)
  BY <1>3 DEF PlacesInv, HeldBy, Holds
<1>5. Lending!Clean(c)
  BY <1>2, <1>3, <1>4 DEF Lending!Clean, Lending!Lent
<1> QED
  BY <1>5 DEF Lending!Next

(* What a worker does.                                                     *)
LEMMA BorrowLends ==
  ASSUME TypeOK, PlacesInv, NEW b \in Borrowers, Borrow(b)
  PROVE  Lending!Next \/ UNCHANGED Lending!lendingVars
<1> USE DEF poolVars, dockerVars, borrowVars
<1>0. Holds(b) => hold[b] \in Containers
  BY DEF PlacesInv, TypeOK
<1>1. CASE StartAcquire(b) \/ AcquireGivesUp(b)
  <2>1. \A a \in Borrowers : HeldBy(a)' = HeldBy(a)
    BY <1>1 DEF StartAcquire, AcquireGivesUp, Goto, HeldBy, TypeOK
  <2> QED
    BY <1>1, <2>1, LendingStutters DEF StartAcquire, AcquireGivesUp
<1>2. CASE AcquireReceives(b)
  BY <1>2, LendingLends
<1>3. CASE AcquireChecksClosed(b) /\ Closed
  <2>1. /\ Holds(b) /\ pc' = [pc EXCEPT ![b] = "failing"] /\ pc'[b] = "failing" /\ hold' = hold
        /\ UNCHANGED <<available, dirty>>
    BY <1>3 DEF AcquireChecksClosed, Goto, Holds, TypeOK
  <2>2. ~Holds(b)'
    BY <2>1 DEF Holds
  <2> QED
    BY <1>0, <2>1, <2>2, LendingGivesBack
<1>4. CASE ConfigureOk(b) \/ (AcquireChecksClosed(b) /\ ~Closed)
  <2>1. \A a \in Borrowers : HeldBy(a)' = HeldBy(a)
    BY <1>4 DEF ConfigureOk, AcquireChecksClosed, Goto, HeldBy, TypeOK
  <2> QED
    BY <1>4, <2>1, LendingStutters DEF ConfigureOk, AcquireChecksClosed
<1>5. CASE ConfigureFails(b)
  <2>1. /\ Holds(b) /\ pc' = [pc EXCEPT ![b] = "failing"] /\ pc'[b] = "failing" /\ hold' = hold
        /\ UNCHANGED <<available, dirty>>
    BY <1>5 DEF ConfigureFails, Goto, Holds, TypeOK
  <2>2. ~Holds(b)'
    BY <2>1 DEF Holds
  <2> QED
    BY <1>0, <2>1, <2>2, LendingGivesBack
<1>6. CASE AcquireReturnsError(b)
  <2>1. \A a \in Borrowers : HeldBy(a)' = HeldBy(a)
    BY <1>6 DEF AcquireReturnsError, Goto, HeldBy, TypeOK
  <2> QED
    BY <1>6, <2>1, LendingStutters DEF AcquireReturnsError
<1>7. CASE UseAndRelease(b) \/ UseRestartsAndRelease(b) \/ UseBreaksAndRelease(b)
  <2>1. /\ Holds(b) /\ pc' = [pc EXCEPT ![b] = "idle"] /\ pc'[b] = "idle"
        /\ \A a \in Borrowers \ {b} : hold'[a] = hold[a]
    BY <1>7 DEF UseAndRelease, UseRestartsAndRelease, UseBreaksAndRelease, GoRelease, Goto, Holds, TypeOK
  <2>2. UNCHANGED available /\ dirty' \in {dirty \cup {hold[b]}, dirty, dirty \ {hold[b]}}
    BY <1>7 DEF UseAndRelease, UseRestartsAndRelease, UseBreaksAndRelease
  <2>3. ~Holds(b)'
    BY <2>1 DEF Holds
  <2> QED
    BY <1>0, <2>1, <2>2, <2>3, LendingGivesBack
<1> QED
  BY <1>1, <1>2, <1>3, <1>4, <1>5, <1>6, <1>7 DEF Borrow

(* What Release and the replacements do.                                   *)
LEMMA ReleaseLends ==
  ASSUME TypeOK, PlacesInv, CleanInv, NEW c \in Containers, Release(c) \/ Replace(c)
  PROVE  Lending!Next \/ UNCHANGED Lending!lendingVars
<1> USE DEF poolVars, dockerVars, borrowVars
<1>1. UNCHANGED <<pc, hold>>
  BY DEF Release, Replace, ReleaseDecides, ResetOk, ResetFails, ReturnSends, ReturnSeesClosed, RemoveForgets,
         RemoveContainer, SpawnChecksClosed, Spawn, ReplacementLeaves, ReplacementWaits, TimerFires,
         StartSandboxOk, StartSandboxFails, StartSandboxTimesOut, CountStarted, AddSandbox,
         ReplacementSends, ReplacementForgets, ReplacementRemoved
<1>2. \A b \in Borrowers : HeldBy(b)' = HeldBy(b)
  BY <1>1 DEF HeldBy
<1>3. CASE ReturnSends(c)
  <2>1. rel[c] = "returning" /\ available' = Append(available, c) /\ dirty' = dirty
    BY <1>3 DEF ReturnSends
  <2>2. c \notin ToSet(available) /\ c \notin dirty /\ \A b \in Borrowers : c \notin HeldBy(b)
    BY <2>1 DEF PlacesInv, CleanInv, HeldBy, Holds
  <2> QED
    BY <1>2, <2>1, <2>2, LendingOffers
<1>4. CASE ReplacementSends(c)
  <2>1. Arriving(c) /\ available' = Append(available, new[c]) /\ dirty' = dirty
    BY <1>4 DEF ReplacementSends, Arriving
  <2>2. /\ new[c] \in Containers /\ new[c] \notin ToSet(available) /\ new[c] \notin dirty
        /\ \A b \in Borrowers : new[c] \notin HeldBy(b)
    BY <2>1 DEF TypeOK, PlacesInv, CleanInv, HeldBy, Holds
  <2> QED
    BY <1>2, <2>1, <2>2, LendingOffers
<1>5. CASE ResetOk(c)
  BY <1>5, LendingCleans
<1>6. CASE UNCHANGED <<available, dirty>>
  BY <1>2, <1>6, LendingStutters
<1>7. CASE Release(c)
  BY <1>3, <1>5, <1>6, <1>7
     DEF Release, ReleaseDecides, ResetFails, ReturnSeesClosed, RemoveForgets, RemoveContainer, SpawnChecksClosed, Spawn
<1>8. CASE Replace(c)
  BY <1>4, <1>6, <1>8
     DEF Replace, ReplacementLeaves, ReplacementWaits, TimerFires, StartSandboxOk, StartSandboxFails,
         StartSandboxTimesOut, CountStarted, AddSandbox, ReplacementForgets, ReplacementRemoved
<1> QED
  BY <1>7, <1>8

(* Every step of the pool is a step of the lending or leaves it alone.     *)
LEMMA LendingStep == IndInv /\ [Next]_vars => [Lending!Next]_(Lending!lendingVars)
<1> SUFFICES ASSUME IndInv, [Next]_vars
             PROVE  Lending!Next \/ UNCHANGED Lending!lendingVars
  OBVIOUS
<1>1. TypeOK /\ PlacesInv /\ CleanInv
  BY DEF IndInv
<1>2. CASE CloseBegins \/ CloseStep \/ ProcessExits \/ UNCHANGED vars
  <2>1. UNCHANGED <<available, dirty, pc, hold>>
    BY <1>2 DEF CloseBegins, CloseStep, CloseWaited, CloseCollects, CloseRemoves, CloseReturns, ProcessExits,
                vars, poolVars, dockerVars, borrowVars
  <2> QED
    BY <2>1, LendingStutters DEF HeldBy
<1> QED
  BY <1>1, <1>2, BorrowLends, ReleaseLends DEF Next

(* The pool, with every interleaving of Acquire, Release, replacements,    *)
(* failures of Docker and Close, lends its sandboxes as SandboxLending     *)
(* says: to one worker at a time, and clean.                               *)
THEOREM Refinement == Spec => LendingSpec
<1>1. Init => Lending!Init
  <2> SUFFICES ASSUME Init PROVE Lending!Init
    OBVIOUS
  <2>1. [b \in Borrowers |-> HeldBy(b)] = [b \in Borrowers |-> {}]
    BY DEF Init, HeldBy
  <2>2. ToSet(available) \subseteq Containers
    <3>1. available \in Seq(Containers)
      BY InitIndInv DEF IndInv, TypeOK
    <3> QED
      BY <3>1 DEF ToSet
  <2> QED
    BY <2>1, <2>2 DEF Init, Lending!Init
<1> QED
  BY <1>1, Invariance, LendingStep, PTL DEF Spec, LendingSpec, Lending!Spec
=============================================================================
