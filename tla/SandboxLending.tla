--------------------------- MODULE SandboxLending ---------------------------
(***************************************************************************)
(* What the runtime pool promises to submissions, whatever fails in the    *)
(* sandboxes and in Docker and however Acquire, Release, the replacements  *)
(* and Close interleave: a sandbox is lent to one worker at a time, and    *)
(* between two loans it is offered again only when nothing of the earlier  *)
(* submission is left in it.                                               *)
(***************************************************************************)
CONSTANTS Borrowers, Sandboxes

VARIABLES ready,    \* sandboxes that can be borrowed
          lent,     \* the sandboxes a worker has, at most one
          soiled    \* sandboxes with files or processes of a submission

lendingVars == <<ready, lent, soiled>>

Lent == UNION {lent[b] : b \in Borrowers}
-----------------------------------------------------------------------------
Init ==
  /\ ready \subseteq Sandboxes
  /\ lent = [b \in Borrowers |-> {}]
  /\ soiled = {}

Lend(b, c) ==
  /\ lent[b] = {} /\ c \in ready
  /\ lent' = [lent EXCEPT ![b] = {c}]
  /\ ready' = ready \ {c}
  /\ UNCHANGED soiled

(* Used, not used at all, or used and cleaned by the worker itself.        *)
GiveBack(b, c) ==
  /\ lent[b] = {c}
  /\ lent' = [lent EXCEPT ![b] = {}]
  /\ soiled' \in {soiled \cup {c}, soiled, soiled \ {c}}
  /\ UNCHANGED ready

Clean(c) ==
  /\ c \notin ready \cup Lent
  /\ soiled' = soiled \ {c}
  /\ UNCHANGED <<ready, lent>>

Offer(c) ==
  /\ c \notin ready \cup Lent \cup soiled
  /\ ready' = ready \cup {c}
  /\ UNCHANGED <<lent, soiled>>

Next ==
  \/ \E b \in Borrowers, c \in Sandboxes : Lend(b, c) \/ GiveBack(b, c)
  \/ \E c \in Sandboxes : Clean(c) \/ Offer(c)

Spec == Init /\ [][Next]_lendingVars
=============================================================================
