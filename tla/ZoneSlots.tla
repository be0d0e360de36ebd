----------------------------- MODULE ZoneSlots ------------------------------
(***************************************************************************)
(* What the admin service promises about runs and zones, with nothing of   *)
(* how it does it: each zone has one slot, a run takes the free slot of    *)
(* its zone, keeps it until it ends, and a run that has ended is spent.    *)
(*                                                                         *)
(* A crash of the service empties every slot.  The promise across a crash  *)
(* is weaker: the service recovers from what it had written, so a holder   *)
(* may come back spent or unused, and an ending that never reached the     *)
(* disk is forgotten.                                                      *)
(***************************************************************************)
CONSTANTS
    Run, Zone,
    CanCrash    \* whether the service may be killed at all

VARIABLES slot,    \* Zone -> the set of runs holding its slot
          spent    \* the runs that have ended

vars == <<slot, spent>>

Holders == UNION {slot[z] : z \in Zone}

Start(r, z) ==
    /\ slot[z] = {}
    /\ r \notin Holders \cup spent
    /\ slot' = [slot EXCEPT ![z] = {r}]
    /\ UNCHANGED spent

End(r, z) ==
    /\ r \in slot[z]
    /\ slot' = [slot EXCEPT ![z] = @ \ {r}]
    /\ spent' = spent \cup {r}

(* A run removed without ever having been started.                         *)
Discard(r) ==
    /\ r \notin Holders
    /\ spent' = spent \cup {r}
    /\ UNCHANGED slot

Crash ==
    /\ CanCrash
    /\ slot' = [z \in Zone |-> {}]
    /\ spent' \in SUBSET (spent \cup Holders)

Init == slot = [z \in Zone |-> {}] /\ spent = {}

Next ==
    \/ \E r \in Run : Discard(r) \/ \E z \in Zone : Start(r, z) \/ End(r, z)
    \/ Crash

Spec == Init /\ [][Next]_vars
=============================================================================
