----------------------------- MODULE FrameFlow ------------------------------
(***************************************************************************)
(* What the point-cloud pipeline promises of each sensor's frames, with    *)
(* nothing of how it does it: a capture is measured by the edge before it  *)
(* is shown, at each stage at most once, and never after a later one.      *)
(* Frames may be lost anywhere.                                            *)
(***************************************************************************)
EXTENDS Naturals, Sequences

CONSTANT Source     \* the sensors

VARIABLES
    captured,       \* Source -> how many captures it made
    measured,       \* Source -> the captures measured, in order
    shown           \* Source -> the captures shown, in order

vars == <<captured, measured, shown>>

Members(log) == {log[i] : i \in 1..Len(log)}

Follows(k, log) == \A j \in Members(log) : j < k

Capture(s) ==
    /\ captured' = [captured EXCEPT ![s] = @ + 1]
    /\ UNCHANGED <<measured, shown>>

Measure(s) ==
    /\ \E k \in 1..captured[s] :
           /\ Follows(k, measured[s])
           /\ measured' = [measured EXCEPT ![s] = Append(@, k)]
    /\ UNCHANGED <<captured, shown>>

Show(s) ==
    /\ \E k \in Members(measured[s]) :
           /\ Follows(k, shown[s])
           /\ shown' = [shown EXCEPT ![s] = Append(@, k)]
    /\ UNCHANGED <<captured, measured>>

Init ==
    /\ captured = [s \in Source |-> 0]
    /\ measured = [s \in Source |-> <<>>]
    /\ shown = measured

Next == \E s \in Source : Capture(s) \/ Measure(s) \/ Show(s)

Spec == Init /\ [][Next]_vars
=============================================================================
