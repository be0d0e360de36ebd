------------------------------ MODULE RunState ------------------------------
(***************************************************************************)
(* The run state machine of the admin service (state.py): a table from a   *)
(* state and an event to the next state, and the three classes of states   *)
(* the rest of the service asks about.  The module is pure, as the code's  *)
(* is.  States and events are the strings of the RunState and Event enums; *)
(* "absent" stands for a run id that was never created.                    *)
(***************************************************************************)

Absent == "absent"

RunStates == {"draft", "starting", "running", "degraded",
              "stopping", "stopped", "failed", "removed"}

Events == {"start", "stop", "remove", "quorum_met", "participant_lost",
           "participant_recovered", "all_offline", "reports_complete",
           "start_timeout", "stop_timeout"}

(* What an operator may ask for (the Action enum); each is also an event.  *)
Actions == {"start", "stop", "remove"}

(* Mutant: a run that failed may be started again.                         *)
TransitionsRestartable ==
  [ draft    |-> [ start |-> "starting", remove |-> "removed" ],
    starting |-> [ quorum_met |-> "running", stop |-> "stopping",
                   start_timeout |-> "failed", all_offline |-> "failed" ],
    running  |-> [ participant_lost |-> "degraded", stop |-> "stopping",
                   all_offline |-> "failed" ],
    degraded |-> [ participant_recovered |-> "running", participant_lost |-> "degraded",
                   stop |-> "stopping", all_offline |-> "failed" ],
    stopping |-> [ reports_complete |-> "stopped", all_offline |-> "stopped",
                   stop_timeout |-> "stopped", stop |-> "stopped" ],
    stopped  |-> [ remove |-> "removed" ],
    failed   |-> [ start |-> "starting", remove |-> "removed" ] ]

(* _TRANSITIONS, by state and then by event.                               *)
Transitions ==
  [ draft    |-> [ start  |-> "starting",
                   remove |-> "removed" ],
    starting |-> [ quorum_met    |-> "running",
                   stop          |-> "stopping",
                   start_timeout |-> "failed",
                   all_offline   |-> "failed" ],
    running  |-> [ participant_lost |-> "degraded",
                   stop             |-> "stopping",
                   all_offline      |-> "failed" ],
    degraded |-> [ participant_recovered |-> "running",
                   participant_lost      |-> "degraded",
                   stop                  |-> "stopping",
                   all_offline           |-> "failed" ],
    stopping |-> [ reports_complete |-> "stopped",
                   all_offline      |-> "stopped",
                   stop_timeout     |-> "stopped",
                   stop             |-> "stopped" ],
    stopped  |-> [ remove |-> "removed" ],
    failed   |-> [ remove |-> "removed" ] ]

(* advance() raises TransitionError when the pair is not in the table.     *)
Legal(s, e) == s \in DOMAIN Transitions /\ e \in DOMAIN Transitions[s]
advance(s, e) == Transitions[s][e]

(* _ALLOWED: the buttons of a row of the operator page.                    *)
Allowed ==
  [ draft    |-> {"start", "remove"},
    starting |-> {"stop"},
    running  |-> {"stop"},
    degraded |-> {"stop"},
    stopping |-> {"stop"},
    stopped  |-> {"remove"},
    failed   |-> {"remove"},
    removed  |-> {} ]

TERMINAL == {"stopped", "failed", "removed"}
OCCUPIES_SLOT == {"starting", "running", "degraded", "stopping"}
ACCEPTS_PARTICIPANTS == {"starting", "running", "degraded"}
=============================================================================
