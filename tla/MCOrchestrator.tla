--------------------------- MODULE MCOrchestrator ---------------------------
(* Instances of Orchestrator for TLC: one lidar client, and the quorum     *)
(* rule cut down to it.                                                    *)
EXTENDS Orchestrator

Kind(z, p) == [zone |-> z, profile |-> p]

MCOneZone  == {Kind("A", "robotics")}
MCTwoZones == {Kind("A", "robotics"), Kind("B", "robotics")}

MCZone    == [n \in Node |-> "A"]
MCType    == [n \in Node |-> "client"]
MCProfile == [n \in Node |-> "robotics"]

MCClientQuorum == [robotics |-> {"client"}]
=============================================================================
