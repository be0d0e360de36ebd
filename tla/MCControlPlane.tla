--------------------------- MODULE MCControlPlane ---------------------------
(* Instances of ControlPlane for TLC.                                      *)
EXTENDS ControlPlane

Kind(z, p) == [zone |-> z, profile |-> p]

MCOneZone  == {Kind("A", "robotics")}
MCTwoZones == {Kind("A", "robotics"), Kind("B", "robotics")}


(* "c" is a lidar client in zone A, "x" an xApp in zone B.                  *)
MCZone    == [n \in Node |-> IF n = "c" THEN "A" ELSE "B"]
MCType    == [n \in Node |-> IF n = "c" THEN "client" ELSE "xapp"]
MCProfile == [n \in Node |-> IF n = "c" THEN "robotics" ELSE "any"]
MCQuorum  == [robotics |-> {"client"}]
=============================================================================
