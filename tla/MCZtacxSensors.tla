---------------------------- MODULE MCZtacxSensors ----------------------------
(***************************************************************************)
(* A small instance of ZtacxSensors: the battery, whose reading 0 stands   *)
(* for none, beside the temperature, with a flag; the lidar and the light, *)
(* whose 3 stands for none, each alone.  Published values have two bits:   *)
(* the battery's 5 is published as 1, the temperature's 2 as -2, the       *)
(* light's 6 as 2, and its 3 as none.  The temperature is published        *)
(* always, its threshold being 0; the lidar's and the light's thresholds   *)
(* are set meanwhile.                                                      *)
(***************************************************************************)
EXTENDS ZtacxSensors

SensorMC  == {"battery", "temp", "lidar", "lux"}
ReadingMC == [battery |-> {3, 5}, temp |-> {2}, lidar |-> 0..2, lux |-> {1, 3, 6}]

\* The battery is charged by a unit for each reading above 0, the lidar detects
\* what is nearer than 1.
DerivedMC    == [battery |-> [r \in {3, 5} |-> r], lidar |-> [r \in 0..2 |-> IF r < 1 THEN 1 ELSE 0]]
MarkerMC     == [battery |-> 0, lidar |-> 3, lux |-> 3]
ThresholdsMC == [battery |-> {2}, temp |-> {0}, lidar |-> {1, 2}, lux |-> {0, 2}]
PresetMC     == [battery |-> 2, temp |-> 0, lidar |-> 1, lux |-> 2]
BootMC       == [battery |-> 0, temp |-> 0, lidar |-> 3, lux |-> 3]
WorkingMC    == {{"battery", "temp"}, {"lidar"}, {"lux"}}

=============================================================================
