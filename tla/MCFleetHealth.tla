--------------------------- MODULE MCFleetHealth ---------------------------
(* One crash of the watchdog with everything else working, or sends and     *)
(* marker operations that fail.                                             *)
EXTENDS FleetHealth

MCEnvs == {[workers |-> Hosts, slowSends |-> FALSE, sendFails |-> f, diskFails |-> f,
            maxCrashes |-> IF f THEN 0 ELSE 1] : f \in BOOLEAN}
=============================================================================
