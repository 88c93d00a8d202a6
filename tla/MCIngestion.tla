---------------------------- MODULE MCIngestion ----------------------------
(***************************************************************************)
(* Instances of Ingestion for TLC: two registered transformers, one that   *)
(* is not, and a handful of messages, each there for one path of the       *)
(* handler.                                                                *)
(***************************************************************************)
EXTENDS Ingestion

MCRegistry == {"TR-001", "TR-002"}
MCIds == MCRegistry \cup {"TR-999"}

(* A reading within every range; the overrides select the cases.           *)
Reading(id, instant, spelling) ==
    [schemaVersion |-> 1, transformerId |-> id,
     timestamp |-> [instant |-> instant, spelling |-> spelling],
     loadPercent |-> 70000, ambientTempC |-> 25000, oilTempC |-> 60000,
     windingTempC |-> 72000, oilLevelPercent |-> 95000, currentA |-> 800,
     voltageKV |-> 230000, state |-> "NORMAL"]

On(topic, body) == [topic |-> topic, json |-> TRUE, body |-> body]

Sample == On("TR-001", Reading("TR-001", 1, "Z"))

(* The same instant from a second run of the simulator: other values, and  *)
(* a state the thresholds disagree with.                                   *)
Rerun == On("TR-001", [Reading("TR-001", 1, "Z") EXCEPT !.windingTempC = 96000])

(* The same instant spelled with an offset.                                *)
Respelled == On("TR-001", Reading("TR-001", 1, "+00:00"))

Other == On("TR-002", Reading("TR-002", 1, "Z"))

(* Published under another transformer's topic.                            *)
Misrouted == On("TR-002", Reading("TR-001", 1, "Z"))

(* Not in the fleet CSV.                                                   *)
Unregistered == On("TR-999", Reading("TR-999", 1, "Z"))

(* Ahead of the clock by more than the tolerated skew, until a tick later. *)
Early == On("TR-001", Reading("TR-001", 2, "Z"))

(* Oil at -20 degrees and winding at -20.3: within the validator's half    *)
(* degree, below the CHECK constraint of the measurements table.  It has   *)
(* the key of Other, whose row fits.                                       *)
Freezing ==
    On("TR-002", [Reading("TR-002", 1, "Z") EXCEPT
                    !.ambientTempC = -20000, !.oilTempC = -20000,
                    !.windingTempC = -20300])

HandlerMessages ==
    {Sample, Rerun, Respelled, Misrouted, Unregistered, Early, Freezing}
SessionMessages == {Sample, Rerun, Respelled, Other}
RefusedMessages == SessionMessages \cup {Freezing}
TwoMessages == {Sample, Other}
=============================================================================
