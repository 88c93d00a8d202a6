----------------------------- MODULE MCBackfill -----------------------------
(* Instances of Backfill for TLC, with readings like those of MCIngestion. *)
EXTENDS Backfill

MCRegistry == {"TR-001", "TR-002"}

Reading0(id, spelling) ==
    [schemaVersion |-> 1, transformerId |-> id,
     timestamp |-> [instant |-> 1, spelling |-> spelling],
     loadPercent |-> 70000, ambientTempC |-> 25000, oilTempC |-> 60000,
     windingTempC |-> 72000, oilLevelPercent |-> 95000, currentA |-> 800,
     voltageKV |-> 230000, state |-> "NORMAL"]

On(body) == [topic |-> body.transformerId, json |-> TRUE, body |-> body]

Sample == On(Reading0("TR-001", "Z"))
Rerun == On([Reading0("TR-001", "Z") EXCEPT !.windingTempC = 96000])
Respelled == On(Reading0("TR-001", "+00:00"))

(* Admitted, and refused by a CHECK constraint of the measurements table.  *)
Freezing ==
    On([Reading0("TR-002", "Z") EXCEPT
          !.ambientTempC = -20000, !.oilTempC = -20000, !.windingTempC = -20300])

Other == On(Reading0("TR-002", "Z"))

ShapeMessages == {Sample, Rerun, Respelled, Freezing}
=============================================================================
