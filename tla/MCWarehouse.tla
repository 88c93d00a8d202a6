---------------------------- MODULE MCWarehouse ----------------------------
(***************************************************************************)
(* Instances of Warehouse for TLC: a fleet of one transformer and a wider  *)
(* one, two instants to the second, and samples each there for one rule.   *)
(***************************************************************************)
EXTENDS Warehouse

MCIds == {"TR-001", "TR-002"}
MCFleets == {{"TR-001"}, MCIds}

SampleOf(id, instant, spelling) ==
    [schemaVersion |-> 1, transformerId |-> id,
     timestamp |-> [instant |-> instant, spelling |-> spelling],
     loadPercent |-> 70000, ambientTempC |-> 25000, oilTempC |-> 60000,
     windingTempC |-> 72000, oilLevelPercent |-> 95000, currentA |-> 800,
     voltageKV |-> 230000, state |-> "NORMAL"]

OwnTopic(body) == [topic |-> body.transformerId, json |-> TRUE, body |-> body]

Steady == OwnTopic(SampleOf("TR-001", 2, "Z"))

(* In the same second, with the winding a little cooler than the oil.      *)
HalfSecond == OwnTopic([SampleOf("TR-001", 3, "Z") EXCEPT !.windingTempC = 59700])

(* Admitted with a state the thresholds disagree with.                     *)
Mislabelled == OwnTopic([SampleOf("TR-001", 4, "Z") EXCEPT !.windingTempC = 96000])

(* Beyond the range of the load: never admitted.                           *)
Overloaded == OwnTopic([SampleOf("TR-001", 5, "Z") EXCEPT !.loadPercent = 200001])

(* The JSON says nothing of the load: Go decodes zero, silver reads NULL.  *)
Silent == OwnTopic([SampleOf("TR-002", 2, "+00:00") EXCEPT !.loadPercent = 0])

(* Two samples whose key is "Timestamp": silver finds no timestamp, and    *)
(* takes them for two readings of one.                                     *)
Recased == OwnTopic([SampleOf("TR-002", 3, "Z") EXCEPT !.oilTempC = 61000])
RecasedLater == OwnTopic([SampleOf("TR-002", 4, "Z") EXCEPT !.oilTempC = 62000])

(* Keys in two cases, as in "load_percent" and "Load_Percent": Go decodes  *)
(* the last ones, silver reads others, and the state is a fourth string.   *)
Shadowed == OwnTopic([SampleOf("TR-002", 5, "Z") EXCEPT !.loadPercent = 50000])

(* A timestamp PostgreSQL has none for.                                    *)
YearZero == OwnTopic(SampleOf("TR-001", 0, "Z"))

MixedMessages == {Steady, HalfSecond, Mislabelled, Overloaded, Silent, Recased,
                  RecasedLater, Shadowed, YearZero}

MCReads(r) ==
    CASE r.payload = Silent.body   -> [AsDecoded(r) EXCEPT !.loadPercent = {}]
      [] r.payload \in {Recased.body, RecasedLater.body} ->
           [AsDecoded(r) EXCEPT !.timestamp = {}]
      [] r.payload = Shadowed.body ->
           [AsDecoded(r) EXCEPT !.loadPercent = {500000}, !.transformerId = {"TR-001"},
                                !.state = {"other"}]
      [] r.payload = YearZero.body ->
           [AsDecoded(r) EXCEPT !.timestamp = {[instant |-> 0, spelling |-> "garbled"]}]
      [] OTHER                     -> AsDecoded(r)

(* All of them are ingested in one second: the keys, which begin alike and *)
(* go on with the instant, put them in order.                              *)
MCNewer(r, q) == r.payload.timestamp.instant > q.payload.timestamp.instant
=============================================================================
