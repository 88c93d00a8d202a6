----------------------------- MODULE Telemetry -----------------------------
(***************************************************************************)
(* The telemetry contract shared by the simulator, the ingestion service   *)
(* and the database: what a payload is, when ingestion admits it, how its  *)
(* state is classified, and what the measurements table makes of it.       *)
(*                                                                         *)
(* Units.  The float64 fields of a payload are integers here: thousandths  *)
(* of a percent, of a degree Celsius or of a kilovolt, so that both the    *)
(* 0.5 degree tolerance of the validator and the rounding of the           *)
(* numeric(.., 2) columns are visible.  Currents are whole amperes: no     *)
(* rule tells two fractions of an ampere apart.                            *)
(***************************************************************************)
EXTENDS Integers

SchemaVersion == 1

States == {"NORMAL", "WARNING", "CRITICAL"}

(* What a payload may carry as its state: "other" is any unknown string.   *)
Labels == States \cup {"other"}

(* A timestamp is the instant it denotes and the way it is spelled.  RFC   *)
(* 3339 has several spellings of one instant ("Z", "+00:00"); "garbled" is *)
(* a string time.Parse refuses.                                            *)
Spellings == {"Z", "+00:00", "garbled"}
Timestamp == [instant : Nat, spelling : Spellings]

(* telemetry.Measurement: the decoded payload.  Ids is the set of          *)
(* transformer identifiers that can appear in one.                         *)
Measurement(Ids) ==
    [schemaVersion   : Nat,
     transformerId   : Ids,
     timestamp       : Timestamp,
     loadPercent     : Int,
     ambientTempC    : Int,
     oilTempC        : Int,
     windingTempC    : Int,
     oilLevelPercent : Int,
     currentA        : Int,
     voltageKV       : Int,
     state           : Labels]

-----------------------------------------------------------------------------
(* ClassifyState: the thresholds are inclusive, except the overload one.   *)
ClassifyState(winding, oil, load) ==
    IF winding >= 105000 \/ oil >= 100000 \/ load >= 140000 THEN "CRITICAL"
    ELSE IF winding >= 95000 \/ oil >= 90000 \/ load > 100000 THEN "WARNING"
    ELSE "NORMAL"

(* Normalize recomputes the state; every other field is kept as sent.      *)
Normalize(m) ==
    [m EXCEPT !.state =
        ClassifyState(m.windingTempC, m.oilTempC, m.loadPercent)]

(* DedupKey is built from the STRING of the timestamp: two spellings of    *)
(* one instant give two keys.                                              *)
DedupKey(m) == <<m.transformerId, m.timestamp>>

(* The natural key of the measurements table: the column is timestamptz,   *)
(* so only the instant is left of the timestamp.                           *)
NaturalKey(m) == <<m.transformerId, m.timestamp.instant>>

-----------------------------------------------------------------------------
(* Mutant of Plausible: the rule at validate.go:64 is left out.            *)
PlausibleAtAnyLoad(m) ==
    /\ -20000 <= m.ambientTempC /\ m.ambientTempC <= 55000
    /\ -20000 <= m.oilTempC /\ m.oilTempC <= 150000
    /\ m.oilTempC - 500 <= m.windingTempC /\ m.windingTempC <= 200000
    /\ 0 <= m.oilLevelPercent /\ m.oilLevelPercent <= 100000
    /\ m.currentA >= 0
    /\ m.voltageKV > 0
    /\ m.state \in States

(* The physical-range rules of Validator.Validate.                         *)
Plausible(m) ==
    /\ 0 <= m.loadPercent /\ m.loadPercent <= 200000
    /\ -20000 <= m.ambientTempC /\ m.ambientTempC <= 55000
    /\ -20000 <= m.oilTempC /\ m.oilTempC <= 150000
    /\ m.oilTempC - 500 <= m.windingTempC /\ m.windingTempC <= 200000
    /\ 0 <= m.oilLevelPercent /\ m.oilLevelPercent <= 100000
    /\ m.currentA >= 0
    /\ m.voltageKV > 0
    /\ m.state \in States

(* Validator.Validate on a decoded payload: registry is the set of known   *)
(* transformers, horizon the clock plus the tolerated skew.  There is no   *)
(* lower bound on the timestamp.                                           *)
Valid(m, registry, horizon) ==
    /\ m.schemaVersion = SchemaVersion
    /\ m.transformerId \in registry
    /\ m.timestamp.spelling # "garbled"
    /\ m.timestamp.instant <= horizon
    /\ Plausible(m)

-----------------------------------------------------------------------------
(* A numeric(.., 2) column rounds to hundredths, half away from zero; the  *)
(* result is in hundredths.                                                *)
Hundredths(x) == IF x >= 0 THEN (x + 5) \div 10 ELSE -((5 - x) \div 10)

(* The row INSERT INTO measurements stores for m.                          *)
MeasurementRow(m) ==
    [transformerId   |-> m.transformerId,
     ts              |-> m.timestamp.instant,
     loadPercent     |-> Hundredths(m.loadPercent),
     ambientTempC    |-> Hundredths(m.ambientTempC),
     oilTempC        |-> Hundredths(m.oilTempC),
     windingTempC    |-> Hundredths(m.windingTempC),
     oilLevelPercent |-> Hundredths(m.oilLevelPercent),
     currentA        |-> m.currentA,
     voltageKV       |-> Hundredths(m.voltageKV),
     state           |-> m.state]

(* The natural key as it appears in a stored row.                          *)
RowKey(row) == <<row.transformerId, row.ts>>

(* The largest current, in amperes, of a numeric(10,2) column, and the     *)
(* largest voltage, in hundredths of a kilovolt, of a numeric(8,2) one.    *)
WidestCurrent == 99999999
WidestVoltage == 99999999

(* The CHECK constraints and the column widths of the measurements table,  *)
(* evaluated on the rounded values.                                        *)
FitsColumns(row) ==
    /\ 0 <= row.loadPercent /\ row.loadPercent <= 20000
    /\ -2000 <= row.ambientTempC /\ row.ambientTempC <= 5500
    /\ -2000 <= row.oilTempC /\ row.oilTempC <= 15000
    /\ -2000 <= row.windingTempC /\ row.windingTempC <= 20000
    /\ 0 <= row.oilLevelPercent /\ row.oilLevelPercent <= 10000
    /\ 0 <= row.currentA /\ row.currentA <= WidestCurrent
    /\ 1 <= row.voltageKV /\ row.voltageKV <= WidestVoltage
    /\ row.state \in States
=============================================================================
