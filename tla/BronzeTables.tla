---------------------------- MODULE BronzeTables ----------------------------
(***************************************************************************)
(* The rows of the bronze tables in PostgreSQL and the two INSERT          *)
(* statements that write them (internal/store/ingestion.go).  A table is   *)
(* the set of its rows; raw_telemetry has its primary key on id,           *)
(* measurements its natural key on (transformer_id, ts).                   *)
(***************************************************************************)
EXTENDS Telemetry

(* A message as the broker delivers it: the transformer its topic names    *)
(* (NoTopic when ParseTelemetryTopic refuses the topic), whether its bytes *)
(* decode as a Measurement, and the decoded payload.                       *)
NoTopic == "no topic"
Message(Ids) == [topic : Ids \cup {NoTopic}, json : BOOLEAN, body : Measurement(Ids)]

(* Mutant of Admissible: the check at ingestor.go:118 is left out.         *)
AdmissibleOnAnyTopic(msg, registry, horizon) ==
    msg.json /\ Valid(msg.body, registry, horizon)

(* What the handler admits at a given horizon: Validate succeeds and the   *)
(* topic names the payload's transformer.                                  *)
Admissible(msg, registry, horizon) ==
    /\ msg.json
    /\ Valid(msg.body, registry, horizon)
    /\ msg.topic # NoTopic
    /\ msg.topic = msg.body.transformerId

-----------------------------------------------------------------------------
(* The provenance row: the payload is kept as sent, its state included.    *)
RawRecord(msg, now) ==
    [id            |-> DedupKey(msg.body),
     transformerId |-> msg.body.transformerId,
     topic         |-> msg.topic,
     ingestedAt    |-> now,
     payload       |-> msg.body]

RawRow(Ids) ==
    [id            : Ids \X Timestamp,
     transformerId : Ids,
     topic         : Ids,
     ingestedAt    : Nat,
     payload       : Measurement(Ids)]

MeasRow(Ids) ==
    [transformerId   : Ids,
     ts              : Nat,
     loadPercent     : Int,
     ambientTempC    : Int,
     oilTempC        : Int,
     windingTempC    : Int,
     oilLevelPercent : Int,
     currentA        : Int,
     voltageKV       : Int,
     state           : States]

-----------------------------------------------------------------------------
HasRaw(raw, id) == \E r \in raw : r.id = id
HasMeasurement(meas, key) == \E r \in meas : RowKey(r) = key

(* INSERT INTO raw_telemetry ... ON CONFLICT (id) DO NOTHING               *)
InsertRaw(raw, row) ==
    IF HasRaw(raw, row.id) THEN raw ELSE raw \cup {row}

(* Mutant of InsertMeasurement: ON CONFLICT DO UPDATE.                     *)
InsertMeasurementOver(meas, row) ==
    {r \in meas : RowKey(r) # RowKey(row)} \cup {row}

(* INSERT INTO measurements ... ON CONFLICT (transformer_id, ts) DO NOTHING *)
InsertMeasurement(meas, row) ==
    IF HasMeasurement(meas, RowKey(row)) THEN meas ELSE meas \cup {row}

(* Postgres evaluates the CHECK and the foreign-key constraints of a row   *)
(* before it looks for a conflict, and refuses the statement.  A value     *)
(* without a place in its type (\u0000 in a field of the payload nobody    *)
(* reads, a timestamp of the year 0000) fails the statement earlier: that  *)
(* is among the failing statements of the modules that use these.          *)
AcceptsRaw(transformers, row) == row.transformerId \in transformers
AcceptsMeasurement(transformers, row) ==
    FitsColumns(row) /\ row.transformerId \in transformers
=============================================================================
