---------------------------- MODULE BronzeLedger ----------------------------
(***************************************************************************)
(* What the bronze layer promises to the layers that read it, whoever      *)
(* writes it and however often a sample is delivered: rows are only ever   *)
(* added, a key is written once, only admissible samples get in, and a     *)
(* measurement never precedes the raw record of its instant.               *)
(***************************************************************************)
EXTENDS BronzeTables

CONSTANTS Ids,        \* identifiers a payload or a topic can carry
          Registry,   \* the transformers the fleet CSV registers
          Messages,   \* the messages that can be published
          MaxSkew,    \* how far ahead of the clock a timestamp may be
          Times       \* the instants the clock can show

VARIABLES raw,    \* rows of raw_telemetry
          meas    \* rows of measurements

lvars == <<raw, meas>>

Init == raw = {} /\ meas = {}

(* A sample admissible at time t gets its provenance row, if its key is    *)
(* new.                                                                    *)
Capture(msg, t) ==
    /\ Admissible(msg, Registry, t + MaxSkew)
    /\ ~HasRaw(raw, DedupKey(msg.body))
    /\ raw' = raw \cup {RawRecord(msg, t)}
    /\ UNCHANGED meas

(* The instant of a captured sample gets its measurement, once.  The       *)
(* values come from an admissible sample of that instant: not always from  *)
(* the one whose raw record was captured.                                  *)
Record(msg, t) ==
    LET row == MeasurementRow(Normalize(msg.body)) IN
    /\ Admissible(msg, Registry, t + MaxSkew)
    /\ \E r \in raw : NaturalKey(r.payload) = NaturalKey(msg.body)
    /\ ~HasMeasurement(meas, RowKey(row))
    /\ FitsColumns(row)
    /\ meas' = meas \cup {row}
    /\ UNCHANGED raw

Next ==
    \E msg \in Messages, t \in Times : Capture(msg, t) \/ Record(msg, t)

Spec == Init /\ [][Next]_lvars

-----------------------------------------------------------------------------
(* What the readers of bronze may rely on, whoever writes it: a key has    *)
(* one row in its table, every raw row was admitted when it was ingested,  *)
(* and every measurement has the raw row of its instant.                   *)
Sound ==
    /\ \A r, q \in raw : r.id = q.id => r = q
    /\ \A r, q \in meas : RowKey(r) = RowKey(q) => r = q
    /\ \A r \in raw : \E msg \in Messages, t \in Times :
           Admissible(msg, Registry, t + MaxSkew) /\ r = RawRecord(msg, t)
    /\ \A row \in meas : \E r \in raw : NaturalKey(r.payload) = RowKey(row)
=============================================================================
