------------------------- MODULE BronzeTablesProofs -------------------------
(***************************************************************************)
(* What the rows and the INSERT statements of BronzeTables do to any       *)
(* message and any table, for the proofs about those who write them.       *)
(***************************************************************************)
EXTENDS BronzeTables, TLAPS

LEMMA ClassifyStates ==
    ASSUME NEW w \in Int, NEW o \in Int, NEW l \in Int
    PROVE  ClassifyState(w, o, l) \in States
BY DEF ClassifyState, States

LEMMA HundredthsInt == \A x \in Int : Hundredths(x) \in Int
BY DEF Hundredths

(* The provenance row of a message with a well-formed topic is well typed  *)
(* and has the key of its payload.                                         *)
LEMMA RawRecordTyped ==
    ASSUME NEW I, NEW msg \in Message(I), NEW t \in Nat, msg.topic \in I
    PROVE  /\ RawRecord(msg, t) \in RawRow(I)
           /\ RawRecord(msg, t).id = DedupKey(msg.body)
           /\ DedupKey(msg.body) \in I \X Timestamp
BY DEF RawRecord, RawRow, DedupKey, Message, Measurement, Timestamp

(* The measurement row of a message is well typed and carries its natural  *)
(* key: Normalize leaves the key alone.                                    *)
LEMMA MeasurementRowTyped ==
    ASSUME NEW I, NEW body \in Measurement(I)
    PROVE  /\ MeasurementRow(Normalize(body)) \in MeasRow(I)
           /\ RowKey(MeasurementRow(Normalize(body))) = NaturalKey(body)
<1> DEFINE n == Normalize(body)
<1>1. PICK c \in States : n = [body EXCEPT !.state = c]
  <2>1. body.windingTempC \in Int /\ body.oilTempC \in Int /\ body.loadPercent \in Int
    BY DEF Measurement
  <2> QED BY <2>1, ClassifyStates DEF Normalize
<1>2. n \in Measurement(I) /\ n.state \in States /\ n.transformerId = body.transformerId
      /\ n.timestamp = body.timestamp
  <2> HIDE DEF n
  <2> QED BY <1>1 DEF Measurement, Labels
<1> HIDE DEF n
<1>3. MeasurementRow(n) \in MeasRow(I)
  BY <1>2, HundredthsInt DEF MeasurementRow, MeasRow, Measurement, Timestamp
<1>4. RowKey(MeasurementRow(n)) = NaturalKey(body)
  BY <1>2 DEF MeasurementRow, RowKey, NaturalKey
<1> QED BY <1>3, <1>4 DEF n

(* An INSERT adds the row or finds its key taken.                          *)
LEMMA InsertRawKeeps ==
    ASSUME NEW rows, NEW row, NEW id
    PROVE  /\ rows \subseteq InsertRaw(rows, row)
           /\ HasRaw(rows, id) => HasRaw(InsertRaw(rows, row), id)
           /\ HasRaw(InsertRaw(rows, row), row.id)
BY DEF InsertRaw, HasRaw

LEMMA InsertMeasurementKeeps ==
    ASSUME NEW rows, NEW row
    PROVE  /\ rows \subseteq InsertMeasurement(rows, row)
           /\ HasMeasurement(InsertMeasurement(rows, row), RowKey(row))
BY DEF InsertMeasurement, HasMeasurement

(* A key that is in a table stays there as the table grows.                *)
LEMMA KeysStay ==
    ASSUME NEW rows, NEW more, rows \subseteq more, NEW key
    PROVE  /\ HasRaw(rows, key) => HasRaw(more, key)
           /\ HasMeasurement(rows, key) => HasMeasurement(more, key)
BY DEF HasRaw, HasMeasurement
=============================================================================
