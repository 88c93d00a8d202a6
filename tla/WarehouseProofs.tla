-------------------------- MODULE WarehouseProofs --------------------------
(***************************************************************************)
(* What holds of Warehouse for every fleet, every set of messages, every   *)
(* text the messages may have and every bound.  The argument: what staging *)
(* selected is a complete pass over raw_telemetry as it was at one instant *)
(* of the run, and the models behind it read nothing but its table; so the *)
(* facts are those of one instant, and that of a later run is no earlier   *)
(* one, since raw_telemetry only gains rows.                               *)
(***************************************************************************)
EXTENDS Warehouse, BronzeTablesProofs, FiniteSetTheorems

(* A raw table as ingestion leaves it: typed, one row to a key, each row   *)
(* admitted and under the key of its payload.                              *)
WellKept(rows) ==
    /\ rows \subseteq RawRow(Ids)
    /\ \A r, q \in rows : r.id = q.id => r = q
    /\ \A r \in rows : /\ r.id = DedupKey(r.payload)
                       /\ r.transformerId = r.payload.transformerId
                       /\ r.payload.schemaVersion = 1
                       /\ Plausible(r.payload)
                       /\ \A field \in Readings : Reads(r)[field] \subseteq Int

-----------------------------------------------------------------------------
(* An insert keeps the table well kept.                                    *)
LEMMA CaptureKeeps ==
    ASSUME NEW rows, WellKept(rows), NEW t \in 0 .. MaxRows, NEW msg \in Messages,
           NEW known, Admissible(msg, known, Horizon)
    PROVE  /\ WellKept(InsertRaw(rows, RawRecord(msg, t)))
           /\ RawRecord(msg, t).transformerId = msg.body.transformerId
<1> DEFINE row == RawRecord(msg, t)
<1>1. msg \in Message(Ids) /\ msg.body \in Measurement(Ids)
  BY WarehouseAssumption DEF Message
<1>2. /\ msg.topic = msg.body.transformerId
      /\ msg.body.schemaVersion = 1 /\ Plausible(msg.body)
  BY DEF Admissible, Valid, SchemaVersion
<1>3. msg.topic \in Ids
  BY <1>1, <1>2 DEF Measurement
<1>4. row \in RawRow(Ids) /\ row.id = DedupKey(msg.body)
  BY <1>1, <1>3, RawRecordTyped, WarehouseAssumption
<1>5. /\ row.transformerId = msg.body.transformerId
      /\ row.payload = msg.body
  BY DEF RawRecord
<1>8. \A field \in Readings : Reads(row)[field] \subseteq Int
  BY WarehouseAssumption
<1> HIDE DEF row
<1>6. CASE HasRaw(rows, row.id)
  BY <1>6, <1>5 DEF InsertRaw, row
<1>7. CASE ~HasRaw(rows, row.id)
  <2>1. WellKept(rows \cup {row})
    <3>1. rows \cup {row} \subseteq RawRow(Ids)
      BY <1>4 DEF WellKept
    <3>2. \A r, q \in rows \cup {row} : r.id = q.id => r = q
      BY <1>7 DEF WellKept, HasRaw
    <3>3. \A r \in rows \cup {row} :
              /\ r.id = DedupKey(r.payload)
              /\ r.transformerId = r.payload.transformerId
              /\ r.payload.schemaVersion = 1
              /\ Plausible(r.payload)
              /\ \A field \in Readings : Reads(r)[field] \subseteq Int
      BY <1>2, <1>4, <1>5, <1>8 DEF WellKept
    <3> QED BY <3>1, <3>2, <3>3 DEF WellKept
  <2> QED BY <1>5, <1>7, <2>1 DEF InsertRaw, row
<1> QED BY <1>6, <1>7

-----------------------------------------------------------------------------
(* The strengthened invariant.  What a model has selected in this run is   *)
(* its draft until the commit and its table from then on.                  *)
Started(m) == status[m] \in {"building", "built"}
Result(m) == IF status[m] = "built" THEN table[m] ELSE draft[m]

(* The rows are numbered as they come.                                     *)
SourceInv ==
    /\ IsFiniteSet(raw)
    /\ WellKept(raw)
    /\ \A r \in raw : r.transformerId \in transformers
    /\ \A r \in raw : r.ingestedAt < Cardinality(raw)

(* A model is only being built during a run, and the tests only begin when *)
(* every model was.                                                        *)
PhaseInv ==
    /\ phase # "run" => Building = {}
    /\ phase \in {"test", "done"} => \A m \in Models : status[m] = "built"

(* What staging selected in this run is a pass over the rows there were at *)
(* some instant of the run.                                                *)
StgIsView ==
    Started("stg_telemetry") =>
        \E past \in SUBSET raw :
            /\ began.raw \subseteq past /\ Gold!AsOf(past)
            /\ Result("stg_telemetry") = StgTelemetry(past)

(* These read only tables of the same run, which nobody replaces before    *)
(* the next run.                                                           *)
DerivedModels == {"int_telemetry", "dim_time", "fact_transformer_measurement"}

DerivedInv ==
    \A m \in DerivedModels :
        Started(m) => /\ \A p \in Parents(m) : status[p] = "built"
                      /\ Result(m) = Select(m)

DimInv ==
    Started("dim_transformer") => began.transformers \subseteq Result("dim_transformer")

(* Until it is replaced, the fact table is that of an earlier run.         *)
FactIsView ==
    \E past \in SUBSET raw :
        /\ Gold!AsOf(past) /\ fact = FactsOf(past)
        /\ status["fact_transformer_measurement"] # "built" => past \subseteq began.raw

WInv ==
    /\ WTypeOK /\ SourceInv /\ PhaseInv /\ StgIsView /\ DerivedInv /\ DimInv
    /\ FactIsView /\ FailuresHaveACause

LEMMA ModelsFinite == IsFiniteSet(Models)
<1>1. IsFiniteSet({"stg_telemetry"})
  BY FS_EmptySet, FS_AddElement
<1>2. IsFiniteSet({"stg_telemetry", "int_telemetry"})
  BY <1>1, FS_AddElement
<1>3. IsFiniteSet({"stg_telemetry", "int_telemetry", "dim_time"})
  BY <1>2, FS_AddElement
<1>4. IsFiniteSet({"stg_telemetry", "int_telemetry", "dim_time", "dim_transformer"})
  BY <1>3, FS_AddElement
<1> QED BY <1>4, FS_AddElement DEF Models

(* Fewer models being built: still within the threads.                     *)
LEMMA BuildingWithin ==
    ASSUME Cardinality(Building) <= Threads, Building' \subseteq Building
    PROVE  Cardinality(Building)' <= Threads
<1>1. IsFiniteSet(Building)
  BY ModelsFinite, FS_Subset DEF Building
<1>2. /\ Cardinality(Building') <= Cardinality(Building)
      /\ Cardinality(Building') \in Nat /\ Cardinality(Building) \in Nat
  BY <1>1, FS_Subset, FS_CardinalityType
<1> QED BY <1>2, WarehouseAssumption

LEMMA InitWInv == Init => WInv
<1> SUFFICES ASSUME Init PROVE WInv
  OBVIOUS
<1>1. Building = {}
  BY DEF Init, Building
<1>2. WTypeOK
  <2>1. Cardinality(Building) <= Threads
    BY <1>1, FS_EmptySet, WarehouseAssumption
  <2> QED BY <2>1, WarehouseAssumption DEF Init, WTypeOK
<1>3. SourceInv
  BY FS_EmptySet DEF Init, SourceInv, WellKept
<1>4. PhaseInv
  BY <1>1 DEF Init, PhaseInv
<1>5. StgIsView /\ DerivedInv /\ DimInv
  BY DEF Init, StgIsView, DerivedInv, DimInv, Started, DerivedModels, Models
<1>6. FactIsView
  <2>1. raw = {} /\ fact = {}
    BY DEF Init, fact, Models
  <2>2. FactsOf({}) = {}
    BY DEF FactsOf, StgTelemetry, Latest, IntTelemetry, Facts
  <2> QED BY <2>1, <2>2 DEF FactIsView, Gold!AsOf
<1> QED BY <1>2, <1>3, <1>4, <1>5, <1>6 DEF WInv, Init, FailuresHaveACause

-----------------------------------------------------------------------------
(* Rows are only ever added, and what is added is newer.                   *)
RawGrows ==
    /\ raw \subseteq raw'
    /\ \A r \in raw, q \in raw' \ raw : r.ingestedAt < q.ingestedAt

(* What was all there was at some instant stays so when newer rows come.   *)
LEMMA PastStays ==
    ASSUME RawGrows, NEW past \in SUBSET raw, Gold!AsOf(past)
    PROVE  past \in SUBSET raw' /\ Gold!AsOf(past)'
<1>1. /\ past \in SUBSET raw'
      /\ \A r \in past, q \in raw' \ past : r.ingestedAt < q.ingestedAt
  BY DEF RawGrows, Gold!AsOf
<1> QED BY <1>1 DEF Gold!AsOf

(* A step that stages nothing leaves what staging selected.                *)
LEMMA StgStays ==
    ASSUME StgIsView, RawGrows, began' = began,
           Started("stg_telemetry")' =>
              /\ Started("stg_telemetry")
              /\ Result("stg_telemetry")' = Result("stg_telemetry")
    PROVE  StgIsView'
<1> SUFFICES ASSUME Started("stg_telemetry")'
             PROVE  \E past \in SUBSET raw' :
                       /\ began'.raw \subseteq past /\ Gold!AsOf(past)'
                       /\ Result("stg_telemetry")' = StgTelemetry(past)
  BY DEF StgIsView
<1>1. PICK past \in SUBSET raw :
         /\ began.raw \subseteq past /\ Gold!AsOf(past)
         /\ Result("stg_telemetry") = StgTelemetry(past)
  BY DEF StgIsView
<1>2. past \in SUBSET raw' /\ Gold!AsOf(past)'
  BY <1>1, PastStays
<1> QED BY <1>1, <1>2

(* A step that does not touch the fact table leaves it a view.             *)
LEMMA FactStays ==
    ASSUME FactIsView, RawGrows, fact' = fact,
           status'["fact_transformer_measurement"] # "built" =>
              \/ /\ status["fact_transformer_measurement"] # "built"
                 /\ began' = began
              \/ began'.raw = raw
    PROVE  FactIsView'
<1>1. PICK past \in SUBSET raw :
        /\ Gold!AsOf(past) /\ fact = FactsOf(past)
        /\ status["fact_transformer_measurement"] # "built" => past \subseteq began.raw
  BY DEF FactIsView
<1>2. past \in SUBSET raw' /\ Gold!AsOf(past)'
  BY <1>1, PastStays
<1>3. status'["fact_transformer_measurement"] # "built" => past \subseteq began'.raw
  BY <1>1
<1>4. fact' = FactsOf(past)
  BY <1>1
<1> QED BY <1>2, <1>3, <1>4 DEF FactIsView

(* A cause does not go away.                                               *)
LEMMA CausesStay ==
    ASSUME FailuresHaveACause, raw \subseteq raw', failing' = failing, began' = began
    PROVE  FailuresHaveACause'
<1> SUFFICES ASSUME NEW test \in failing, Cause(test) PROVE Cause(test)'
  BY DEF FailuresHaveACause
<1>1. ASSUME \E r \in raw : Misread(r) PROVE \E r \in raw' : Misread(r)
  BY <1>1
<1>2. CASE test \in {"payload_id_matches", "load_percent_range", "stg_not_null",
                    "state_accepted", "fact_not_null", "time_not_null"}
  BY <1>1, <1>2 DEF Cause
<1>3. CASE test = "temperature_plausible"
  BY <1>3 DEF Cause
<1>4. CASE test = "state_matches"
  BY <1>4 DEF Cause
<1>5. CASE test = "unique_telemetry_key"
  BY <1>5 DEF Cause
<1>6. CASE test = "fact_transformer"
  BY <1>6 DEF Cause
<1>7. CASE test \notin {"payload_id_matches", "load_percent_range", "stg_not_null",
                       "state_accepted", "fact_not_null", "time_not_null",
                       "temperature_plausible", "state_matches",
                       "unique_telemetry_key", "fact_transformer"}
  BY <1>7 DEF Cause
<1> QED BY <1>2, <1>3, <1>4, <1>5, <1>6, <1>7

(* The services only add rows, and the job sees to the rest.               *)
LEMMA SourceGrows ==
    ASSUME WInv, SourceInv', RawGrows, transformers \subseteq transformers',
           registry' \subseteq Ids, transformers' \subseteq Ids,
           starts' \in 0 .. MaxStarts,
           UNCHANGED <<phase, status, draft, table, failing, began, runs, failures>>
    PROVE  WInv'
<1> USE DEF WInv
<1>1. Building' = Building
  BY DEF Building
<1>2. WTypeOK'
  BY <1>1 DEF WTypeOK, SourceInv, WellKept, RawGrows
<1>3. PhaseInv'
  BY <1>1 DEF PhaseInv
<1>4. StgIsView'
  BY StgStays DEF Started, Result
<1>5. DimInv'
  BY DEF DimInv, Started, Result
<1>6. DerivedInv'
  BY DEF DerivedInv, Started, Result, Select, DerivedModels
<1>7. FactIsView'
  BY FactStays DEF fact
<1>8. FailuresHaveACause'
  BY CausesStay DEF RawGrows
<1> QED BY <1>2, <1>3, <1>4, <1>5, <1>6, <1>7, <1>8

(* A captured row is newer than those that are there.                      *)
LEMMA CaptureIsNewer ==
    ASSUME WInv, NEW msg \in Messages, Capture(msg)
    PROVE  RawGrows /\ SourceInv'
<1> DEFINE row == RawRecord(msg, Cardinality(raw))
<1>1. IsFiniteSet(raw) /\ Cardinality(raw) \in Nat
  BY FS_CardinalityType DEF WInv, SourceInv
<1>2. row.ingestedAt = Cardinality(raw)
  BY DEF RawRecord
<1>3. \A r \in raw : r.ingestedAt \in Nat /\ r.ingestedAt < Cardinality(raw)
  BY DEF WInv, SourceInv, WellKept, RawRow
<1>4. Cardinality(raw) \in 0 .. MaxRows
  BY <1>1, WarehouseAssumption DEF Capture
<1>5. WellKept(InsertRaw(raw, row)) /\ row.transformerId = msg.body.transformerId
  BY <1>4, CaptureKeeps DEF Capture, WInv, SourceInv
<1>6. /\ row.transformerId \in transformers /\ raw' = InsertRaw(raw, row)
      /\ transformers' = transformers
  BY DEF Capture, AcceptsRaw
<1> HIDE DEF row
<1>7. raw' = raw \/ (raw' = raw \cup {row} /\ row \notin raw)
  BY <1>6 DEF InsertRaw
<1>8. CASE raw' = raw
  BY <1>5, <1>6, <1>8 DEF RawGrows, WInv, SourceInv
<1>9. CASE raw' = raw \cup {row} /\ row \notin raw
  <2>1. IsFiniteSet(raw') /\ Cardinality(raw') = Cardinality(raw) + 1
    BY <1>1, <1>9, FS_AddElement
  <2>2. \A r \in raw' : r.ingestedAt < Cardinality(raw')
    BY <1>1, <1>2, <1>3, <1>9, <2>1
  <2>3. \A r \in raw' : r.transformerId \in transformers'
    BY <1>6, <1>9 DEF WInv, SourceInv
  <2>4. RawGrows
    BY <1>2, <1>3, <1>9 DEF RawGrows
  <2> QED BY <1>5, <1>6, <2>1, <2>2, <2>3, <2>4 DEF SourceInv
<1> QED BY <1>7, <1>8, <1>9

LEMMA SourceWInv ==
    ASSUME WInv,
           \/ \E fleet \in Fleets : StartIngestion(fleet)
           \/ \E id \in Ids : RegisterDesign(id)
           \/ \E msg \in Messages : Capture(msg)
    PROVE  WInv'
<1>1. ASSUME NEW fleet \in Fleets, StartIngestion(fleet) PROVE WInv'
  <2>1. starts' \in 0 .. MaxStarts
    BY <1>1, WarehouseAssumption DEF WInv, WTypeOK, StartIngestion
  <2>2. registry' \subseteq Ids /\ transformers' \subseteq Ids
    BY <1>1, WarehouseAssumption DEF WInv, WTypeOK, StartIngestion
  <2>3. SourceInv' /\ RawGrows
    BY <1>1 DEF WInv, SourceInv, StartIngestion, RawGrows
  <2> QED BY <1>1, <2>1, <2>2, <2>3, SourceGrows DEF StartIngestion
<1>2. ASSUME NEW id \in Ids, RegisterDesign(id) PROVE WInv'
  <2>1. registry' \subseteq Ids /\ transformers' \subseteq Ids
        /\ starts' \in 0 .. MaxStarts
    BY <1>2 DEF WInv, WTypeOK, RegisterDesign
  <2>2. SourceInv' /\ RawGrows
    BY <1>2 DEF WInv, SourceInv, RegisterDesign, RawGrows
  <2> QED BY <1>2, <2>1, <2>2, SourceGrows DEF RegisterDesign
<1>3. ASSUME NEW msg \in Messages, Capture(msg) PROVE WInv'
  BY <1>3, CaptureIsNewer, SourceGrows DEF Capture, WInv, WTypeOK
<1> QED BY <1>1, <1>2, <1>3

-----------------------------------------------------------------------------
(* The job.  Every step of it leaves the services' tables alone.           *)
LEMMA StartRunWInv == WInv /\ StartRun => WInv'
<1> SUFFICES ASSUME WInv, StartRun PROVE WInv'
  OBVIOUS
<1> USE DEF WInv, StartRun, source
<1>1. Building' = {} /\ \A m \in Models : status'[m] = "waiting"
  BY DEF Building
<1>2. WTypeOK'
  <2>1. Cardinality(Building') <= Threads
    BY <1>1, FS_EmptySet, WarehouseAssumption
  <2>2. \A m \in Models \ Building' : draft'[m] = {}
    BY DEF WTypeOK, PhaseInv, Building
  <2>3. runs' \in 0 .. MaxRuns
    BY WarehouseAssumption DEF WTypeOK
  <2> QED BY <2>1, <2>2, <2>3 DEF WTypeOK
<1>3. SourceInv' /\ PhaseInv'
  BY <1>1 DEF SourceInv, PhaseInv
<1>4. StgIsView' /\ DerivedInv' /\ DimInv'
  BY <1>1 DEF StgIsView, DerivedInv, DimInv, Started, DerivedModels, Models
<1>5. RawGrows /\ began'.raw = raw
  BY DEF RawGrows
<1>6. FactIsView'
  BY <1>5, FactStays DEF fact
<1> QED BY <1>2, <1>3, <1>4, <1>6 DEF FailuresHaveACause

(* The parents of a model being built are not: no step of the job that     *)
(* touches a waiting or building model touches what another has read.      *)
LEMMA BuiltStays ==
    ASSUME WInv, NEW m \in Models, NEW s, status[m] # "built",
           status' = [status EXCEPT ![m] = s],
           \A n \in Models \ {m} : table'[n] = table[n] /\ draft'[n] = draft[n]
    PROVE  \A n \in Models \ {m} :
              /\ Started(n)' <=> Started(n)
              /\ Result(n)' = Result(n)
              /\ status'[n] = status[n]
BY DEF WInv, WTypeOK, Started, Result

LEMMA ParentsAreModels ==
    \A m \in Models : Parents(m) \subseteq Models /\ m \notin Parents(m)
BY DEF Models, Parents

(* Another derived model's table is as it was selected.                    *)
LEMMA DerivedStays ==
    ASSUME WInv, NEW m \in Models, NEW s, status[m] # "built",
           status' = [status EXCEPT ![m] = s],
           \A n \in Models \ {m} : table'[n] = table[n] /\ draft'[n] = draft[n],
           NEW d \in DerivedModels, d # m, Started(d)'
    PROVE  /\ \A p \in Parents(d) : status'[p] = "built"
           /\ Result(d)' = Select(d)'
<1>1. d \in Models /\ Started(d) /\ Result(d)' = Result(d)
  BY BuiltStays DEF DerivedModels, Models
<1>2. \A p \in Parents(d) : status[p] = "built" /\ p # m /\ p \in Models
  BY <1>1, ParentsAreModels DEF WInv, DerivedInv
<1>3. \A p \in Parents(d) : status'[p] = "built" /\ table'[p] = table[p]
  BY <1>2, BuiltStays
<1>4. Select(d)' = Select(d)
  BY <1>3 DEF DerivedModels, Parents, Select
<1> QED BY <1>1, <1>3, <1>4 DEF WInv, DerivedInv

LEMMA BuildWInv ==
    ASSUME WInv, NEW m \in Models, Build(m)
    PROVE  WInv'
<1> USE DEF WInv
<1>0. /\ status[m] = "waiting" /\ status' = [status EXCEPT ![m] = "building"]
      /\ draft' = [draft EXCEPT ![m] = Select(m)] /\ table' = table
      /\ phase = "run" /\ phase' = "run"
      /\ \A p \in Parents(m) : status[p] = "built"
      /\ UNCHANGED <<registry, transformers, raw, starts, failing, began, runs, failures>>
  BY DEF Build, Ready, source
<1>1. \A n \in Models \ {m} : table'[n] = table[n] /\ draft'[n] = draft[n]
  BY <1>0 DEF WTypeOK
<1>2. /\ status'[m] = "building" /\ draft'[m] = Select(m)
      /\ Result(m)' = Select(m) /\ DOMAIN draft' = Models
  BY <1>0 DEF WTypeOK, Result
<1>3. WTypeOK'
  <2>1. Building' = Building \cup {m} /\ m \notin Building
    BY <1>0 DEF Building, WTypeOK
  <2>2. IsFiniteSet(Building)
    BY ModelsFinite, FS_Subset DEF Building
  <2>3. Cardinality(Building') = Cardinality(Building) + 1
        /\ Cardinality(Building) \in Nat
    BY <2>1, <2>2, FS_AddElement, FS_CardinalityType
  <2>4. Cardinality(Building') <= Threads
    BY <2>3, WarehouseAssumption DEF Build, Ready
  <2>5. \A n \in Models \ Building' : draft'[n] = {}
    BY <1>1, <2>1 DEF WTypeOK
  <2> QED BY <1>0, <1>2, <2>4, <2>5 DEF WTypeOK
<1>4. SourceInv' /\ PhaseInv'
  BY <1>0 DEF SourceInv, PhaseInv
<1>5. StgIsView'
  <2>1. CASE m = "stg_telemetry"
    <3>1. PICK now : now = raw
      OBVIOUS
    <3>2. now \in SUBSET raw' /\ Gold!AsOf(now)' /\ began'.raw \subseteq now
      BY <1>0, <3>1 DEF Gold!AsOf, WTypeOK
    <3>3. Result("stg_telemetry")' = StgTelemetry(now)
      BY <1>2, <2>1, <3>1 DEF Select
    <3> QED BY <3>2, <3>3 DEF StgIsView
  <2>2. CASE m # "stg_telemetry"
    <3>1. RawGrows
      BY <1>0 DEF RawGrows
    <3> QED BY <1>0, <1>1, <2>2, <3>1, BuiltStays, StgStays DEF Models
  <2> QED BY <2>1, <2>2
<1>6. DerivedInv'
  <2> SUFFICES ASSUME NEW d \in DerivedModels, Started(d)'
               PROVE  /\ \A p \in Parents(d) : status'[p] = "built"
                      /\ Result(d)' = Select(d)'
    BY DEF DerivedInv
  <2>1. CASE d = m
    <3>1. \A p \in Parents(m) : status'[p] = "built"
      BY <1>0, ParentsAreModels DEF WTypeOK
    <3>2. Select(m)' = Select(m)
      BY <1>0, <2>1 DEF Select, DerivedModels
    <3> QED BY <1>2, <2>1, <3>1, <3>2
  <2>2. CASE d # m
    BY <1>0, <1>1, <2>2, DerivedStays
  <2> QED BY <2>1, <2>2
<1>7. DimInv'
  <2>1. CASE m = "dim_transformer"
    BY <1>0, <1>2, <2>1 DEF DimInv, Select, DesignRows, WTypeOK
  <2>2. CASE m # "dim_transformer"
    BY <1>0, <1>1, <2>2, BuiltStays DEF DimInv, Models
  <2> QED BY <2>1, <2>2
<1>8. FactIsView'
  <2>1. RawGrows /\ fact' = fact
    BY <1>0 DEF RawGrows, fact
  <2>2. status'["fact_transformer_measurement"] # "built"
          => status["fact_transformer_measurement"] # "built"
    BY <1>0 DEF WTypeOK
  <2> QED BY <1>0, <2>1, <2>2, FactStays
<1>9. FailuresHaveACause'
  BY <1>0, CausesStay
<1> QED BY <1>3, <1>4, <1>5, <1>6, <1>7, <1>8, <1>9

(* The new facts are those of a pass over what staging selected, and so    *)
(* those of bronze at one instant of the run.                              *)
LEMMA FactsComeFromOneInstant ==
    ASSUME WInv, Started("fact_transformer_measurement")
    PROVE  \E past \in SUBSET raw :
              /\ began.raw \subseteq past /\ Gold!AsOf(past)
              /\ Result("fact_transformer_measurement") = FactsOf(past)
<1>1. /\ status["int_telemetry"] = "built"
      /\ Result("fact_transformer_measurement") = Facts(table["int_telemetry"])
  BY DEF WInv, DerivedInv, DerivedModels, Parents, Select
<1>2. /\ status["stg_telemetry"] = "built"
      /\ table["int_telemetry"] = IntTelemetry(table["stg_telemetry"])
  BY <1>1 DEF WInv, DerivedInv, DerivedModels, Parents, Select, Started, Result
<1>3. \E past \in SUBSET raw :
         /\ began.raw \subseteq past /\ Gold!AsOf(past)
         /\ table["stg_telemetry"] = StgTelemetry(past)
  BY <1>2 DEF WInv, StgIsView, Started, Result
<1> QED BY <1>1, <1>2, <1>3 DEF FactsOf

LEMMA CommitWInv ==
    ASSUME WInv, NEW m \in Models, Commit(m)
    PROVE  WInv'
<1> USE DEF WInv
<1>0. /\ status[m] = "building" /\ status' = [status EXCEPT ![m] = "built"]
      /\ draft' = [draft EXCEPT ![m] = {}]
      /\ table' = [table EXCEPT ![m] = draft[m]]
      /\ UNCHANGED <<registry, transformers, raw, starts, phase, failing, began,
                     runs, failures>>
  BY DEF Commit, source
<1>1. \A n \in Models \ {m} : table'[n] = table[n] /\ draft'[n] = draft[n]
  BY <1>0 DEF WTypeOK
<1>2. /\ status'[m] = "built" /\ Started(m) /\ Started(m)'
      /\ Result(m)' = Result(m)
  BY <1>0 DEF WTypeOK, Result, Started
<1>3. WTypeOK'
  <2>1. Building' = Building \ {m}
    BY <1>0 DEF Building, WTypeOK
  <2>2. Cardinality(Building') <= Threads
    BY <2>1, BuildingWithin DEF WTypeOK
  <2>3. \A n \in Models \ Building' : draft'[n] = {}
    BY <1>0, <1>1, <2>1 DEF WTypeOK
  <2> QED BY <1>0, <2>2, <2>3 DEF WTypeOK
<1>4. SourceInv' /\ PhaseInv'
  <2>1. phase = "run"
    BY <1>0 DEF PhaseInv, Building
  <2> QED BY <1>0, <2>1 DEF SourceInv, PhaseInv
<1>9. RawGrows
  BY <1>0 DEF RawGrows
<1>5. StgIsView' /\ DimInv'
  <2>1. \A n \in Models : (Started(n)' <=> Started(n)) /\ Result(n)' = Result(n)
    BY <1>0, <1>1, <1>2, BuiltStays
  <2>2. StgIsView'
    BY <1>0, <1>9, <2>1, StgStays DEF Models
  <2> QED BY <1>0, <2>1, <2>2 DEF DimInv, Models
<1>6. DerivedInv'
  <2> SUFFICES ASSUME NEW d \in DerivedModels, Started(d)'
               PROVE  /\ \A p \in Parents(d) : status'[p] = "built"
                      /\ Result(d)' = Select(d)'
    BY DEF DerivedInv
  <2>1. CASE d = m
    <3>1. \A p \in Parents(m) : status[p] = "built" /\ p # m /\ p \in Models
      BY <1>2, <2>1, ParentsAreModels DEF DerivedInv
    <3>2. \A p \in Parents(m) : status'[p] = "built" /\ table'[p] = table[p]
      BY <1>0, <1>1, <3>1 DEF WTypeOK
    <3>3. Select(m)' = Select(m)
      BY <2>1, <3>2 DEF DerivedModels, Parents, Select
    <3>4. Result(m) = Select(m)
      BY <1>2, <2>1 DEF DerivedInv
    <3> QED BY <1>2, <2>1, <3>2, <3>3, <3>4
  <2>2. CASE d # m
    BY <1>0, <1>1, <2>2, DerivedStays
  <2> QED BY <2>1, <2>2
<1>7. FactIsView'
  <2>1. CASE m = "fact_transformer_measurement"
    <3>1. fact' = Result("fact_transformer_measurement") /\ status'[m] = "built"
      BY <1>0, <2>1 DEF Result, fact, WTypeOK
    <3>2. PICK past \in SUBSET raw : Gold!AsOf(past) /\ fact' = FactsOf(past)
      BY <1>2, <2>1, <3>1, FactsComeFromOneInstant
    <3>3. past \in SUBSET raw' /\ Gold!AsOf(past)'
      BY <1>9, <3>2, PastStays
    <3> QED BY <2>1, <3>1, <3>2, <3>3 DEF FactIsView
  <2>2. CASE m # "fact_transformer_measurement"
    <3>1. fact' = fact
          /\ status'["fact_transformer_measurement"] = status["fact_transformer_measurement"]
      BY <1>0, <1>1, <2>2 DEF fact, WTypeOK, Models
    <3> QED BY <1>0, <1>9, <3>1, FactStays
  <2> QED BY <2>1, <2>2
<1>8. FailuresHaveACause'
  BY <1>0, CausesStay
<1> QED BY <1>3, <1>4, <1>5, <1>6, <1>7, <1>8

(* A model that fails or is skipped leaves its table as it was.            *)
LEMMA GivenUpWInv ==
    ASSUME WInv, NEW m \in Models,
           Fail(m) \/ Skip(m) \/ (m = "stg_telemetry" /\ CastFails)
    PROVE  WInv'
<1> USE DEF WInv
<1>1. PICK s \in {"failed", "skipped"} : status' = [status EXCEPT ![m] = s]
  BY DEF Fail, Skip, CastFails
<1>2. /\ status[m] \in {"building", "waiting"}
      /\ DOMAIN draft' = Models /\ draft'[m] = {}
      /\ \A n \in Models \ {m} : draft'[n] = draft[n]
      /\ failures' \in 0 .. MaxFailures
      /\ UNCHANGED <<registry, transformers, raw, starts, phase, table, failing,
                     began, runs>>
  <2>1. CASE Fail(m)
    <3>1. failures' \in 0 .. MaxFailures
      BY <2>1, WarehouseAssumption DEF Fail, WTypeOK
    <3> QED BY <2>1, <3>1 DEF Fail, source, WTypeOK
  <2>2. CASE Skip(m)
    BY <2>2 DEF Skip, source, WTypeOK, Building
  <2>3. CASE m = "stg_telemetry" /\ CastFails
    BY <2>3 DEF CastFails, Ready, source, WTypeOK, Building
  <2> QED BY <2>1, <2>2, <2>3
<1>3. \A n \in Models \ {m} : table'[n] = table[n] /\ draft'[n] = draft[n]
  BY <1>2
<1>4. ~Started(m)' /\ status'[m] = s /\ draft'[m] = {}
  BY <1>1, <1>2 DEF WTypeOK, Started
<1>5. WTypeOK'
  <2>1. Building' = Building \ {m}
    BY <1>1, <1>4 DEF Building, WTypeOK
  <2>2. Cardinality(Building') <= Threads
    BY <2>1, BuildingWithin DEF WTypeOK
  <2>3. \A n \in Models \ Building' : draft'[n] = {}
    BY <1>3, <1>4, <2>1 DEF WTypeOK
  <2>4. status' \in [Models -> {"waiting", "building", "built", "failed", "skipped"}]
    BY <1>1 DEF WTypeOK
  <2> QED BY <1>2, <2>2, <2>3, <2>4 DEF WTypeOK
<1>6. SourceInv' /\ PhaseInv'
  <2>1. phase # "run" => Building' = {}
    BY <1>1, <1>4 DEF PhaseInv, Building, WTypeOK
  <2>2. phase \notin {"test", "done"}
    BY <1>2 DEF PhaseInv
  <2> QED BY <1>2, <2>1, <2>2 DEF SourceInv, PhaseInv
<1>10. RawGrows
  BY <1>2 DEF RawGrows
<1>7. StgIsView' /\ DimInv'
  <2>1. \A n \in Models \ {m} : (Started(n)' <=> Started(n)) /\ Result(n)' = Result(n)
    BY <1>1, <1>2, <1>3, BuiltStays
  <2>2. StgIsView'
    BY <1>2, <1>4, <1>10, <2>1, StgStays DEF Models
  <2> QED BY <1>2, <1>4, <2>1, <2>2 DEF DimInv, Models
<1>8. DerivedInv'
  BY <1>1, <1>2, <1>3, <1>4, DerivedStays DEF DerivedInv
<1>9. FactIsView'
  <2>1. fact' = fact
    BY <1>2 DEF fact
  <2>2. status'["fact_transformer_measurement"] # "built"
          => status["fact_transformer_measurement"] # "built"
    BY <1>1, <1>2 DEF WTypeOK
  <2> QED BY <1>2, <1>10, <2>1, <2>2, FactStays
<1>11. FailuresHaveACause'
  BY <1>2, CausesStay
<1> QED BY <1>5, <1>6, <1>7, <1>8, <1>9, <1>11

LEMMA EndRunWInv == WInv /\ EndRun => WInv'
<1> SUFFICES ASSUME WInv, EndRun PROVE WInv'
  OBVIOUS
<1> USE DEF WInv, EndRun, source
<1>1. Building' = Building /\ Building = {}
  BY DEF Building
<1>2. WTypeOK'
  BY <1>1 DEF WTypeOK
<1>3. SourceInv' /\ PhaseInv'
  BY <1>1 DEF SourceInv, PhaseInv
<1>4. RawGrows
  BY DEF RawGrows
<1>5. StgIsView'
  BY <1>4, StgStays DEF Started, Result
<1>6. DimInv' /\ DerivedInv'
  BY DEF DimInv, DerivedInv, Started, Result, Select, DerivedModels
<1>7. FactIsView'
  BY <1>4, FactStays DEF fact
<1>8. FailuresHaveACause'
  BY CausesStay
<1> QED BY <1>2, <1>3, <1>5, <1>6, <1>7, <1>8

(* What is being built is rolled back, what was built stands.              *)
LEMMA KillWInv == WInv /\ Kill => WInv'
<1> SUFFICES ASSUME WInv, Kill PROVE WInv'
  OBVIOUS
<1> USE DEF WInv, Kill, source
<1>1. /\ Building' = {} /\ DOMAIN draft' = Models
      /\ \A m \in Models : (status'[m] = "built") <=> (status[m] = "built")
      /\ status' \in [Models -> {"waiting", "building", "built", "failed", "skipped"}]
  BY DEF Building, WTypeOK
<1>2. WTypeOK'
  <2>1. Cardinality(Building') <= Threads
    BY <1>1, FS_EmptySet, WarehouseAssumption
  <2>2. failures' \in 0 .. MaxFailures
    BY WarehouseAssumption DEF WTypeOK
  <2> QED BY <1>1, <2>1, <2>2 DEF WTypeOK
<1>3. SourceInv' /\ PhaseInv'
  BY <1>1 DEF SourceInv, PhaseInv
<1>4. \A m \in Models : Started(m)' => Started(m) /\ Result(m)' = Result(m)
                                      /\ status[m] = "built"
  <2> SUFFICES ASSUME NEW m \in Models, Started(m)'
               PROVE  Started(m) /\ Result(m)' = Result(m) /\ status[m] = "built"
    OBVIOUS
  <2>1. status'[m] = "built"
    BY <1>1 DEF Started, Building
  <2> QED BY <1>1, <2>1 DEF Started, Result
<1>8. RawGrows
  BY DEF RawGrows
<1>5. StgIsView' /\ DimInv'
  <2>1. StgIsView'
    BY <1>4, <1>8, StgStays DEF Models
  <2> QED BY <1>4, <2>1 DEF DimInv, Models
<1>6. DerivedInv'
  <2> SUFFICES ASSUME NEW d \in DerivedModels, Started(d)'
               PROVE  /\ \A p \in Parents(d) : status'[p] = "built"
                      /\ Result(d)' = Select(d)'
    BY DEF DerivedInv
  <2>1. d \in Models /\ Parents(d) \subseteq Models
    BY ParentsAreModels DEF DerivedModels, Models
  <2>2. Select(d)' = Select(d)
    BY DEF DerivedModels, Select
  <2> QED BY <1>1, <1>4, <2>1, <2>2 DEF DerivedInv
<1>7. FactIsView'
  <2>1. "fact_transformer_measurement" \in Models
    BY DEF Models
  <2> QED BY <1>1, <1>8, <2>1, FactStays DEF fact
<1>9. FailuresHaveACause'
  BY CausesStay
<1> QED BY <1>2, <1>3, <1>5, <1>6, <1>7, <1>9

-----------------------------------------------------------------------------
(* The data tests.                                                         *)

(* The stress index is at most one, and not negative, NULLs included.      *)
LEMMA StressRange ==
    ASSUME NEW w, w \subseteq Int, NEW o, o \subseteq Int, NEW l, l \subseteq Int
    PROVE  0 <= ThermalStress(w, o, l) /\ ThermalStress(w, o, l) <= 1000
<1> DEFINE sum == 100 * AtLeastZero(w) + 63 * AtLeastZero(o) + 30 * AtLeastZero(l) + 10500
<1>1. ASSUME NEW x, x \subseteq Int PROVE AtLeastZero(x) \in Nat
  <2>1. CASE \E v \in x : v > 0
    <3>1. PICK v : v = CHOOSE u \in x : u > 0
      OBVIOUS
    <3>2. v \in x /\ v > 0
      BY <2>1, <3>1
    <3>3. AtLeastZero(x) = v
      BY <2>1, <3>1 DEF AtLeastZero
    <3>4. v \in Nat
      BY <1>1, <3>2
    <3> QED BY <3>3, <3>4
  <2>2. CASE ~\E v \in x : v > 0
    BY <2>2 DEF AtLeastZero
  <2> QED BY <2>1, <2>2
<1>2. sum \in Nat
  <2>1. AtLeastZero(w) \in Nat /\ AtLeastZero(o) \in Nat /\ AtLeastZero(l) \in Nat
    BY <1>1
  <2> QED BY <2>1
<1>3. ThermalStress(w, o, l) = IF sum \div 21000 < 1000 THEN sum \div 21000 ELSE 1000
  BY DEF ThermalStress
<1> HIDE DEF sum
<1>4. sum \div 21000 \in Nat
  BY <1>2
<1> QED BY <1>3, <1>4

(* A staged row carries over its key, its transformer and numbers.         *)
LEMMA StagedFrom ==
    ASSUME WInv, NEW past \in SUBSET raw, NEW s \in StgTelemetry(past)
    PROVE  \E r \in raw :
              /\ s = StgRow(r) /\ s.id = r.id
              /\ s.transformerId = r.transformerId
              /\ s.transformerId \in transformers
              /\ s.loadPercent \subseteq Int
              /\ s.oilTempC \subseteq Int /\ s.windingTempC \subseteq Int
<1>1. PICK r \in raw : s = StgRow(r)
  BY DEF StgTelemetry, Latest
<1>2. /\ r.transformerId \in transformers
      /\ \A field \in Readings : Reads(r)[field] \subseteq Int
  BY DEF WInv, SourceInv, WellKept
<1>3. /\ Reads(r).loadPercent \subseteq Int /\ Reads(r).oilTempC \subseteq Int
      /\ Reads(r).windingTempC \subseteq Int
  BY <1>2 DEF Readings
<1>4. /\ s.id = r.id /\ s.transformerId = r.transformerId
      /\ s.loadPercent = Reads(r).loadPercent
      /\ s.oilTempC = Reads(r).oilTempC
      /\ s.windingTempC = Reads(r).windingTempC
  BY <1>1 DEF StgRow
<1> QED BY <1>1, <1>2, <1>3, <1>4

(* A row that is not misread is staged as it was admitted.                 *)
LEMMA StagedAsDecoded ==
    ASSUME WInv, NEW r \in raw, ~Misread(r)
    PROVE  /\ StgRow(r).payloadTransformerId = {StgRow(r).transformerId}
           /\ StgRow(r).ts = {Second(r.payload.timestamp)}
           /\ StgRow(r).loadPercent = {r.payload.loadPercent}
           /\ StgRow(r).ambientTempC = {r.payload.ambientTempC}
           /\ StgRow(r).oilTempC = {r.payload.oilTempC}
           /\ StgRow(r).windingTempC = {r.payload.windingTempC}
           /\ StgRow(r).state = {r.payload.state}
           /\ Plausible(r.payload)
           /\ r.payload \in Measurement(Ids)
<1>1. /\ r.transformerId = r.payload.transformerId
      /\ Plausible(r.payload) /\ r.payload \in Measurement(Ids)
  BY DEF WInv, SourceInv, WellKept, RawRow
<1>2. Reads(r) = AsDecoded(r)
  BY DEF Misread
<1> QED BY <1>1, <1>2 DEF StgRow, AsDecoded

(* After a run in which every model was built, the silver and gold tables  *)
(* are those of one staging of the raw table.                              *)
LEMMA FinishedRun ==
    ASSUME WInv, \A m \in Models : status[m] = "built"
    PROVE  /\ \E past \in SUBSET raw : table["stg_telemetry"] = StgTelemetry(past)
           /\ table["int_telemetry"] = IntTelemetry(table["stg_telemetry"])
           /\ table["dim_time"] = {i.stg.ts : i \in table["int_telemetry"]}
           /\ fact = Facts(table["int_telemetry"])
           /\ began.transformers \subseteq table["dim_transformer"]
<1>1. \A m \in Models : Started(m) /\ Result(m) = table[m]
  BY DEF Started, Result
<1>2. /\ \E past \in SUBSET raw : table["stg_telemetry"] = StgTelemetry(past)
      /\ began.transformers \subseteq table["dim_transformer"]
  BY <1>1 DEF WInv, StgIsView, DimInv, Models
<1>3. \A m \in DerivedModels : table[m] = Select(m)
  BY <1>1 DEF WInv, DerivedInv, DerivedModels, Models
<1>4. /\ table["int_telemetry"] = IntTelemetry(table["stg_telemetry"])
      /\ table["dim_time"] = {i.stg.ts : i \in table["int_telemetry"]}
      /\ fact = Facts(table["int_telemetry"])
  BY <1>3 DEF DerivedModels, Select, fact
<1> QED BY <1>2, <1>4

LEMMA FactTimes ==
    ASSUME NEW enriched, NEW f \in Facts(enriched)
    PROVE  f.timeKey \in {i.stg.ts : i \in enriched}
BY DEF Facts, FactRow

(* If every row there is reads as it was decoded, so does every staged one. *)
LEMMA TestsHold ==
    ASSUME WInv, \A m \in Models : status[m] = "built",
           NEW test \in DataTests, ~Passes(test)
    PROVE  Cause(test)
<1> DEFINE stg == table["stg_telemetry"]
           int == table["int_telemetry"]
           facts == table["fact_transformer_measurement"]
<1>1. PICK past \in SUBSET raw : stg = StgTelemetry(past)
  BY FinishedRun
<1>2. /\ int = IntTelemetry(stg) /\ facts = Facts(int)
      /\ table["dim_time"] = {i.stg.ts : i \in int}
      /\ began.transformers \subseteq table["dim_transformer"]
  BY FinishedRun DEF fact
<1>3. \A s \in stg : \E r \in raw :
              /\ s = StgRow(r) /\ s.id = r.id
              /\ s.transformerId = r.transformerId
              /\ s.transformerId \in transformers
              /\ s.loadPercent \subseteq Int
              /\ s.oilTempC \subseteq Int /\ s.windingTempC \subseteq Int
  BY <1>1, StagedFrom
<1>4. \A i \in int : i.stg \in stg /\ i = IntRow(i.stg)
  BY <1>2 DEF IntTelemetry, IntRow
<1>5. \A f \in facts : \E i \in int : f = FactRow(i)
  BY <1>2 DEF Facts
<1>6. \A f \in facts : \E s \in stg :
         /\ f.timeKey = s.ts /\ f.loadPercent = s.loadPercent /\ f.state = s.state
         /\ f.transformerKey = s.transformerId
  BY <1>4, <1>5 DEF FactRow
<1>7. ASSUME \A r \in raw : ~Misread(r), NEW s \in stg
      PROVE  \E r \in raw : s = StgRow(r) /\ ~Misread(r)
  BY <1>3, <1>7
<1> HIDE DEF stg, int, facts
<1>8. CASE test = "payload_id_matches"
  <2>1. (\A s \in stg : s.payloadTransformerId = {s.transformerId}) => Passes(test)
    BY <1>8 DEF Passes, stg
  <2> QED BY <1>7, <1>8, <2>1, StagedAsDecoded DEF Cause
<1>9. CASE test = "load_percent_range"
  <2> SUFFICES ASSUME \A r \in raw : ~Misread(r) PROVE FALSE
    BY <1>9 DEF Cause
  <2>1. ASSUME NEW s \in stg PROVE \A l \in s.loadPercent : 0 <= l /\ l <= 200000
    <3>1. PICK r \in raw : s = StgRow(r) /\ ~Misread(r)
      BY <1>7, <2>1
    <3> QED BY <3>1, StagedAsDecoded DEF Plausible
  <2> QED BY <1>9, <2>1 DEF Passes, stg
<1>10. CASE test = "temperature_plausible"
  <2> SUFFICES ASSUME \A r \in raw : ~Misread(r),
                      \A r \in raw : ~(r.payload.windingTempC < r.payload.oilTempC)
               PROVE  FALSE
    BY <1>10 DEF Cause
  <2>1. ASSUME NEW s \in stg
        PROVE  /\ \A w \in s.windingTempC : w <= 200000 /\ \A o \in s.oilTempC : o <= w
               /\ \A o \in s.oilTempC : o <= 150000
               /\ \A a \in s.ambientTempC : -20000 <= a /\ a <= 55000
    <3>1. PICK r \in raw : s = StgRow(r) /\ ~Misread(r)
      BY <1>7, <2>1
    <3>2. /\ r.payload.windingTempC \in Int /\ r.payload.oilTempC \in Int
          /\ r.payload.ambientTempC \in Int
      BY <3>1, StagedAsDecoded DEF Measurement
    <3> QED BY <3>1, <3>2, StagedAsDecoded DEF Plausible
  <2> QED BY <1>10, <2>1 DEF Passes, stg
<1>11. CASE test \in {"stg_not_null", "fact_not_null", "time_not_null"}
  <2> SUFFICES ASSUME \A r \in raw : ~Misread(r) PROVE FALSE
    BY <1>11 DEF Cause
  <2>1. ASSUME NEW s \in stg
        PROVE  {} \notin {s.ts, s.loadPercent, s.windingTempC, s.oilTempC, s.state}
    <3>1. PICK r \in raw : s = StgRow(r) /\ ~Misread(r)
      BY <1>7, <2>1
    <3> QED BY <3>1, StagedAsDecoded
  <2>2. \A f \in facts : {} \notin {f.timeKey, f.loadPercent, f.state}
    BY <1>6, <2>1
  <2>3. {} \notin table["dim_time"]
    BY <1>2, <1>4, <2>1
  <2>4. CASE test = "stg_not_null"
    BY <2>1, <2>4 DEF Passes, stg
  <2>5. CASE test = "fact_not_null"
    BY <2>2, <2>5 DEF Passes, facts
  <2>6. CASE test = "time_not_null"
    BY <2>3, <2>6 DEF Passes
  <2> QED BY <1>11, <2>4, <2>5, <2>6
<1>12. CASE test = "state_accepted"
  <2> SUFFICES ASSUME \A r \in raw : ~Misread(r) PROVE FALSE
    BY <1>12 DEF Cause
  <2>1. ASSUME NEW s \in stg PROVE s.state \subseteq States
    <3>1. PICK r \in raw : s = StgRow(r) /\ ~Misread(r)
      BY <1>7, <2>1
    <3> QED BY <3>1, StagedAsDecoded DEF Plausible
  <2> QED BY <1>12, <2>1 DEF Passes, stg
<1>13. CASE test = "unique_telemetry_key"
  <2> SUFFICES ASSUME \A r \in raw : ~Misread(r),
                      \A r, q \in raw :
                         (/\ r.transformerId = q.transformerId
                          /\ Second(r.payload.timestamp) = Second(q.payload.timestamp))
                         => r = q
               PROVE  FALSE
    BY <1>13 DEF Cause
  <2>1. ASSUME NEW s \in stg, NEW t \in stg,
               s.transformerId = t.transformerId, s.ts = t.ts
        PROVE  s = t
    <3>1. PICK r \in raw : s = StgRow(r) /\ s.transformerId = r.transformerId
      BY <1>3, <2>1
    <3>2. PICK q \in raw : t = StgRow(q) /\ t.transformerId = q.transformerId
      BY <1>3, <2>1
    <3>3. {Second(r.payload.timestamp)} = {Second(q.payload.timestamp)}
      BY <2>1, <3>1, <3>2, StagedAsDecoded
    <3>4. r = q
      BY <2>1, <3>1, <3>2, <3>3
    <3> QED BY <3>1, <3>2, <3>4
  <2> QED BY <1>13, <2>1 DEF Passes, stg
<1>14. CASE test = "state_matches"
  <2> SUFFICES ASSUME \A r \in raw : ~Misread(r),
                      \A r \in raw : r.payload = Normalize(r.payload)
               PROVE  FALSE
    BY <1>14 DEF Cause
  <2>1. ASSUME NEW i \in int PROVE i.stg.state = {i.stateRecomputed}
    <3>1. i.stg \in stg /\ i = IntRow(i.stg)
      BY <1>4, <2>1
    <3>2. PICK r \in raw : i.stg = StgRow(r) /\ ~Misread(r)
      BY <1>7, <3>1
    <3> DEFINE p == r.payload
    <3>3. /\ i.stg.windingTempC = {p.windingTempC} /\ i.stg.oilTempC = {p.oilTempC}
          /\ i.stg.loadPercent = {p.loadPercent} /\ i.stg.state = {p.state}
          /\ p \in Measurement(Ids)
      BY <3>2, StagedAsDecoded
    <3>4. i.stateRecomputed
            = StateRecomputed({p.windingTempC}, {p.oilTempC}, {p.loadPercent})
      BY <3>1, <3>3 DEF IntRow
    <3>5. @ = ClassifyState(p.windingTempC, p.oilTempC, p.loadPercent)
      BY DEF StateRecomputed, Reaches, ClassifyState
    <3>6. p.state = ClassifyState(p.windingTempC, p.oilTempC, p.loadPercent)
      BY <3>3 DEF Normalize, Measurement
    <3> QED BY <3>3, <3>4, <3>5, <3>6
  <2> QED BY <1>14, <2>1 DEF Passes, int
<1>15. CASE test = "fact_transformer"
  <2> SUFFICES ASSUME \A r \in raw : r.transformerId \in began.transformers
               PROVE  FALSE
    BY <1>15 DEF Cause
  <2>1. \A f \in facts : f.transformerKey \in table["dim_transformer"]
    BY <1>2, <1>3, <1>6
  <2> QED BY <1>15, <2>1 DEF Passes, facts
<1>16. CASE test = "stg_transformer"
  <2>1. \A s \in stg : s.transformerId \in transformers
    BY <1>3
  <2> QED BY <1>16, <2>1 DEF Passes, stg
<1>17. CASE test = "int_id_unique"
  <2>1. ASSUME NEW s \in stg, NEW t \in stg, s.id = t.id PROVE s = t
    <3>1. PICK r \in raw : s = StgRow(r) /\ s.id = r.id
      BY <1>3, <2>1
    <3>2. PICK q \in raw : t = StgRow(q) /\ t.id = q.id
      BY <1>3, <2>1
    <3>3. r = q
      BY <2>1, <3>1, <3>2 DEF WInv, SourceInv, WellKept
    <3> QED BY <3>1, <3>2, <3>3
  <2>2. \A i, j \in int : i.stg.id = j.stg.id => i = j
    BY <1>4, <2>1
  <2> QED BY <1>17, <2>2 DEF Passes, int
<1>18. CASE test = "tsi_range"
  <2>1. ASSUME NEW i \in int PROVE 0 <= i.thermalStressIndex /\ i.thermalStressIndex <= 1000
    <3>1. i.stg \in stg /\ i = IntRow(i.stg)
      BY <1>4, <2>1
    <3>2. /\ i.stg.loadPercent \subseteq Int /\ i.stg.oilTempC \subseteq Int
          /\ i.stg.windingTempC \subseteq Int
      BY <1>3, <3>1
    <3>3. i.thermalStressIndex
            = ThermalStress(i.stg.windingTempC, i.stg.oilTempC, i.stg.loadPercent)
      BY <3>1 DEF IntRow
    <3> QED BY <3>2, <3>3, StressRange
  <2> QED BY <1>18, <2>1 DEF Passes, int
<1>19. CASE test = "fact_time"
  <2>1. \A f \in facts : f.timeKey \in table["dim_time"]
    BY <1>2, FactTimes
  <2> QED BY <1>19, <2>1 DEF Passes, facts
<1>20. test \in {"payload_id_matches", "load_percent_range", "temperature_plausible",
                 "stg_not_null", "stg_transformer", "state_accepted",
                 "unique_telemetry_key", "int_id_unique", "state_matches", "tsi_range",
                 "fact_time", "fact_transformer", "fact_not_null", "time_not_null"}
  BY DEF DataTests
<1> QED BY <1>8, <1>9, <1>10, <1>11, <1>12, <1>13, <1>14, <1>15, <1>16, <1>17, <1>18,
           <1>19, <1>20

LEMMA RunTestsWInv == WInv /\ RunTests => WInv'
<1> SUFFICES ASSUME WInv, RunTests PROVE WInv'
  OBVIOUS
<1> USE DEF WInv, RunTests, source
<1>1. Building' = Building
  BY DEF Building
<1>2. failing' \subseteq DataTests /\ FailuresHaveACause'
  <2> SUFFICES ASSUME NEW test \in FailingTests PROVE test \in DataTests /\ Cause(test)'
    BY DEF FailuresHaveACause
  <2>1. test \in DataTests /\ Cause(test)
    BY TestsHold DEF PhaseInv, FailingTests
  <2> QED BY <2>1 DEF Cause
<1>3. WTypeOK'
  BY <1>1, <1>2 DEF WTypeOK
<1>4. SourceInv' /\ PhaseInv' /\ RawGrows
  BY <1>1 DEF SourceInv, PhaseInv, RawGrows
<1>5. StgIsView'
  BY <1>4, StgStays DEF Started, Result
<1>6. DimInv' /\ DerivedInv'
  BY DEF DimInv, DerivedInv, Started, Result, Select, DerivedModels
<1>7. FactIsView'
  BY <1>4, FactStays DEF fact
<1> QED BY <1>2, <1>3, <1>4, <1>5, <1>6, <1>7

LEMMA StutterWInv == WInv /\ UNCHANGED vars => WInv'
<1> SUFFICES ASSUME WInv, UNCHANGED vars PROVE WInv'
  OBVIOUS
<1> USE DEF WInv, vars, source
<1>1. Building' = Building
  BY DEF Building
<1>2. WTypeOK' /\ SourceInv' /\ PhaseInv' /\ RawGrows
  BY <1>1 DEF WTypeOK, SourceInv, PhaseInv, RawGrows
<1>3. StgIsView'
  BY <1>2, StgStays DEF Started, Result
<1>4. DimInv' /\ DerivedInv'
  BY DEF DimInv, DerivedInv, Started, Result, Select, DerivedModels
<1>5. FactIsView' /\ FailuresHaveACause'
  BY <1>2, FactStays, CausesStay DEF fact, RawGrows
<1> QED BY <1>2, <1>3, <1>4, <1>5

LEMMA NextWInv == WInv /\ [Next]_vars => WInv'
<1> SUFFICES ASSUME WInv, [Next]_vars PROVE WInv'
  OBVIOUS
<1>1. CASE CastFails
  BY <1>1, GivenUpWInv DEF Models
<1>2. CASE ~CastFails
  BY <1>2, SourceWInv, StartRunWInv, BuildWInv, CommitWInv, GivenUpWInv, EndRunWInv,
     RunTestsWInv, KillWInv, StutterWInv
     DEF Next
<1> QED BY <1>1, <1>2

-----------------------------------------------------------------------------
(* The inductive invariant of the warehouse.                               *)
THEOREM SpecWInv == Spec => []WInv
BY InitWInv, NextWInv, PTL DEF Spec

(* Type correctness, with the bookkeeping of the job: what is not being    *)
(* built has no draft, and no more models are being built than threads.    *)
THEOREM SpecWTypeOK == Spec => []WTypeOK
<1>1. WInv => WTypeOK
  BY DEF WInv
<1> QED BY <1>1, SpecWInv, PTL

(* A run that built every model shows bronze as it was at an instant after *)
(* it began, for any texts, any DAG schedule, any number of threads and    *)
(* whatever was captured meanwhile.                                        *)
THEOREM SpecRunReflectsBronze == Spec => []RunReflectsBronze
<1>1. WInv => RunReflectsBronze
  <2> SUFFICES ASSUME WInv, phase \in {"test", "done"}
               PROVE  \E past \in SUBSET raw :
                         /\ began.raw \subseteq past /\ Gold!AsOf(past)
                         /\ fact = FactsOf(past)
    BY DEF RunReflectsBronze
  <2>1. /\ Started("fact_transformer_measurement")
        /\ Result("fact_transformer_measurement") = fact
    BY DEF WInv, PhaseInv, Started, Result, fact, Models
  <2> QED BY <2>1, FactsComeFromOneInstant
<1> QED BY <1>1, SpecWInv, PTL

(* The relationships test between the facts and dim_time cannot fail.      *)
THEOREM SpecFactsHaveTimes == Spec => []FactsHaveTimes
<1>1. WInv => FactsHaveTimes
  <2> SUFFICES ASSUME WInv, phase \in {"test", "done"}, NEW f \in fact
               PROVE  f.timeKey \in table["dim_time"]
    BY DEF FactsHaveTimes
  <2>1. /\ table["dim_time"] = {i.stg.ts : i \in table["int_telemetry"]}
        /\ f \in Facts(table["int_telemetry"])
    BY FinishedRun DEF WInv, PhaseInv
  <2> QED BY <2>1, FactTimes
<1> QED BY <1>1, SpecWInv, PTL

(* The one between the facts and dim_transformer fails for a transformer   *)
(* enrolled while the job ran, and for no other.                           *)
THEOREM SpecDanglingFactsAreNew == Spec => []DanglingFactsAreNew
<1>1. WInv => DanglingFactsAreNew
  BY FinishedRun DEF WInv, PhaseInv, DanglingFactsAreNew
<1> QED BY <1>1, SpecWInv, PTL

(* What makes a data test fail is in bronze, under the name of that test,  *)
(* for any samples ingestion admits and any texts they may have.           *)
THEOREM SpecFailuresHaveACause == Spec => []FailuresHaveACause
<1>1. WInv => FailuresHaveACause
  BY DEF WInv
<1> QED BY <1>1, SpecWInv, PTL

-----------------------------------------------------------------------------
(* A step of the system is a step of the view: of the table a commit       *)
(* replaces the invariant says that it showed no row the run did not begin *)
(* with, and the new one shows an instant that has all of those.           *)
LEMMA NextIsGold ==
    ASSUME WInv, [Next]_vars
    PROVE  [Gold!Gain \/ Gold!Refresh]_<<raw, fact>>
<1>1. ASSUME NEW msg \in Messages, Capture(msg) PROVE Gold!Gain
  <2>1. UNCHANGED fact
    BY <1>1 DEF Capture, fact
  <2> QED BY <1>1, <2>1, CaptureIsNewer DEF Gold!Gain, RawGrows
<1>2. ASSUME NEW m \in Models, Commit(m), m = "fact_transformer_measurement"
      PROVE  Gold!Refresh
  <2>1. raw' = raw /\ status[m] = "building" /\ fact' = draft[m]
    BY <1>2 DEF Commit, source, WInv, WTypeOK, fact
  <2>2. Started(m) /\ fact' = Result(m)
    BY <2>1 DEF Started, Result
  <2>3. PICK past \in SUBSET raw :
           Gold!AsOf(past) /\ fact = FactsOf(past) /\ past \subseteq began.raw
    BY <1>2, <2>1 DEF WInv, FactIsView
  <2>4. PICK later \in SUBSET raw :
           began.raw \subseteq later /\ Gold!AsOf(later) /\ fact' = FactsOf(later)
    BY <1>2, <2>2, FactsComeFromOneInstant
  <2> QED BY <2>1, <2>3, <2>4 DEF Gold!Refresh
<1>3. ASSUME NEW m \in Models, Commit(m), m # "fact_transformer_measurement"
      PROVE  UNCHANGED <<raw, fact>>
  BY <1>3 DEF Commit, source, WInv, WTypeOK, fact, Models
<1>4. CASE \/ \E fleet \in Fleets : StartIngestion(fleet)
           \/ \E id \in Ids : RegisterDesign(id)
           \/ StartRun \/ CastFails \/ EndRun \/ RunTests \/ Kill \/ UNCHANGED vars
           \/ \E m \in Models : Build(m) \/ Fail(m) \/ Skip(m)
  BY <1>4 DEF StartIngestion, RegisterDesign, StartRun, CastFails, EndRun, RunTests,
              Kill, Build, Fail, Skip, vars, source, fact
<1> QED BY <1>1, <1>2, <1>3, <1>4 DEF Next

(* The dbt job implements the snapshot view: for any messages and texts,   *)
(* number of threads, schedule of the models, failures and kills, who      *)
(* reads the fact table sees bronze completely, as it was at one instant,  *)
(* and never at an older one than before.                                  *)
THEOREM SpecGold == Spec => GoldSpec
<1>1. Init => Gold!Init
  BY DEF Init, Gold!Init, fact, Models, FactsOf, StgTelemetry, Latest, IntTelemetry, Facts
<1>2. WInv /\ [Next]_vars => [Gold!Gain \/ Gold!Refresh]_<<raw, fact>>
  BY NextIsGold
<1> QED BY <1>1, <1>2, SpecWInv, PTL DEF Spec, GoldSpec, Gold!Spec
=============================================================================
