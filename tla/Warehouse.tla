----------------------------- MODULE Warehouse -----------------------------
(***************************************************************************)
(* The dbt job (dbt/models, dbt/tests) beside the services that keep       *)
(* writing the tables it reads.  The job builds its tables along the DAG   *)
(* of their ref()s, up to Threads at a time; each build is a transaction:  *)
(* it reads a snapshot (Build) and swaps the new table in when it commits  *)
(* (Commit), while ingestion captures samples and enrols transformers.     *)
(* `dbt run && dbt test`: the tests run after a run without an error.      *)
(*                                                                         *)
(* The job does not see what ingestion decoded: encoding/json takes a key  *)
(* in any case and the last of several, while `payload ->> 'key'` wants    *)
(* the exact one.  Reads(r) is what silver finds in the text of raw row r; *)
(* nothing ties it to the payload ingestion admitted.  A nullable column   *)
(* is a set of at most one value, NULL the empty one, so that a condition  *)
(* that NULL makes unknown is an existential one.                          *)
(*                                                                         *)
(* Left out: the columns no test reads, the static dim_sensor, and         *)
(* fact_transformer_event, whose source no program writes.  dim_location   *)
(* selects the same keys from the same table as dim_transformer, which     *)
(* stands for both.                                                        *)
(***************************************************************************)
EXTENDS BronzeTables, FiniteSets

CONSTANTS Ids,             \* identifiers a payload or a topic can carry
          Fleets,          \* the fleet CSVs ingestion can be started with
          SeedFleet,       \* the transformers in the CSV of dbt seed
          Messages,        \* the messages that can be published
          Reads(_),        \* what `->>` finds in the text of a raw row's payload
          Newer(_, _),     \* r before q: order by ingested_at desc, id desc
          Horizon,         \* the latest instant ingestion admits
          TicksPerSecond,  \* instants to the second
          Threads,         \* models dbt builds at a time
          MaxStarts,       \* bound: times ingestion is started
          MaxRows,         \* bound: rows of raw_telemetry
          MaxRuns,         \* bound: times the job is started
          MaxFailures      \* bound: models that fail, jobs that are killed

(* The readings the tests look at.                                         *)
Readings == {"loadPercent", "ambientTempC", "oilTempC", "windingTempC"}

ASSUME WarehouseAssumption ==
    /\ \A fleet \in Fleets : fleet \subseteq Ids
    /\ SeedFleet \subseteq Ids
    /\ Messages \subseteq Message(Ids)
    /\ \A msg \in Messages, n \in 0 .. MaxRows : \A field \in Readings :
         LET text == Reads(RawRecord(msg, n))[field]
         IN  text \subseteq Int /\ \A x, y \in text : x = y
    /\ Horizon \in Nat
    /\ {TicksPerSecond, Threads} \subseteq Nat \ {0}
    /\ {MaxStarts, MaxRows, MaxRuns, MaxFailures} \subseteq Nat

VARIABLES
    registry,      \* the fleet CSV of the running ingestion service
    transformers,  \* the transformers table
    raw,           \* the raw_telemetry table
    starts,        \* starts of ingestion so far
    phase,         \* the job: idle, run, test, done (tests finished), broken
    status,        \* of each model, in this run of the job
    draft,         \* of each model being built, the rows its SELECT returned
    table,         \* of each model, the committed table
    failing,       \* the data tests that failed in this run
    began,         \* what raw and transformers held when the run began
    runs, failures \* counters behind the bounds

source == <<registry, transformers, raw, starts>>
vars == <<source, phase, status, draft, table, failing, began, runs, failures>>

-----------------------------------------------------------------------------
Models == {"stg_telemetry", "int_telemetry", "dim_time", "dim_transformer",
           "fact_transformer_measurement"}

(* Mutant of Parents: int_telemetry names its source without ref().        *)
ParentsWithoutStg(m) ==
    IF m \in {"dim_time", "fact_transformer_measurement"}
    THEN {"int_telemetry"} ELSE {}

(* Mutant of Parents: dim_time names its source without ref().             *)
ParentsWithoutInt(m) ==
    CASE m = "int_telemetry"                -> {"stg_telemetry"}
      [] m = "fact_transformer_measurement" -> {"int_telemetry"}
      [] OTHER                              -> {}

(* The ref()s of a model; dim_transformer reads the source alone.          *)
Parents(m) ==
    CASE m = "int_telemetry"                -> {"stg_telemetry"}
      [] m = "dim_time"                     -> {"int_telemetry"}
      [] m = "fact_transformer_measurement" -> {"int_telemetry"}
      [] OTHER                              -> {}

-----------------------------------------------------------------------------
(* normalize_ts: the second of an instant.                                 *)
Second(timestamp) == timestamp.instant \div TicksPerSecond

(* partition by transformer_id, ts_raw: the timestamp as silver finds it   *)
(* spelled; rows without one form one partition.                           *)
SamePartition(r, q) ==
    /\ r.transformerId = q.transformerId
    /\ Reads(r).timestamp = Reads(q).timestamp

(* The latest ingested row of each partition, of one schema version.       *)
Latest(rows) ==
    {r \in rows : /\ r.payload.schemaVersion = 1
                  /\ \A q \in rows : SamePartition(r, q) => ~Newer(q, r)}

(* A staged row: everything but id and transformer_id comes from the text  *)
(* of the payload as sent.                                                 *)
StgRow(r) ==
    [id                   |-> r.id,
     transformerId        |-> r.transformerId,
     payloadTransformerId |-> Reads(r).transformerId,
     ts                   |-> {Second(t) : t \in Reads(r).timestamp},
     loadPercent          |-> Reads(r).loadPercent,
     ambientTempC         |-> Reads(r).ambientTempC,
     oilTempC             |-> Reads(r).oilTempC,
     windingTempC         |-> Reads(r).windingTempC,
     state                |-> Reads(r).state]
StgTelemetry(rows) == {StgRow(r) : r \in Latest(rows)}

(* Whether ts_raw::timestamptz takes every timestamp of the SELECT.  Text  *)
(* it refuses need not be what ingestion parsed, and RFC 3339 has a year   *)
(* 0000 and offsets beyond 15:59 that PostgreSQL has not.                  *)
Castable(rows) ==
    \A r \in Latest(rows) : \A t \in Reads(r).timestamp : t.spelling # "garbled"

(* greatest(x, 0)                                                          *)
AtLeastZero(x) == IF \E v \in x : v > 0 THEN CHOOSE v \in x : v > 0 ELSE 0

(* thermal_stress_index in thousandths: 0.5 winding/105 + 0.3 oil/100 +    *)
(* 0.2 load/140 over the common denominator, rounded, at most one.         *)
ThermalStress(winding, oil, load) ==
    LET blend == (100 * AtLeastZero(winding) + 63 * AtLeastZero(oil)
                    + 30 * AtLeastZero(load) + 10500) \div 21000
    IN  IF blend < 1000 THEN blend ELSE 1000

Reaches(x, limit) == \E v \in x : v >= limit

(* The macro classify_state, the rules of physics.go: NULL reaches none.   *)
StateRecomputed(winding, oil, load) ==
    IF Reaches(winding, 105000) \/ Reaches(oil, 100000) \/ Reaches(load, 140000)
    THEN "CRITICAL"
    ELSE IF \/ Reaches(winding, 95000) \/ Reaches(oil, 90000)
            \/ \E v \in load : v > 100000
    THEN "WARNING"
    ELSE "NORMAL"

(* int_telemetry: a staged row with its stress index and its state.        *)
IntRow(s) ==
    [stg                |-> s,
     thermalStressIndex |-> ThermalStress(s.windingTempC, s.oilTempC, s.loadPercent),
     stateRecomputed    |-> StateRecomputed(s.windingTempC, s.oilTempC, s.loadPercent)]
IntTelemetry(staged) == {IntRow(s) : s \in staged}

(* fact_transformer_measurement selects no id; `of` keeps two rows with    *)
(* the same columns apart, as a table does.                                *)
FactRow(i) ==
    [of                 |-> i.stg.id,
     timeKey            |-> i.stg.ts,
     transformerKey     |-> i.stg.transformerId,
     loadPercent        |-> i.stg.loadPercent,
     oilTempC           |-> i.stg.oilTempC,
     windingTempC       |-> i.stg.windingTempC,
     thermalStressIndex |-> i.thermalStressIndex,
     state              |-> i.stg.state]
Facts(enriched) == {FactRow(i) : i \in enriched}

(* What a complete pass over a raw table puts into the fact table.         *)
FactsOf(rows) == Facts(IntTelemetry(StgTelemetry(rows)))

(* Mutant of DesignRows: the dimension reads the seed, ref('transformers').*)
SeedRows == SeedFleet

(* dim_transformer: one row per row of transformers.                       *)
DesignRows == transformers

(* The SELECT of a model over the tables as they stand.                    *)
Select(m) ==
    CASE m = "stg_telemetry"                -> StgTelemetry(raw)
      [] m = "int_telemetry"                -> IntTelemetry(table["stg_telemetry"])
      [] m = "dim_time"                     -> {i.stg.ts : i \in table["int_telemetry"]}
      [] m = "dim_transformer"              -> DesignRows
      [] m = "fact_transformer_measurement" -> Facts(table["int_telemetry"])

-----------------------------------------------------------------------------
(* The data tests of silver/schema.yml, gold/schema.yml and dbt/tests that *)
(* relate rows, each with what it holds of the tables.                     *)
DataTests ==
    {"payload_id_matches", "load_percent_range", "temperature_plausible",
     "stg_not_null", "stg_transformer", "state_accepted", "unique_telemetry_key",
     "int_id_unique", "state_matches", "tsi_range",
     "fact_time", "fact_transformer", "fact_not_null", "time_not_null"}

Passes(test) ==
    LET stg   == table["stg_telemetry"]
        int   == table["int_telemetry"]
        facts == table["fact_transformer_measurement"]
    IN
    CASE test = "payload_id_matches" ->
           \A s \in stg : s.payloadTransformerId = {s.transformerId}
      [] test = "load_percent_range" ->
           \A s \in stg : \A l \in s.loadPercent : 0 <= l /\ l <= 200000
      [] test = "temperature_plausible" ->
           \A s \in stg :
             /\ \A w \in s.windingTempC : w <= 200000 /\ \A o \in s.oilTempC : o <= w
             /\ \A o \in s.oilTempC : o <= 150000
             /\ \A a \in s.ambientTempC : -20000 <= a /\ a <= 55000
      [] test = "stg_not_null" ->
           \A s \in stg : {} \notin {s.ts, s.loadPercent, s.windingTempC, s.oilTempC, s.state}
      [] test = "stg_transformer" -> \A s \in stg : s.transformerId \in transformers
      [] test = "state_accepted" -> \A s \in stg : s.state \subseteq States
      [] test = "unique_telemetry_key" ->
           \A s, t \in stg : (s.transformerId = t.transformerId /\ s.ts = t.ts) => s = t
      [] test = "int_id_unique" -> \A i, j \in int : i.stg.id = j.stg.id => i = j
      [] test = "state_matches" -> \A i \in int : i.stg.state = {i.stateRecomputed}
      [] test = "tsi_range" ->
           \A i \in int : 0 <= i.thermalStressIndex /\ i.thermalStressIndex <= 1000
      [] test = "fact_time" ->
           \A f \in facts : f.timeKey = {} \/ f.timeKey \in table["dim_time"]
      [] test = "fact_transformer" ->
           \A f \in facts : f.transformerKey \in table["dim_transformer"]
      [] test = "fact_not_null" ->
           \A f \in facts : {} \notin {f.timeKey, f.loadPercent, f.state}
      [] test = "time_not_null" -> {} \notin table["dim_time"]

FailingTests == {test \in DataTests : ~Passes(test)}

-----------------------------------------------------------------------------
Init ==
    /\ registry = {} /\ transformers = {} /\ raw = {} /\ starts = 0
    /\ phase = "idle"
    /\ status = [m \in Models |-> "waiting"]
    /\ draft = [m \in Models |-> {}]
    /\ table = [m \in Models |-> {}]
    /\ failing = {}
    /\ began = [raw |-> {}, transformers |-> {}]
    /\ runs = 0 /\ failures = 0

(* Mutant of StartIngestion: the table is emptied before it is loaded.     *)
StartIngestionAnew(fleet) ==
    /\ starts < MaxStarts
    /\ starts' = starts + 1
    /\ registry' = fleet
    /\ transformers' = fleet
    /\ UNCHANGED <<raw, phase, status, draft, table, failing, began, runs, failures>>

(* Ingestion is started with a fleet CSV: it upserts the fleet and admits  *)
(* its members from then on.                                               *)
StartIngestion(fleet) ==
    /\ starts < MaxStarts
    /\ starts' = starts + 1
    /\ registry' = fleet
    /\ transformers' = transformers \cup fleet
    /\ UNCHANGED <<raw, phase, status, draft, table, failing, began, runs, failures>>

(* POST /transformers registers a design; ingestion does not learn of it.  *)
RegisterDesign(id) ==
    /\ id \notin transformers
    /\ transformers' = transformers \cup {id}
    /\ UNCHANGED <<registry, raw, starts, phase, status, draft, table, failing,
                   began, runs, failures>>

(* Ingestion captures a sample.  The rows are written one after the other, *)
(* and numbered so; the order their ingested_at and id give them is Newer. *)
Capture(msg) ==
    LET row == RawRecord(msg, Cardinality(raw)) IN
    /\ Cardinality(raw) < MaxRows
    /\ Admissible(msg, registry, Horizon)
    /\ AcceptsRaw(transformers, row)
    /\ raw' = InsertRaw(raw, row)
    /\ UNCHANGED <<registry, transformers, starts, phase, status, draft, table,
                   failing, began, runs, failures>>

(* dbt seed has loaded a table of its own; dbt run begins.                 *)
StartRun ==
    /\ phase \in {"idle", "done", "broken"}
    /\ runs < MaxRuns
    /\ runs' = runs + 1
    /\ phase' = "run"
    /\ status' = [m \in Models |-> "waiting"]
    /\ failing' = {}
    /\ began' = [raw |-> raw, transformers |-> transformers]
    /\ UNCHANGED <<source, draft, table, failures>>

Building == {m \in Models : status[m] = "building"}

(* A thread is free for a model whose parents are built.                   *)
Ready(m) ==
    /\ phase = "run"
    /\ status[m] = "waiting"
    /\ \A p \in Parents(m) : status[p] = "built"
    /\ Cardinality(Building) < Threads

(* It takes the model and runs its SELECT.                                 *)
Build(m) ==
    /\ Ready(m)
    /\ m = "stg_telemetry" => Castable(raw)
    /\ status' = [status EXCEPT ![m] = "building"]
    /\ draft' = [draft EXCEPT ![m] = Select(m)]
    /\ UNCHANGED <<source, phase, table, failing, began, runs, failures>>

(* The SELECT of stg_telemetry meets a timestamp that is none to the cast. *)
CastFails ==
    /\ Ready("stg_telemetry")
    /\ ~Castable(raw)
    /\ status' = [status EXCEPT !["stg_telemetry"] = "failed"]
    /\ UNCHANGED <<source, phase, draft, table, failing, began, runs, failures>>

(* The new table takes the place of the old one.                           *)
Commit(m) ==
    /\ status[m] = "building"
    /\ status' = [status EXCEPT ![m] = "built"]
    /\ table' = [table EXCEPT ![m] = draft[m]]
    /\ draft' = [draft EXCEPT ![m] = {}]
    /\ UNCHANGED <<source, phase, failing, began, runs, failures>>

(* Mutant of Fail: the rows are inserted one by one, outside a transaction. *)
FailHalfWay(m) ==
    /\ status[m] = "building"
    /\ failures < MaxFailures
    /\ failures' = failures + 1
    /\ status' = [status EXCEPT ![m] = "failed"]
    /\ \E part \in SUBSET draft[m] : table' = [table EXCEPT ![m] = part]
    /\ draft' = [draft EXCEPT ![m] = {}]
    /\ UNCHANGED <<source, phase, failing, began, runs>>

(* The statement fails: the old table stays.                               *)
Fail(m) ==
    /\ status[m] = "building"
    /\ failures < MaxFailures
    /\ failures' = failures + 1
    /\ status' = [status EXCEPT ![m] = "failed"]
    /\ draft' = [draft EXCEPT ![m] = {}]
    /\ UNCHANGED <<source, phase, table, failing, began, runs>>

(* A model with a failed or skipped parent is skipped.                     *)
Skip(m) ==
    /\ status[m] = "waiting"
    /\ \E p \in Parents(m) : status[p] \in {"failed", "skipped"}
    /\ status' = [status EXCEPT ![m] = "skipped"]
    /\ UNCHANGED <<source, phase, draft, table, failing, began, runs, failures>>

(* dbt run ends; && goes on to the tests only if every model was built.    *)
EndRun ==
    /\ phase = "run"
    /\ \A m \in Models : status[m] \in {"built", "failed", "skipped"}
    /\ phase' = IF \A m \in Models : status[m] = "built" THEN "test" ELSE "broken"
    /\ UNCHANGED <<source, status, draft, table, failing, began, runs, failures>>

(* dbt test.  Nobody else writes the tables the tests read, except for     *)
(* transformers, which only gains rows: one step stands for all of them.   *)
RunTests ==
    /\ phase = "test"
    /\ phase' = "done"
    /\ failing' = FailingTests
    /\ UNCHANGED <<source, status, draft, table, began, runs, failures>>

(* The job is killed: what was being built is rolled back.                 *)
Kill ==
    /\ phase \in {"run", "test"}
    /\ failures < MaxFailures
    /\ failures' = failures + 1
    /\ phase' = "broken"
    /\ status' = [m \in Models |-> IF m \in Building THEN "failed" ELSE status[m]]
    /\ draft' = [m \in Models |-> {}]
    /\ UNCHANGED <<source, table, failing, began, runs>>

Next ==
    \/ \E fleet \in Fleets : StartIngestion(fleet)
    \/ \E id \in Ids : RegisterDesign(id)
    \/ \E msg \in Messages : Capture(msg)
    \/ StartRun \/ CastFails \/ EndRun \/ RunTests \/ Kill
    \/ \E m \in Models : Build(m) \/ Commit(m) \/ Fail(m) \/ Skip(m)

Spec == Init /\ [][Next]_vars

-----------------------------------------------------------------------------
fact == table["fact_transformer_measurement"]

(* Every variable holds what its column types and the job's bookkeeping    *)
(* allow; a model that is not being built has no rows outside its table.   *)
WTypeOK ==
    /\ registry \subseteq Ids /\ transformers \subseteq Ids
    /\ raw \subseteq RawRow(Ids)
    /\ phase \in {"idle", "run", "test", "done", "broken"}
    /\ status \in [Models -> {"waiting", "building", "built", "failed", "skipped"}]
    /\ DOMAIN draft = Models /\ DOMAIN table = Models
    /\ \A m \in Models \ Building : draft[m] = {}
    /\ Cardinality(Building) <= Threads
    /\ failing \subseteq DataTests
    /\ began.raw \subseteq raw /\ began.transformers \subseteq transformers
    /\ starts \in 0 .. MaxStarts /\ runs \in 0 .. MaxRuns /\ failures \in 0 .. MaxFailures

(* The fact table (fact_transformer_measurement over int_telemetry over    *)
(* stg_telemetry, three transactions that read three snapshots) is a       *)
(* snapshot view of raw_telemetry: at every moment, during a run as after  *)
(* a failed one, its readers see bronze as it was at one instant, and      *)
(* never go back to an earlier one.                                        *)
Gold == INSTANCE SnapshotView WITH View <- FactsOf, source <- raw, view <- fact
GoldSpec == Gold!Spec

(* A run whose models were all built shows bronze as it was at an instant  *)
(* after it began: no fact comes from a half-built or an outdated silver   *)
(* table, and no row that was there when the run began is passed over,     *)
(* unless stg_telemetry dropped it for a newer one.                        *)
RunReflectsBronze ==
    phase \in {"test", "done"} =>
        \E past \in SUBSET raw :
            began.raw \subseteq past /\ Gold!AsOf(past) /\ fact = FactsOf(past)

(* After a run without errors each fact has its row in dim_time            *)
(* (relationships test, gold/schema.yml): both come from one silver table. *)
FactsHaveTimes ==
    phase \in {"test", "done"} =>
        \A f \in fact : f.timeKey \in table["dim_time"]

(* dim_transformer and the facts are built from different snapshots: a     *)
(* fact may miss its row there, but only if its transformer was enrolled   *)
(* after the run began.                                                    *)
DanglingFactsAreNew ==
    phase \in {"test", "done"} =>
        \A f \in fact :
            \/ f.transformerKey \notin began.transformers
            \/ f.transformerKey \in table["dim_transformer"]

(* Silver reads of row r what ingestion decoded.                           *)
AsDecoded(r) ==
    [transformerId |-> {r.payload.transformerId},
     timestamp     |-> {r.payload.timestamp},
     loadPercent   |-> {r.payload.loadPercent},
     ambientTempC  |-> {r.payload.ambientTempC},
     oilTempC      |-> {r.payload.oilTempC},
     windingTempC  |-> {r.payload.windingTempC},
     state         |-> {r.payload.state}]
Misread(r) == Reads(r) # AsDecoded(r)

(* What a failing data test says of bronze.  Four of them never fail.      *)
Cause(test) ==
    CASE test \in {"payload_id_matches", "load_percent_range", "stg_not_null",
                   "state_accepted", "fact_not_null", "time_not_null"} ->
           \E r \in raw : Misread(r)
      [] test = "temperature_plausible" ->
           \E r \in raw : Misread(r) \/ r.payload.windingTempC < r.payload.oilTempC
      [] test = "state_matches" ->
           \E r \in raw : Misread(r) \/ r.payload # Normalize(r.payload)
      [] test = "unique_telemetry_key" ->
           \/ \E r \in raw : Misread(r)
           \/ \E r, q \in raw : /\ r # q /\ r.transformerId = q.transformerId
                                /\ Second(r.payload.timestamp) = Second(q.payload.timestamp)
      [] test = "fact_transformer" ->
           \E r \in raw : r.transformerId \notin began.transformers
      [] OTHER -> FALSE

(* The tests that stg_telemetry, int_telemetry and gold are given catch    *)
(* what ingestion and the schema leave open and nothing else, whatever is  *)
(* captured while the job runs: a sample whose text says silver something  *)
(* else than it said Go, a winding within the half degree of tolerance, a  *)
(* state the thresholds disagree with, two samples of one second, and the  *)
(* foreign key of a transformer enrolled during the run.                   *)
FailuresHaveACause == \A test \in failing : Cause(test)
=============================================================================
