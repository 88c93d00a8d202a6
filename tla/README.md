# Verification of the transformer telemetry platform

TLA+ modules, TLC configurations and TLAPS proofs for the telemetry platform in
this repository: transformers publish readings over MQTT, the ingestion service
validates them and writes them to PostgreSQL (bronze), a file sink and a
backfill command do the same in two steps, dbt builds silver and gold from
bronze, and a REST API serves the result. At the edges are the simulator that
publishes, the generator of the fleet file everybody reads, and the migrations
that several processes run when they start.

## The system

| Part | State it keeps | Operations | Talks to |
|---|---|---|---|
| Ingestion service (`cmd/ingestion`, `internal/ingestion`) | remembered keys, five counters, the message in hand | `Connect`, `Run`, `handleMessage`, `Snapshot` | broker (QoS 1, persistent session), bronze tables or bronze file |
| MQTT broker and client library (external) | the session: subscription, queue, unacknowledged messages | send, send again, drop | publishers, ingestion |
| Bronze tables (`internal/store/ingestion.go`, `migrations`) | `raw_telemetry`, `measurements`, `transformers` | two INSERTs, the upsert of the fleet | ingestion, backfill, dbt, API |
| Bronze file (`JSONLStore`) | the lines of `data/bronze.jsonl` | append a raw line, append a measurement line | ingestion, backfill |
| Backfill (`cmd/backfill`, `ReplayBronze`) | its place in the file, two counters | replay | bronze file, bronze tables |
| Silver and gold (`dbt`) | staged, enriched and star-schema tables | `dbt run`, `dbt test` | bronze tables |
| REST API (`internal/api`) | none but the tables | list, read, register, similar, statistics | tables, ML service |
| Simulator (`cmd/simulator`, `internal/telemetry`, `internal/messaging/publisher.go`) | oil and winding of every unit, its own clock, the batch in hand | one tick of the fleet, one publish | fleet file, broker |
| Fleet generator, CSV loader (`internal/domain`, `cmd/etl`) | the CSV | generate, create, flush, load, validate | ingestion, backfill, simulator |
| Migrations (`internal/migrate`, `migrations`, `cmd/dbmigrate`) | goose's version table and the schema | read the version, execute, commit, check again | PostgreSQL, every process that starts |
| ML service (`python/ml_service`) | none | similar, anomaly | API |
| HTTP instrumentation (`internal/api/middleware.go`, `metrics.go`) | counters for Prometheus | count, log | API |

What is hard here: the handler writes one sample in two statements that are not
one transaction, after claiming its key in memory; the process can be killed,
stopped or disconnected between any two of its steps; the broker then delivers
again, to a process with or without its memory; statements may fail after they
were committed; the metrics are read while they change; a file that is being
written is replayed beside a live writer, and the replay is repeated when it
breaks. None of this is in the unit tests, which call the handler with an
in-memory store. On the reading side, dbt rebuilds its tables one transaction at
a time, several at once, while bronze grows; a run can break in the middle; the
API answers with several statements that see different states of the tables,
and registers designs into a table that ingestion overwrites. At the edges,
several processes create the same tables at once without a lock, a CSV may be cut
off anywhere and the error of its last flush is dropped, and the simulator's
clock leaves the wall clock behind while the validator compares the two.

What makes each part correct:

* ingestion: nothing inadmissible is stored, nothing is stored twice, a
  measurement never lacks its provenance, a published sample is either still
  held somewhere or stored or counted as a loss, the counters tell the truth;
* bronze tables: rows are only added, each key once, raw first;
* bronze file: the line before a measurement is its raw record;
* backfill: what a run has passed is in the database, whatever was repeated;
  in the end the whole file is;
* metrics: a snapshot that is not atomic is still coherent;
* silver and gold: readers see bronze as it was at one instant and never go back to an
  earlier one, whatever fails; a complete run shows an instant after its beginning; facts
  and dimensions fit together; a data test fails for a reason that is in bronze;
* API: totals, pages and walks agree although rows are inserted, a confirmed
  design stands, an error code has the cause it names;
* migrations: each is recorded once and in order, whoever gets past them has
  every table, and losing the race does not last for ever;
* fleet file: what loads is the beginning of one generated fleet, what was
  written loads, and rounding keeps the generator's rules of thumb;
* simulator: what is in the broker has no gap, samples are refused for the
  reasons one can name and no others, and the label agrees with the one
  ingestion computes.

## Modules

```
Telemetry            the contract: payloads, validator, states, column rounding
  BronzeTables       rows, INSERT ... ON CONFLICT, constraints, admission
    BronzeLedger     abstract: what bronze promises, whoever writes it
    Ingestion        broker session + process + handler + database
      IngestionMetrics   Ingestion composed with the metrics reporter
    BronzeFile       the JSONL sink
      Backfill       the replay of that file, beside any ledger writer
    Warehouse        the dbt job, beside ingestion and registration
      SnapshotView   abstract: what gold promises of bronze
    Simulator        clock, thermal state and publishes, against the admission
Api                  the REST handlers, beside ingestion and dbt
Migrate              the processes that migrate, and goose
Fleet                the generator, the CSV and its reader

MCIngestion, MCIngestionMetrics, MCBackfill, MCWarehouse, MCSimulator, MCApi,
MCMigrate, MCFleet             instances for TLC

BronzeTablesProofs             lemmas about rows and INSERTs, used by
  IngestionProofs                  Ingestion and IngestionMetrics
  BackfillProofs
  WarehouseProofs
  SimulatorProofs
ApiProofs, MigrateProofs, FleetProofs
```

**Telemetry** is `validate.go`, `normalize.go`, `ClassifyState` and the column
types of `migrations/00002` as operators. Floats are integers: thousandths of a
degree, percent or kilovolt, so that both the half-degree tolerance of the
validator and the rounding to hundredths of `numeric(.., 2)` are exact.
Timestamps are an instant and a spelling, because `DedupKey` concatenates the
string while the table's natural key is the instant.

**Ingestion** has one action per step that another actor can interleave with.
`handleMessage` is `Receive` (counted), then `Reject`, `Duplicate` or `Claim`
(the key is taken by `LoadOrStore`), `WriteRaw` / `WriteRawFails`,
`WriteMeasurement` / `MeasurementRefused` (a CHECK constraint) /
`WriteMeasurementFails`, and `Ack`, which the client library performs when the
handler has returned, whatever it did. A failing statement may have been
committed. `main` and `Run` are `Boot`, `Connect`, `Subscribe`, `Subscribed`,
`SubscribeFails`, `Unsubscribe`, `Exit`; `Crash` can happen at any point of
them. That the broker takes SUBSCRIBE into the session (`TakeSubscribe`) and that SUBACK
reaches the client (`Subscribed`) are two steps: a connection lost in between ends the
token with an error, `Run` returns it and `main` exits (`SubscribeFails`), but the session
is subscribed and keeps what is published until the restart. The broker and the client library are external and modelled from how
`Connect` configures them: a persistent session, ordered delivery to one
handler at a time, no default handler, automatic reconnection.
`unrouted` holds what arrived while no route matched: such a message is never
acknowledged, so it occupies the in-flight window until the next connection.

**IngestionMetrics** adds the reporter: `TickerFires`, then one `LoadCounter`
per atomic load of `Snapshot`.

**BronzeFile** keeps the complete lines and whether the file ends in a
fragment; a line appended after a fragment is glued to it and does not parse. A write
that fails (`AppendFails`), with or without some bytes in the file, is the last one of its
process: `json.Encoder` keeps its first error, and every later line is refused
(`AppendRefused`) until a restart.
**Backfill** reads the file from its first line on every run while the sink may
append, and while `OtherWriter` takes any step `BronzeLedger` allows.

**BronzeLedger** is the abstract specification both writers implement: add a
raw row for an admissible sample whose key is new, add a measurement of an
instant that has a raw row. It does not say that the measurement was computed
from that raw row, because the code does not guarantee it. `Sound` is what the readers
of bronze get from it.

**SnapshotView** is what gold promises of bronze: the source gains rows, and from time to
time the view is replaced as a whole by a complete pass over the source as it was at some
instant, never an earlier one than before. `Warehouse` instantiates it with `raw_telemetry`, the
fact table and the composed SELECTs of staging, silver and fact (`FactsOf`).

**Warehouse** is the job of `docker-compose.yml:95`, `dbt run && dbt test`. Which
model may be built is the graph of the `ref()`s (`Parents`), not a fixed order;
`Build` runs the SELECT of a model over the tables as they stand, `Commit` swaps
the table in, and up to `Threads` models are between the two. `Fail` leaves the
old table, `Skip` passes over the descendants, `Kill` rolls back what was being
built; the next run starts from the mixture. Each SELECT is an operator over its
parents' tables (`StgTelemetry`, `IntTelemetry`, `Facts`, ...). `DataTests` names
the data tests that relate rows, `Passes` says when the tables pass one, and
`RunTests` keeps those that fail. `Capture` is
the whole of ingestion as far as raw_telemetry is concerned, with the admission
and the INSERT of `BronzeTables`; `RegisterDesign` is the API.

What ingestion decoded and what silver reads are two things. `encoding/json` takes a key
in any case and the last of several; `payload ->> 'load_percent'` wants the exact key, in
the text that was sent. `Reads(r)` is what `->>` finds in the payload of a raw row (the
state as `upper(trim(..))` leaves it), and nothing ties it to the payload ingestion
admitted, except that a reading, when there is one, is one number. A nullable column is a
set of at most one value, NULL the empty set. Rows without a timestamp form one partition,
as NULLs do for `partition by`. `ts_raw::timestamptz` refuses some text (`Castable`): then
`CastFails` is the only thing that happens to `stg_telemetry`, in this run and in every
later one. `Newer`, the order of the dedup (`ingested_at desc, id desc`), is arbitrary.
`Cause` names for each data test what bronze holds when it fails; four of them never do.

**Api** has one action per statement a handler executes. A request carries the
list of its statements (`Steps`); `Proceed` goes on, `Answer` is an early
return, `StepFails` is a statement that fails with the status that handler gives
it. `ArriveNext` continues a walk at the next offset. `StartIngestion`, `Ingest`
and `BuildGold` are the other writers. The fields `base`, `known`, `seen`,
`inGold` and `failed` of a request are history: no guard reads them.

**Migrate** is `EnsureUp` of every process that starts: `Start`, `ReadVersion`
(goose asks for the last row of its table and creates the table when it is
missing), `Execute` (a migration's CREATE TABLEs inside a transaction, which wait
while another open transaction creates the same ones, and fail once they exist),
`Commit` with the version row, and again until nothing is pending.
`AfterError` is the second look of `migrate.go:54-63`: the error of `goose.Up` is
returned in any case, and the look only adds the version, or that it could not be read,
to the message; but the look itself can create the version table. `TableExists` is the losing side of the race, and
`StatementFails` covers errors, an answer lost after the commit included, and `Kill` the
end of the process at any of these points.
goose itself is external. `dbmigrate version` is an inspector: it can create the
version table, and nothing else.

**Fleet** is `etl generate`: `GenerateFleet` draws a fleet that `Validate` accepts
unit by unit, `CreateFile` empties the CSV, and `FlushFile` or `FlushFails` decide how
much of the rows is in it. A cut falls between rows, inside one (torn: the reader
fails) or inside the last number of the last row, which still parses. `Loads` is
`LoadTransformerCSV` with its validation.

**Simulator** is the loop of `cmd/simulator/main.go` with `Simulator.Next` in it:
the clock that only adds intervals, the oil and winding of every unit in
thousandths of a degree, the shares of a tick in ten-thousandths (at a few seconds per tick
a unit moves by less than a thousandth of its way), the rounding of a sample to tenths and the label
computed before it. `Publish` waits for the acknowledgement, `PublishTwice` is a
connection lost before it, `PublishFails` ends the run. `Handle` is ingestion at
its own time, with the admission and the INSERT of `BronzeTables`, and
`WallClock` the time that goes by. The curves of `physics.go` are constants: in the
instance, tables with the values the code computes at the inputs that occur; for the
proofs, whatever satisfies `PhysicsAssumption` (the daily temperature stays above zero,
the powers are positive, the draws of a unit are at most 2 degrees for the oil and 1.5
for the winding) and, for one theorem, `Envelope`.

## Runs

| Run | Module | Checks | Shows |
|---|---|---|---|
| `IngestionHandler` | MCIngestion | `TypeOK`, `MeasurementHasRaw`, `RawIsAdmitted`, `ForeignKeyHolds`, `CountersAgree`, `AcceptedIsStored`, `ReadingsAreNotMixed`, `LossesAreCounted`, `LedgerSpec` | every path of the handler, with a kill, a lost connection and a failing statement anywhere |
| `IngestionSession` | MCIngestion | `HeldOrStored` | two kills, a graceful stop and a lost connection leave no gap between the session and the tables, for every sample without a refused twin |
| `IngestionReconnect` | MCIngestion | `StoredUnlessStuck` | under fairness, lost connections and restarts only delay, unless the client took a message before its route was there |
| `IngestionSnapshot` | MCIngestionMetrics | `SnapshotIsCoherent` | the five loads against the handler |
| `Backfill` | MCBackfill | `BackfillTypeOK`, `RawLineFirst`, `PrefixIsStored`, `LedgerSpec`, `FileIsReplayed` | broken and repeated replays of a growing, damaged file beside another writer; repeated runs load a file the database takes |
| `IngestionStoreError` | MCIngestion | `HeldOrStored`, violated | a failing statement loses the sample |
| `IngestionRestart` | MCIngestion | `OwedIsStored`, violated | messages sent again between `Connect` and `Subscribe` are stuck; the run has a kill, and a connection lost before SUBACK does the same |
| `Warehouse` | MCWarehouse | `WTypeOK`, `RunReflectsBronze`, `FactsHaveTimes`, `DanglingFactsAreNew`, `FailuresHaveACause`, `GoldSpec` | two runs of the job beside its writers, with a failing model or a kill anywhere |
| `Api` | MCApi | `ApiTypeOK`, `WalkMissesNothing`, `ShortPageReachesTotal`, `CreatedDesignStands`, `CandidatesAreComplete`, `ServerErrorsHaveACause` | two concurrent clients on every route, ingestion, dbt, a failing statement |
| `Migrate` | MCMigrate | `UpIsComplete`, `SchemaOnlyAdvances`, `RestartedGetThrough` | three processes migrate an empty database at once, one asks for its version, with a kill or a failing statement anywhere |
| `Fleet` | MCFleet | `LoadableIsOneFleet`, `WrittenLoads`, `EnvelopesHold` | a fleet written over an older one, cut off anywhere |
| `Simulator` | MCSimulator | `SimTypeOK`, `FirstRunIsStored`, `PublishedIsPrefix`, `LabelAgreesUpToRounding`, `OnlyTheseRulesRefuse` | two runs beside the wall clock and the admission of ingestion |

Three properties are proved and not checked by a run of their own. `OnceInOrder` and
`TablesAreSound` follow from properties the runs do check (`SchemaOnlyAdvances`, from an
empty schema; `LedgerSpec` with `LedgerIsSound`); `MTypeOK` is the type invariant of the
reporter. That a key has one raw row and an instant one measurement is part of the ledger.

The violations are disagreements between the code and what its own comments and
documents say; `PROJECT.json` quotes the lines.

Further disagreements were noticed while modelling. They have no run, because a
few lines of source show them:

* the documented cross-field check is `winding > oil` (docs/ingestion.md:30);
  `validate.go:74` tolerates half a degree below, and the dbt test of it does not;
* the documented window is `-max-skew..now` (docs/ingestion.md:26);
  `validate.go:60` allows `now + max-skew` and no past is too old;
* the state is computed from the floats (`normalize.go:14`) and stored beside
  values rounded to hundredths: at a threshold the row contradicts itself;
* after a kill between the two writes, another reading of the same instant can
  supply the measurement of the first one's raw row; while one process lives it cannot
  (`ReadingsAreNotMixed`);
* a winding of -20.3 passes the validator and is refused by a CHECK constraint;
  in the file, such a line, or the fragment a short write leaves, stops every
  replay, although `cmd/backfill/main.go:2-3` promises every record;
* two spellings of an instant, or two samples of one second, are two rows of
  "one row per unique (transformer, instant)" (`int_telemetry.sql:2-3`); a
  reading the JSON omits is zero to Go and NULL to silver. `FailuresHaveACause` names
  both among the causes of failing data tests;
* a payload with the keys `"Timestamp"` or `"Load_Percent"` is admitted
  (`validate.go:46`), stored as sent (`ingestor.go:140`), and NULL or another value to
  silver; rows without a timestamp fall into one partition of the dedup, so that of all
  such samples of a transformer only the newest is staged;
* a timestamp that Go parses and PostgreSQL refuses (the year 0000, an offset beyond
  15:59), or garbage under the exact key beside the timestamp in another case, fails the
  cast of `stg_telemetry.sql:67`. The measurement of the first kind is refused too, and
  counted as a store error, but the raw row stays: every later `dbt run` fails, and gold
  stays what it was (`CastFails`);
* the emitter is never trusted with the state (README.md:106-107), yet silver takes
  it from the raw payload: a wrong label reaches it, and is the cause of a failing
  `state_matches` (`dbt/tests/silver/assert_int_state_matches_recomputed.sql`);
* a lookup that fails is "not found" on three routes, because the handlers do not
  look at the error (`measurements.go:13-18`), where docs/api-contracts.md:57-58
  keeps 404 for what is absent and 500 for the rest (`LookupFailure`);
* a second run of the simulator is called idempotent (docs/compose.md:56), but its
  clock starts at `time.Now()`: the samples are new ones, unless the instants meet,
  and then the first value stays (`FirstRunIsStored` is about the first run for
  that reason);
* the schema is called idempotent (`cmd/ingestion/main.go:68`), and it is in the
  end (`RestartedGetThrough`); but a process that loses the race for a table while
  the winner still has migrations before it exits with an error, and nothing
  restarts a job;
* winding at or above the oil is "enforced by the simulator"
  (docs/telemetry-contract.md:44-48): an idle unit is warmed by its oil faster than its
  winding follows, and a lasting overload takes the oil beyond 150 degrees; the
  validator refuses both (`OnlyTheseRulesRefuse`);
* `etl generate` drops the error of its deferred flush (`cmd/etl/main.go:103`) and
  reports the fleet as written; a cut between rows or inside the last number
  loads as a smaller or slightly different fleet, a file with the header alone as
  an empty one; more than 999 units cannot be generated, because the thousandth id
  does not match the pattern;
* the statistics of a transformer with samples answer 500 until dbt has built
  gold (`analytics.go:76-80`), a design that `Validate` accepts and the table
  refuses answers 500 instead of 422, similarity for the only transformer answers
  503 although the ML service is there (`service.py:72`), the body of a 201 is the design
as sent and not as the `numeric(.., 2)` columns keep it, and `/health` reports
  `ml: ok` without asking (`transformers.go:21`);
* a graceful stop unsubscribes the persistent session, so that what is published
  until the next start is kept for nobody: the model counts a message as owed
  only while the session is subscribed.

### Bounds

Two registered transformers and one stranger; seven messages, each there for
one path (a sample, the same instant with other values, the same instant
spelled differently, a wrong topic, an unregistered id, one too early for a
clock that then ticks, one a CHECK constraint refuses). Two deliveries are
enough for every pairwise conflict of keys, three for the order in a queue; a
window of one or two messages is enough to be full; one or two kills,
disconnects and failing statements each are enough to hit every pair of
adjacent steps, and the invariants that the proofs cover hold for any number of
them. `IngestionReconnect` has one kill and two lost connections: one before SUBACK, and
one more to get out of what it leads to. The backfill run uses two claimed messages (four lines), a short write, a
restart, a failing statement and a foreign row; the proofs lift its invariants to
any file.

Warehouse: two raw rows suffice for every pair the dedup and the tests compare;
two runs, so that the second starts from what the first left; two threads for
the five models (the profile has four), so that models overlap; one failure and
two starts of ingestion, with fleets of different size. Its nine messages carry one
each of what the tests look for: a reading left out, two samples with the key of their
timestamp in another case, one whose values stand under both cases of their keys, a
timestamp of the year 0000, another sample of the second, a winding below the oil, a wrong
label, and a load out of range. Api: two ids and a cap of two rows, as
ids and cap are both a thousand in the code, and a default limit of one; three
requests are two pages and the empty one, or two racing creates and a repeat.

Migrate: the three programs that migrate, the five migrations of the repository
and one fault. Fleet: powers on both sides of every bound of the rules that
rounding could carry them over (14.96, 39.98, 40 and 80 MVA), one write fault, and
up to three units where the largest id that fits is the second. Simulator: two
units of different cooling and losses; six settings (the default five seconds per tick
with the usual load, five minutes per tick with an idle fleet and with the usual load, an
hour with an overload and with clamped loads, twenty hours with clamped loads); two runs,
one repeated publish. The unit of time is five seconds and the skew is five minutes, so
that one tick of five minutes is just within it and one of an hour beyond: both
sides of the skew occur.

Deadlock is not checked in the ingestion runs: with every bounded event used up
and the queues empty the service rightly waits. The same holds elsewhere:
runs, starts, requests and ticks are bounded events, and a migrated process, a
written fleet or a finished simulator has nothing left to do. The counters of
events (`count`, `tally`, `dbErrors`, `otherRows`, `faults`, `writeFaults`,
`repeats`, `errors`) exist only to bound the instances.

### Fairness

Ingestion: weak fairness of the broker's sending and of its taking SUBSCRIBE, of the
library's reconnecting and dispatching, of a running handler (each statement returns), and
of the process's way from down to subscribed, through failed starts too (`Subscribed`,
`SubscribeFails`, `restart: unless-stopped` in `docker-compose.yml`). Nothing is assumed of
publishers, the clock or faults.
Backfill: a replay under way goes on, and the operator repeats it as long as the
file has not been loaded. Migrate: a started process gets on, and compose starts
the ingestion service again (`restart: unless-stopped`); nothing starts a job, or
starts it again.

## Proofs

`IngestionProofs` proves, for every registry, set of messages and every value of
the bounds, that the type invariant, `MeasurementHasRaw`, `RawIsAdmitted`,
`ForeignKeyHolds`, `CountersAgree`, `AcceptedIsStored` and
`ReadingsAreNotMixed` are invariants of `Spec` and that `Spec` implements the ledger. The
assumptions are the two named ones of `Ingestion`: the messages are messages, the registry
is a set of their identifiers, and the bounds are naturals.

None of the invariants is inductive alone. The strengthening (`IInv`) adds what
the handler knows between two steps: at `raw` and `meas` the message in hand is
admissible at the current clock and its key is remembered, at `meas` its raw row
is there (or one with the same key), the transformers table holds the registry
as soon as the process is past `Boot`, the remembered keys are a finite set,
and memory is empty while the process is down. `MeasurementHasRaw` needs the
middle one, `ForeignKeyHolds` the one about the process, `CountersAgree` the
finiteness, because a claimed key must raise the cardinality by exactly one.
`AcceptedIsStored` counts the remembered keys with both rows stored, and needs
that the key in hand at `meas` is not yet among those it counts as accepted.

`ReadingsAreNotMixed` holds while one process has lived all the while (`OneProcess`: none
killed, stopped, or gone because its connection was lost before SUBACK), and is false
after a restart. The argument (`MemoryInv`, `CapturedInv`): such a process remembers the
key of every raw row, because a claimed key is never given back; so the key it has just
claimed has no raw row yet, the raw row of the message in its hands at `meas` is of that
very message, and the measurement is computed from it. Failing statements and
redeliveries change nothing about that.

`LossesAreCounted` is of one process too, and has one hypothesis: the queue of the session
has room for everything published (`MaxPublishes <= MaxQueued`). Statements may fail as
often as they like and rows may be refused; the sample that is gone has been counted. The
argument (`TracedInv`): a remembered key is in the handler's hands, has both its rows, or
a store error has been counted, and so has an admissible message that is about to be
acknowledged; a duplicate inherits what is true of its key, and counters only grow while
the process lives (`CountersGrow`). The middle case is all that a duplicate of a lost
sample has: it is skipped in silence, but its loss was not.

`HeldOrStored` is the strongest of them. It has two hypotheses: no statement
fails (`MaxStoreErrors = 0`, which counts as failing a payload that `jsonb` refuses and
a timestamp that `timestamptz` refuses, but not a row a CHECK constraint refuses) and the queue of the session has room for everything
published (`MaxPublishes <= MaxQueued`). Without the first it is false, which is what
`IngestionStoreError` shows; without the second the broker drops samples. Its argument
(`KeptInv`) follows the key of a storable sample: a remembered key belongs to the message
in the handler's hands, has both its rows, or is one a refused row can take (`SeenInv`); a
storable message that is about to be acknowledged has its rows (`DoneInv`); and the queue
is never longer than what was published (`QueueInv`), so that nothing is dropped. Every
other step keeps a message in the session, over kills, stops and lost connections. While
proving it, the property turned out to be false of a sample whose key a refused twin can claim first:
a row that a CHECK constraint refuses leaves the key remembered. `Storable` excludes such
samples, and the run contains one (`Freezing`).

The invariant also carries over to the composition with the reporter. There
`SnapshotIsCoherent` needs, for each position in the load order, that what is left to
load is at least what `received` promised when it was loaded, which rests on counters
that never decrease and on `received` being loaded first; `MTypeOK` comes with it.

What both writers of bronze need about rows and INSERTs is in
`BronzeTablesProofs`.

`BackfillProofs` proves the safety properties of its run and `TablesAreSound` for any
messages, any growth of the file and any number of faults. The argument follows a sample
through the code: the measurement in the sink's hands has its raw record as the last line
(`HandHasRawLine`), hence in the file the line before a measurement is its raw record
or garbled (`RawLineFirst`), hence what the replay has passed is stored
(`PrefixIsStored`, whose induction needs that rows have the keys of their
payloads), hence a measurement it inserts has a raw row, which is what the ledger asks for.
That the tables are sound (`TablesAreSound`) is then proved once, of the ledger
(`LedgerIsSound`), and carried over by the refinement.

`WarehouseProofs` proves the properties of its run for any fleet, messages, number of
runs, threads and failures, any interleaving of the models with the writers of bronze, and
any `Reads` and `Newer`: whatever silver finds in the text of the payloads, and in
whichever order the dedup takes the rows. The rows of `raw_telemetry` are numbered as they
are ingested, so that "bronze as it was at one instant" is a set of rows none of which is
younger than one outside it. The strengthening (`WInv`) says that what staging has
selected in this run, drafted or built, is a pass over bronze as it was at one instant
after the run began (`StgIsView`); that `int_telemetry`, the facts and `dim_time` have
been computed from the table of this run's staging and nothing else (`DerivedInv`), because
a model is built only after its parents; that `dim_transformer` has at least what was
enrolled when the run began (`DimInv`); and that the facts in the table are a complete
pass over one instant too, until they are replaced one from before the run began
(`FactIsView`).
Only the steps of one model disturb one of these parts; the writers disturb none,
because raw rows are only added and an instant stays an instant (`PastStays`).

From this follow `RunReflectsBronze` and the view: replacing the facts refreshes it, with
the same instant or a later one, and every other step leaves it alone (`GoldSpec`). No more
is true: a newer row can take the place of an older one in the dedup, which
is why the promise is about instants and not about facts that stay. The facts and
`dim_transformer` come from two snapshots, which is why `DanglingFactsAreNew` says no
more than it does.

`FailuresHaveACause` goes through the tests one by one (`TestsHold`): a row staged from a
sample that silver reads as ingestion decoded it (`StagedAsDecoded`) has what `Validate`
admitted, and from there each test either holds or leads to its cause. `CausesStay` says
that a cause does not go away while the run lasts.

The model numbers rows in the order in which they become visible, which holds of one
ingestion process with a statement at a time; `ingested_at` is the start of a transaction,
and with two writers at once its order may be another. That is why the two orders are kept
apart (`ingestedAt` and `Newer`).

`MigrateProofs` proves `OnceInOrder`, `UpIsComplete` and `SchemaOnlyAdvances` for any
processes and any number of migrations and faults. Its strengthening says that nobody
works on a migration beyond the next one (`NeverBeyond`), that who has executed but not
committed holds the next one (`HoldsTheNext`) and is alone in that (`HoldsAlone`),
and that who is through has seen the last version (`UpToDate`). With `WithinLatest` (nobody
works on a migration the directory does not have), the only steps that touch tables or
versions are the commit of the next migration and the creation of the version table.

`FleetProofs` proves the three properties of its run for any draws. No draw is refused
(`EveryDrawIsValid`) and neither fallback of the generator is taken: every high voltage of
an envelope has a low voltage of that envelope below it (`LowerVoltages`), and the least
power of an envelope supports one of its high voltages. The file is empty
at the moment rows are written to it, so that it never mixes two fleets; the bounds of
the rules are whole tenths of MVA, so that rounding never carries a power over one.

`SimulatorProofs` proves the five properties of its run for any fleet, settings,
draws and number of runs, and any curves within `PhysicsAssumption`. `PublishedIsPrefix`:
while a run is on, the last sample in the broker is the one the loop has passed
(`LastIsPassed`). `LabelAgreesUpToRounding`: the thresholds are multiples of a tenth, and
rounding to tenths carries no reading across one (`LabelOfRounded`). `SimTypeOK`: a
thermal step with a share of at most one stays between where it is and its target
(`ThermalStepStays`). `FirstRunIsStored`: a sample's instant is at most its ticks ahead of
the wall clock (`EntriesTimed`), a key stands for one sample within a run
(`EntriesKeyed`), and the runs follow each other in the broker (`EntriesOrdered`), so that
what ingestion has stored before is of the same run. It has two hypotheses on the fleet.
`DistinctIds`: no id occurs twice, which `LoadTransformerCSV` does not check; of two units
with one id only the first has rows. `FleetFits`: the largest current and the voltage
of every unit fit their columns, which no transformer comes near to exceeding.

`OnlyTheseRulesRefuse` is about numbers, and its theorem has a hypothesis on the curves:
for every settings there are two extreme thermal states (`Envelope`), such that every
ambient temperature lies between them, a tick takes neither of them further out
(`Holds`), a load of at least 40 percent brings the winding of the lower one to within
half a degree of its oil, and the upper one's winding is at most 50 degrees above its
oil. A tick keeps the order of two thermal states (`Below`: the cooler oil, and the
winding less ahead of it), so a unit that starts between the extremes stays between them,
whatever the loads do, and what the validator asks follows from the ends. TLC evaluates
the hypotheses on the instance (`InstanceIsCovered` in MCSimulator). Evaluated with the
formulas of `physics.go`, for all five coolings and every draw: the upper state always
exists (the winding is never more than 46.4 degrees above the oil). The lower one exists
at an intensity of 1.0 or more for every interval of at least a second, which includes the
five seconds with 1.0 of the Makefile and the one second with 1.3 of compose; at 0.95 from
five seconds on, at 0.9 from a minute, at 0.8 from two minutes, and at 0.6 and 0.7 from
five minutes. For shorter intervals at these intensities it does not exist if the load may
jump within a tick, and there the theorem says nothing. At an intensity of 0.5 or less no
load reaches 40 percent, and the second exception admits every winding behind its oil.
What was evaluated this way was computed in floating point and is no proof; TLC checks the
six settings of the instance.

`ApiProofs` proves the six properties of its run for any clients, ids and fleets.
`CreatedDesignStands` needs only that the tables have their types: an INSERT finds the
id free, and `Absent` is no design, so nothing had been confirmed for it. For
`CandidatesAreComplete` the strengthening (`RequestInv`) says where each request
can be in its list of statements and that what it knew when it arrived is still
registered, since designs are replaced but never removed; that the limit cuts
nobody off is a counting argument over the ids (`NobodyCutOff`), from the
assumption that there are no more ids than rows in the largest page. The other three
rest on rows that are only added (`TableInv`, `Grows`) and on the
statement a request has reached, which says what the earlier ones found: the positions of
a table have no gap and a row only moves to later ones, so what a walk has not seen is
beyond its offset (`Walking`); the rows counted before a page are at most those it is cut
from (`Counted`); and an answer of 500 or 503 comes from a failure, or from a statement
whose condition was already settled when it was reached (`Caused`).

Only model-checked: the liveness properties (`StoredUnlessStuck`, `FileIsReplayed`,
`RestartedGetThrough`, and `OwedIsStored`, which is violated), which are out of reach of the proof system. What the curves of
`physics.go` compute is not proved either: the instance takes their values from tables,
and the theorems from the hypotheses above.

## Not modelled, and why

* The arithmetic of the thermal curves (an exponential, two powers, a sine) and of
  the ML service is floating-point; the simulator's model has tables of its values.
* Draws of the generator that no rule tells apart (impedance, losses, mass, vector
  group, year, length, width), and the JSON output of `etl`.
* The simulator printing to stdout instead of publishing; `dbmigrate status`, which
  reads as `version` does; the down migrations, which nothing in the repository runs.
* HTTP instrumentation changes no state the rest depends on; shutdown of the API and
  the bodies of its responses are left out.
* `events`, `maintenance` and `raw_events` have no writer. `dim_location` has the keys
  of `dim_transformer`, `dim_sensor` is static.
* The broker's own crash, and its queue overflow beyond `MaxQueued`, are left out of the
  instances.
* A `Subscribe` called while the connection is down: in the model it waits for the library
  to reconnect, or fails and ends the process (`SubscribeFails`). The library may also
  keep the packet and send it later, which `TakeSubscribe` after a reconnect would show.
* Payloads that `jsonb` refuses (`\u0000` in a field nobody decodes) and timestamps that
  `timestamptz` refuses are no kind of message of their own in `Ingestion`: there the
  statement fails, as any other may. Their raw rows, where they have one, are in
  `Warehouse`.
* The rounding of a design by its `numeric(.., 2)` columns: `Api` tells designs apart, not
  their digits.

## Plan

The components are modelled, and every safety property of the passing runs is proved.
What is left:

1. `Backfill`: what a replay that is never broken has done when it ends, as the safety
   half of `FileIsReplayed`.
2. `Simulator`: the lower thermal state for a load that changes by at most so much per
   tick, as the daily profile does, which would cover the remaining intensities and
   intervals.
3. The broker's own crash, and an overflow of its queue.
