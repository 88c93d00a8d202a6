------------------------------ MODULE Backfill ------------------------------
(***************************************************************************)
(* cmd/backfill: replays the JSONL bronze file into the bronze tables      *)
(* (store.ReplayBronze), while the file may still be growing and while     *)
(* another ingestion service may be writing to the same tables.  The other *)
(* writer is represented by what it promises: any step of BronzeLedger.    *)
(***************************************************************************)
EXTENDS BronzeFile, FiniteSets

CONSTANTS MaxDbErrors,   \* bound: statements that fail for no fault of the line
          MaxOtherRows   \* bound: rows the other writer adds

VARIABLES transformers,  \* ids in the transformers table
          raw,           \* rows of raw_telemetry
          meas,          \* rows of measurements
          replay,        \* where main() is: "down", "replaying", "failed", "complete"
          pos,           \* lines this run has consumed
          counted,       \* rawN and measN
          dbErrors,      \* transient statement failures so far
          otherRows      \* rows added by the other writer so far

tables == <<transformers, raw, meas>>
reader == <<replay, pos, counted>>
bvars == <<sink, tables, reader, dbErrors, otherRows>>

Ledger == INSTANCE BronzeLedger

Init ==
    /\ FileInit
    /\ transformers = {} /\ raw = {} /\ meas = {}
    /\ replay = "down"
    /\ pos = 0
    /\ counted = [raw |-> 0, measurement |-> 0]
    /\ dbErrors = 0 /\ otherRows = 0

-----------------------------------------------------------------------------
(* main(): the registry is upserted, then the replay starts from the first *)
(* line.  Whatever became of an earlier run, the operator starts another.  *)
Start ==
    /\ replay # "replaying"
    /\ transformers' = transformers \cup Registry
    /\ replay' = "replaying"
    /\ pos' = 0
    /\ counted' = [raw |-> 0, measurement |-> 0]
    /\ UNCHANGED <<sink, raw, meas, dbErrors, otherRows>>

Reading == replay = "replaying" /\ pos < Len(file)

NextLine == file[pos + 1]

NextRaw == RawRecord(NextLine.msg, NextLine.at)
NextRow == MeasurementRow(Normalize(NextLine.msg.body))

Consume(kind) ==
    /\ pos' = pos + 1
    /\ counted' = [counted EXCEPT ![kind] = @ + 1]
    /\ UNCHANGED <<sink, transformers, replay, dbErrors, otherRows>>

(* Mutant of ReplayRaw: continue comes before the write.                   *)
ReplayRawUnwritten ==
    /\ Reading
    /\ NextLine.kind = "raw"
    /\ UNCHANGED <<raw, meas>>
    /\ Consume("raw")

ReplayRaw ==
    /\ Reading
    /\ NextLine.kind = "raw"
    /\ AcceptsRaw(transformers, NextRaw)
    /\ raw' = InsertRaw(raw, NextRaw)
    /\ UNCHANGED meas
    /\ Consume("raw")

ReplayMeasurement ==
    /\ Reading
    /\ NextLine.kind = "measurement"
    /\ AcceptsMeasurement(transformers, NextRow)
    /\ meas' = InsertMeasurement(meas, NextRow)
    /\ UNCHANGED raw
    /\ Consume("measurement")

(* Mutant of ReplayStops: bad lines are skipped.                           *)
ReplaySkips ==
    /\ replay = "replaying"
    /\ pos < Len(file)
    /\ \/ NextLine.kind = "garbled"
       \/ /\ NextLine.kind = "measurement"
          /\ ~AcceptsMeasurement(transformers, NextRow)
    /\ pos' = pos + 1
    /\ UNCHANGED <<sink, tables, replay, counted, dbErrors, otherRows>>

(* The first line that does not parse, or that the database refuses, ends  *)
(* the run with exit status 1; so does a fragment at the end of the file.  *)
ReplayStops ==
    /\ replay = "replaying"
    /\ \/ pos < Len(file) /\ NextLine.kind = "garbled"
       \/ /\ pos < Len(file) /\ NextLine.kind = "measurement"
          /\ ~AcceptsMeasurement(transformers, NextRow)
       \/ pos = Len(file) /\ fragment
    /\ replay' = "failed"
    /\ UNCHANGED <<sink, tables, pos, counted, dbErrors, otherRows>>

(* Mutant of ReplayBreaks: a write error is logged and the loop goes on.   *)
ReplayGoesOn ==
    /\ Reading
    /\ NextLine.kind # "garbled"
    /\ dbErrors < MaxDbErrors
    /\ dbErrors' = dbErrors + 1
    /\ pos' = pos + 1
    /\ UNCHANGED <<sink, tables, replay, counted, otherRows>>

(* A statement fails, perhaps after it was committed; or the process is    *)
(* killed.                                                                 *)
ReplayBreaks ==
    /\ replay = "replaying"
    /\ dbErrors < MaxDbErrors
    /\ dbErrors' = dbErrors + 1
    /\ replay' = "failed"
    /\ \/ UNCHANGED tables
       \/ /\ Reading /\ NextLine.kind = "raw"
          /\ raw' = InsertRaw(raw, NextRaw)
          /\ UNCHANGED <<transformers, meas>>
       \/ /\ Reading /\ NextLine.kind = "measurement"
          /\ AcceptsMeasurement(transformers, NextRow)
          /\ meas' = InsertMeasurement(meas, NextRow)
          /\ UNCHANGED <<transformers, raw>>
    /\ UNCHANGED <<sink, pos, counted, otherRows>>

ReplayEnds ==
    /\ replay = "replaying"
    /\ pos = Len(file)
    /\ ~fragment
    /\ replay' = "complete"
    /\ UNCHANGED <<sink, tables, pos, counted, dbErrors, otherRows>>

(* The other ingestion service, once the registry is in place.             *)
OtherWriter ==
    /\ Registry \subseteq transformers
    /\ otherRows < MaxOtherRows
    /\ otherRows' = otherRows + 1
    /\ Ledger!Next
    /\ UNCHANGED <<sink, transformers, reader, dbErrors>>

Sink == SinkStep /\ UNCHANGED <<tables, reader, dbErrors, otherRows>>

Next ==
    \/ Sink \/ OtherWriter
    \/ Start \/ ReplayRaw \/ ReplayMeasurement
    \/ ReplayStops \/ ReplayBreaks \/ ReplayEnds

Spec == Init /\ [][Next]_bvars

(* A replay under way goes on; the operator repeats it for as long as it   *)
(* has not loaded the file.  Nothing is assumed of the sink, the other     *)
(* writer or the errors.                                                   *)
Fairness ==
    /\ WF_bvars(Start /\ replay \in {"down", "failed"})
    /\ WF_bvars(Start /\ replay = "complete" /\ pos < Len(file))
    /\ WF_bvars(ReplayRaw) /\ WF_bvars(ReplayMeasurement)
    /\ WF_bvars(ReplayStops) /\ WF_bvars(ReplayEnds)

FairSpec == Spec /\ Fairness

-----------------------------------------------------------------------------
ReplayStates == {"down", "replaying", "failed", "complete"}

BackfillTypeOK ==
    /\ SinkTypeOK
    /\ transformers \subseteq Ids
    /\ raw \subseteq RawRow(Ids)
    /\ meas \subseteq MeasRow(Ids)
    /\ replay \in ReplayStates
    /\ pos \in 0 .. Len(file)
    /\ counted \in [raw : Nat, measurement : Nat]
    /\ dbErrors \in Nat /\ otherRows \in Nat

LineStored(line) ==
    CASE line.kind = "raw"         -> HasRaw(raw, DedupKey(line.msg.body))
      [] line.kind = "measurement" -> HasMeasurement(meas, NaturalKey(line.msg.body))
      [] OTHER                     -> FALSE

(* A run never gets past a line that is not in the database, so that where *)
(* it stopped tells what was loaded; with a second writer on the same      *)
(* tables, after statements that failed with and without effect, and while *)
(* the file grows.                                                         *)
PrefixIsStored == \A i \in 1 .. pos : LineStored(file[i])

(* The database takes the line, once the registry is in place.            *)
Loadable(line) ==
    \/ /\ line.kind = "raw"
       /\ AcceptsRaw(Registry, RawRecord(line.msg, line.at))
    \/ /\ line.kind = "measurement"
       /\ AcceptsMeasurement(Registry, MeasurementRow(Normalize(line.msg.body)))

(* Repeated runs load every record up to the first line that no run gets   *)
(* past, whatever is garbled or refused behind it, and while the file      *)
(* grows and statements fail.                                              *)
FileIsReplayed ==
    \A i \in 1 .. 2 * MaxClaims :
        (i \in DOMAIN file /\ \A j \in 1 .. i : Loadable(file[j]))
            ~> (i \in DOMAIN file /\ LineStored(file[i]))

(* Two writers, one of them replaying a file with holes: together they     *)
(* still implement the append-only, raw-first ledger.                      *)
LedgerSpec == Ledger!Spec

(* Whatever the file holds and however often it is replayed beside the     *)
(* other writer (INSERT ... ON CONFLICT DO NOTHING from both), the tables  *)
(* stay sound: one row to a key, admitted rows, raw rows behind all        *)
(* measurements.                                                           *)
TablesAreSound == Ledger!Sound
=============================================================================
