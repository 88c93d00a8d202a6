----------------------------- MODULE Simulator -----------------------------
(***************************************************************************)
(* cmd/simulator and internal/telemetry: a clock and the thermal state of  *)
(* every unit, advanced tick by tick without waiting for the wall clock,   *)
(* and the samples published one by one; at the other end the ingestion    *)
(* service, represented by its admission and its INSERT (BronzeTables).    *)
(*                                                                         *)
(* The curves of physics.go are tables of integers given as constants:     *)
(* temperatures in thousandths of a degree, loads in thousandths of a      *)
(* percent, factors per thousand, shares per ten thousand.  The draws New  *)
(* makes for a unit are the same in every run, as the seed is: Fleet.      *)
(* Those of a tick and the daily load profile are a choice from Loads and  *)
(* Jitters.  The instances' unit of time is the shortest interval.         *)
(***************************************************************************)
EXTENDS BronzeTables, Sequences

CONSTANTS Fleet,          \* the designs the CSV holds, each with the draws of New for it
          Ids,            \* their ids, as in a payload
          Limit,          \* -n (0: all)
          Settings,       \* -interval with its shares, -ticks and -intensity
          MaxSkew,        \* -max-skew of the ingestion service
          RawLoads(_),    \* the products targetLoad clamps, at an intensity
          Jitters,        \* the draws of jitter for the oil level
          AmbientAt(_),   \* the daily ambient temperature at an instant
          OilFactor(_, _),  \* the power of topOilSteady, by loss ratio and load
          WindingFactor(_), \* the power of windingSteady, by load
          MaxNow,         \* bound: the last instant of the wall clock
          MaxRuns,        \* bound: runs of the simulator
          MaxRepeats      \* bound: publishes the client library sends twice

(* A share of one, in the unit of shares.                                  *)
Whole == 10000

ASSUME SimulatorAssumption ==
    /\ Len(Fleet) > 0 /\ Limit \in Nat
    /\ Fleet \in Seq([id : Ids, powerMVA : Nat, hvKV : Nat \ {0},
                      cooling : {"ONAN", "ONAF", "OFAF", "OFWF", "ODAF"},
                      lossRatio : Nat, riseJitter : Int, gradJitter : Int])
    /\ NoTopic \notin Ids
    /\ Settings \subseteq [interval : Nat \ {0}, ticks : Nat \ {0},
                           oilShare : Nat, windingShare : Nat,
                           intensity : {s.intensity : s \in Settings}]
    /\ \A s \in Settings : s.oilShare <= Whole /\ s.windingShare <= Whole
    /\ {MaxSkew, MaxNow, MaxRuns, MaxRepeats} \subseteq Nat

VARIABLES
    now,        \* the wall clock
    sim,        \* where main() is
    flags,      \* the settings of this run
    run, tick,  \* runs started, ticks of this run
    clock,      \* Simulator.now
    units,      \* Simulator.units
    batch,      \* the measurements of this tick
    pos,        \* how many of them are published
    repeats,    \* publishes sent twice so far
    published,  \* what the broker took, in order, each with where it came from
    handled,    \* how many of those ingestion has handled
    meas        \* rows of measurements

program == <<sim, flags, run, tick, clock, units, batch, pos>>
vars == <<now, program, repeats, published, handled, meas>>

-----------------------------------------------------------------------------
LoadedFleet == IF Limit > 0 /\ Limit < Len(Fleet) THEN SubSeq(Fleet, 1, Limit) ELSE Fleet
Size == Len(LoadedFleet)

OilRise == [ODAF |-> 60000, OFWF |-> 58000, OFAF |-> 55000, ONAF |-> 52000, ONAN |-> 48000]
WindingGrad == [ODAF |-> 12000, OFWF |-> 13000, OFAF |-> 15000, ONAF |-> 18000, ONAN |-> 20000]

(* Mutant of Clamp: only the lower bound.                                  *)
ClampBelow(x, lo, hi) == IF x < lo THEN lo ELSE x

Clamp(x, lo, hi) == IF x < lo THEN lo ELSE IF x > hi THEN hi ELSE x

(* The curves on the instants and loads a run can come to.  The daily      *)
(* cycle stays above zero, the powers have positive bases, and the draws   *)
(* of New vary a rise by 2 degrees and a gradient by 1.5 at most.          *)
ASSUME PhysicsAssumption ==
    /\ Jitters \subseteq Int
    /\ \A i \in DOMAIN Fleet : Fleet[i].riseJitter >= -2000 /\ Fleet[i].gradJitter >= -1500
    /\ \A s \in Settings :
         /\ \A t \in 0 .. MaxNow + s.ticks * s.interval : AmbientAt(t) \in Nat
         /\ RawLoads(s.intensity) \subseteq Int
         /\ \A raw \in RawLoads(s.intensity) :
              LET load == Clamp(raw, 5000, 160000) IN
              /\ WindingFactor(load) \in Nat
              /\ \A i \in DOMAIN Fleet : OilFactor(Fleet[i].lossRatio, load) \in Nat

(* targetLoad                                                              *)
Loads == {Clamp(load, 5000, 160000) : load \in RawLoads(flags.intensity)}

(* thermalStep: a share of the way to the target.                          *)
ThermalStep(current, target, share) == current + ((target - current) * share) \div Whole

(* New: a unit without load, as warm as the air.                           *)
AtRest(ambient) == [oil |-> ambient, winding |-> ambient]

(* The thermal state of a unit one interval later, under the settings s:   *)
(* the winding follows the oil as it is after its own step.                *)
Heated(s, unit, design, load, ambient) ==
    LET oil == ThermalStep(unit.oil,
                 ambient + ((OilRise[design.cooling] + design.riseJitter)
                              * OilFactor(design.lossRatio, load)) \div 1000,
                 s.oilShare)
    IN  [oil |-> oil,
         winding |-> ThermalStep(unit.winding,
                 oil + ((WindingGrad[design.cooling] + design.gradJitter)
                          * WindingFactor(load)) \div 1000,
                 s.windingShare)]

(* round1, in thousandths.                                                 *)
Round1(x) == ((x + 50) \div 100) * 100

(* Mutant of Label: the state is that of the previous tick's temperatures. *)
LabelBefore(before, after, load) == ClassifyState(before.winding, before.oil, load)

(* The state is computed from the values before they are rounded.          *)
Label(before, after, load) == ClassifyState(after.winding, after.oil, load)

Sample(design, before, after, load, ambient, jitter, at) ==
    [schemaVersion   |-> SchemaVersion,
     transformerId   |-> design.id,
     timestamp       |-> [instant |-> at, spelling |-> "Z"],
     loadPercent     |-> Round1(load),
     ambientTempC    |-> Round1(ambient),
     oilTempC        |-> Round1(after.oil),
     windingTempC    |-> Round1(after.winding),
     oilLevelPercent |-> Round1(Clamp(96000 + ((after.oil - ambient) * 3) \div 100 + jitter,
                                      85000, 99800)),
     currentA        |-> (design.powerMVA * load) \div (173 * design.hvKV),
     voltageKV       |-> Round1(design.hvKV * 100 - (design.hvKV * load) \div 50000),
     state           |-> Label(before, after, load)]

-----------------------------------------------------------------------------
Init ==
    /\ now = 0
    /\ sim = "down" /\ flags \in Settings
    /\ run = 0 /\ tick = 0 /\ clock = 0 /\ pos = 0
    /\ units = <<>> /\ batch = <<>>
    /\ repeats = 0
    /\ published = <<>> /\ handled = 0
    /\ meas = {}

WallClock ==
    /\ now < MaxNow
    /\ now' = now + 1
    /\ UNCHANGED <<program, repeats, published, handled, meas>>

(* main(): the fleet is loaded, every unit starts at the ambient           *)
(* temperature of this instant.  A step that fails leaves nothing behind.  *)
Start ==
    /\ sim \in {"down", "done", "failed"}
    /\ run < MaxRuns
    /\ run' = run + 1
    /\ sim' = "running" /\ flags' \in Settings
    /\ tick' = 0 /\ clock' = now
    /\ units' = [i \in 1 .. Size |-> AtRest(AmbientAt(now))]
    /\ batch' = <<>> /\ pos' = 0
    /\ UNCHANGED <<now, repeats, published, handled, meas>>

(* Mutant of Advanced: the clock moves on for every unit.                  *)
AdvancedPerUnit == clock + Size * flags.interval

Advanced == clock + flags.interval

(* Simulator.Next: a measurement of every unit.                            *)
NextBatch ==
    /\ sim = "running"
    /\ pos = Len(batch)
    /\ tick < flags.ticks
    /\ tick' = tick + 1
    /\ clock' = Advanced
    /\ \E loads \in [1 .. Size -> Loads], jitter \in Jitters :
         LET ambient == AmbientAt(Advanced) IN
         /\ units' = [i \in 1 .. Size |->
                        Heated(flags, units[i], LoadedFleet[i], loads[i], ambient)]
         /\ batch' = [i \in 1 .. Size |->
                        Sample(LoadedFleet[i], units[i], units'[i], loads[i],
                               ambient, jitter, Advanced)]
    /\ pos' = 0
    /\ UNCHANGED <<now, sim, flags, run, repeats, published, handled, meas>>

Publishing == sim = "running" /\ pos < Len(batch)

(* The message in the broker, with the run and the place it has in it.     *)
Posted ==
    [run |-> run, ahead |-> tick * flags.interval, place |-> (tick - 1) * Size + pos + 1,
     msg |-> [topic |-> batch[pos + 1].transformerId, json |-> TRUE, body |-> batch[pos + 1]]]

(* Publish waits for the acknowledgement.                                  *)
Publish ==
    /\ Publishing
    /\ published' = Append(published, Posted)
    /\ pos' = pos + 1
    /\ UNCHANGED <<now, sim, flags, run, tick, clock, units, batch, repeats, handled, meas>>

(* Mutant of PublishTwice: the repeat is counted as a sample.              *)
PublishTwiceCounted ==
    /\ Publishing
    /\ repeats < MaxRepeats
    /\ repeats' = repeats + 1
    /\ published' = published \o <<Posted, Posted>>
    /\ pos' = pos + 2
    /\ UNCHANGED <<now, sim, flags, run, tick, clock, units, batch, handled, meas>>

(* The connection is lost before the acknowledgement: the library          *)
(* reconnects and sends again.                                             *)
PublishTwice ==
    /\ Publishing
    /\ repeats < MaxRepeats
    /\ repeats' = repeats + 1
    /\ published' = published \o <<Posted, Posted>>
    /\ pos' = pos + 1
    /\ UNCHANGED <<now, sim, flags, run, tick, clock, units, batch, handled, meas>>

(* Mutant of PublishFails: the error is logged and the loop goes on.       *)
PublishFailsAndGoesOn ==
    /\ Publishing
    /\ published' \in {published, Append(published, Posted)}
    /\ pos' = pos + 1
    /\ UNCHANGED <<now, sim, flags, run, tick, clock, units, batch, repeats, handled, meas>>

(* The token ends with an error, whether or not the broker has the         *)
(* message, or the process is killed: main exits.                          *)
PublishFails ==
    /\ Publishing
    /\ published' \in {published, Append(published, Posted)}
    /\ sim' = "failed"
    /\ UNCHANGED <<now, flags, run, tick, clock, units, batch, pos, repeats, handled, meas>>

Finish ==
    /\ sim = "running"
    /\ pos = Len(batch)
    /\ tick = flags.ticks
    /\ sim' = "done"
    /\ UNCHANGED <<now, flags, run, tick, clock, units, batch, pos, repeats, published, handled, meas>>

(* Ingestion handles the messages in order, at its own time.               *)
Handle ==
    /\ handled < Len(published)
    /\ handled' = handled + 1
    /\ LET msg == published[handled'].msg
           row == MeasurementRow(Normalize(msg.body))
       IN  meas' = IF Admissible(msg, Ids, now + MaxSkew) /\ FitsColumns(row)
                   THEN InsertMeasurement(meas, row) ELSE meas
    /\ UNCHANGED <<now, program, repeats, published>>

Next ==
    \/ WallClock
    \/ Start \/ NextBatch \/ Publish \/ PublishTwice \/ PublishFails \/ Finish
    \/ Handle

Spec == Init /\ [][Next]_vars
-----------------------------------------------------------------------------
(* Types; the loop over a batch never gets past its end, nor does          *)
(* ingestion get past what was published.                                  *)
SimTypeOK ==
    /\ now \in 0 .. MaxNow
    /\ sim \in {"down", "running", "done", "failed"}
    /\ run \in 0 .. MaxRuns /\ flags \in Settings /\ tick \in 0 .. flags.ticks
    /\ clock \in Nat
    /\ units \in Seq([oil : Int, winding : Int])
    /\ batch \in Seq(Measurement(Ids))
    /\ pos \in 0 .. Len(batch)
    /\ repeats \in 0 .. MaxRepeats
    /\ handled \in 0 .. Len(published)
    /\ meas \subseteq MeasRow(Ids)

(* What the simulator's own clock costs: it runs ahead of the wall clock   *)
(* by an interval per tick, and ingestion tolerates MaxSkew.  A sample of  *)
(* the first run within that many ticks is never refused for its time: it  *)
(* has a row with its own values as soon as it is handled, sent twice or   *)
(* not, however fast the run was.                                          *)
FirstRunIsStored ==
    \A i \in 1 .. handled :
        LET p == published[i] IN
        (p.run = 1 /\ p.ahead <= MaxSkew /\ Plausible(p.msg.body))
            => MeasurementRow(Normalize(p.msg.body)) \in meas

(* A publish that fails ends the run: what the broker has of a run is      *)
(* always its first samples, without a gap.                                *)
PublishedIsPrefix ==
    \A i \in DOMAIN published :
        \/ published[i].place = 1
        \/ /\ i > 1
           /\ published[i - 1].run = published[i].run
           /\ published[i].place - published[i - 1].place \in {0, 1}

(* Within half a tenth of a threshold, where rounding decides.             *)
NearThreshold(m) ==
    \/ \E t \in {95000, 105000} : m.windingTempC = t
    \/ \E t \in {90000, 100000} : m.oilTempC = t
    \/ \E t \in {100000, 140000} : m.loadPercent = t

(* The label of the payload, computed before the rounding, disagrees with  *)
(* the one ingestion and dbt recompute only where a reading was rounded    *)
(* onto a threshold.                                                       *)
LabelAgreesUpToRounding ==
    \A i \in DOMAIN batch :
        Normalize(batch[i]) = batch[i] \/ NearThreshold(batch[i])

(* Of the rules for physical plausibility the simulator can break two: a   *)
(* winding that stays behind the oil, when a unit without load is heated   *)
(* by it, and an oil above 150 degrees under an overload that lasts.       *)
OnlyTheseRulesRefuse ==
    \A i \in DOMAIN batch :
        LET m == batch[i] IN
        Plausible(m) \/ m.oilTempC > 150000
          \/ (m.windingTempC < m.oilTempC - 500 /\ m.loadPercent < 40000)
-----------------------------------------------------------------------------
(* What the theorems about a run ask of the fleet and the settings.        *)
(*                                                                         *)
(* The CSV names no unit twice.                                            *)
DistinctIds == \A i, j \in DOMAIN Fleet : Fleet[i].id = Fleet[j].id => i = j

(* The largest current and voltage a unit is given fit their columns.      *)
FleetFits ==
    \A i \in DOMAIN Fleet :
        /\ (Fleet[i].powerMVA * 160000) \div (173 * Fleet[i].hvKV) <= WidestCurrent
        /\ 10 * Fleet[i].hvKV <= WidestVoltage

(* Of two thermal states, the one with the cooler oil and the winding less *)
(* ahead of it.                                                            *)
Below(u, v) == u.oil <= v.oil /\ u.winding - u.oil <= v.winding - v.oil

(* A tick takes neither of two thermal states further out; a load of at    *)
(* least 40 percent brings the lower one to within half a degree.          *)
Holds(s, low, high, design, load, ambient) ==
    LET lower == Heated(s, low, design, load, ambient)
        upper == Heated(s, high, design, load, ambient)
    IN  /\ Below(low, lower) /\ Below(upper, high)
        /\ Round1(load) < 40000 \/ lower.winding >= lower.oil - 500

(* Two thermal states that hold whatever the unit, the load and the hour.  *)
(* A run starts between them, and the upper one's winding is at most 50    *)
(* degrees ahead of its oil.                                               *)
Instants(s) == 0 .. MaxNow + s.ticks * s.interval

Envelope(s, low, high) ==
    /\ high.winding <= high.oil + 50000
    /\ \A t \in Instants(s) :
         LET ambient == AmbientAt(t) IN
         /\ ambient <= 55000
         /\ Below(low, AtRest(ambient)) /\ Below(AtRest(ambient), high)
         /\ \A i \in DOMAIN Fleet : \A raw \in RawLoads(s.intensity) :
              Holds(s, low, high, Fleet[i], Clamp(raw, 5000, 160000), ambient)
=============================================================================
