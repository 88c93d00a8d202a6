-------------------------- MODULE SimulatorProofs --------------------------
(***************************************************************************)
(* Three facts about the simulator, for any fleet, settings, curves within *)
(* the assumptions and number of runs.                                     *)
(*                                                                         *)
(* What the broker has of a run is the run's first samples: while a run is *)
(* on, the last sample in the broker is the one the loop has just got past *)
(* (PublishInv).                                                           *)
(*                                                                         *)
(* The label of a sample is the one recomputed from its rounded readings,  *)
(* unless one is on a threshold: rounding to tenths moves no reading       *)
(* across a multiple of a tenth (SampleInv).                               *)
(*                                                                         *)
(* The first run is stored: its samples carry an instant of its own clock, *)
(* which is as far ahead of the wall clock as its ticks, their keys are    *)
(* different, and ingestion, which handles the messages in order, has seen *)
(* no other run when it comes to them (PostInv, StoreInv).                 *)
(***************************************************************************)
EXTENDS Simulator, BronzeTablesProofs, SequenceTheorems, TLAPS

(* Samples of this run the loop has got past.                              *)
Passed == IF tick = 0 THEN 0 ELSE (tick - 1) * Size + pos

LoopTyped ==
    /\ \E S : published \in Seq(S)
    /\ tick \in Nat /\ pos \in Nat

(* A batch has one sample of every unit, and none before the first tick.   *)
BatchIsWhole ==
    /\ pos <= Len(batch)
    /\ Len(batch) = IF tick = 0 THEN 0 ELSE Size

LastIsPassed ==
    sim = "running" /\ Passed > 0 =>
        /\ Len(published) > 0
        /\ published[Len(published)].run = run
        /\ published[Len(published)].place = Passed

PublishInv == LoopTyped /\ BatchIsWhole /\ LastIsPassed /\ PublishedIsPrefix

-----------------------------------------------------------------------------
LEMMA SizeIsPositive == Size \in Nat /\ Size > 0
<1>1. \E D : Fleet \in Seq(D)
  BY SimulatorAssumption
<1>2. Len(Fleet) > 0 /\ Limit \in Nat
  BY SimulatorAssumption
<1> QED BY <1>1, <1>2 DEF Size, LoadedFleet

(* The sample at pos is the next one of the run, so that appending it once *)
(* or twice leaves no gap.                                                 *)
LEMMA PostedFollows ==
    ASSUME PublishInv, Publishing, NEW more \in {<<Posted>>, <<Posted, Posted>>},
           published' = published \o more
    PROVE  /\ \E S : published' \in Seq(S)
           /\ PublishedIsPrefix'
           /\ Len(published') > 0
           /\ published'[Len(published')] = Posted
           /\ Posted.run = run /\ Posted.place = Passed + 1
<1> DEFINE n == Len(published)
           p == Posted
<1>1. tick \in Nat /\ tick # 0 /\ pos \in Nat
  BY DEF PublishInv, LoopTyped, BatchIsWhole, Publishing
<1>2. p.run = run /\ p.place = Passed + 1 /\ Passed \in Nat
  BY <1>1, SizeIsPositive DEF Posted, Passed
<1>3. PICK S : published \in Seq(S)
  BY DEF PublishInv, LoopTyped
<1> HIDE DEF p
<1>4. /\ n \in Nat /\ DOMAIN published = 1 .. n
      /\ published' \in Seq(S \cup {p})
      /\ DOMAIN published' = 1 .. Len(published')
      /\ Len(published') \in {n + 1, n + 2}
      /\ \A i \in 1 .. n : published'[i] = published[i]
      /\ published'[n + 1] = p
      /\ Len(published') = n + 2 => published'[n + 2] = p
  <2>1. more = <<p>> \/ more = <<p, p>>
    BY DEF p
  <2>2. n \in Nat /\ DOMAIN published = 1 .. n /\ published \in Seq(S \cup {p})
    BY <1>3
  <2>3. CASE published' = published \o <<p>>
    <3>1. published' = Append(published, p)
      BY <1>3, <2>3
    <3>2. /\ published' \in Seq(S \cup {p}) /\ Len(published') = n + 1
          /\ \A i \in 1 .. n : published'[i] = published[i]
          /\ published'[n + 1] = p
      BY <2>2, <3>1
    <3> QED BY <2>2, <3>2
  <2>4. CASE published' = published \o <<p, p>>
    <3>1. <<p, p>> \in Seq(S \cup {p}) /\ Len(<<p, p>>) = 2
          /\ <<p, p>>[1] = p /\ <<p, p>>[2] = p
      OBVIOUS
    <3>2. published' \in Seq(S \cup {p}) /\ Len(published') = n + 2
      BY <2>2, <2>4, <3>1
    <3>3. /\ \A i \in 1 .. n : published'[i] = published[i]
          /\ published'[n + 1] = p /\ published'[n + 2] = p
      BY <2>2, <2>4, <3>1
    <3> QED BY <2>2, <3>2, <3>3
  <2> QED BY <2>1, <2>3, <2>4
<1>5. n > 0 /\ Passed > 0 => published[n].run = run /\ published[n].place = Passed
  BY DEF PublishInv, LastIsPassed, Publishing
<1>6. Passed > 0 => n > 0
  BY DEF PublishInv, LastIsPassed, Publishing
<1>7. PublishedIsPrefix'
  <2> SUFFICES ASSUME NEW i \in DOMAIN published'
               PROVE  \/ published'[i].place = 1
                      \/ /\ i > 1
                         /\ published'[i - 1].run = published'[i].run
                         /\ published'[i].place - published'[i - 1].place \in {0, 1}
    BY DEF PublishedIsPrefix
  <2>1. CASE i \in 1 .. n
    <3>1. \/ published[i].place = 1
          \/ /\ i > 1
             /\ published[i - 1].run = published[i].run
             /\ published[i].place - published[i - 1].place \in {0, 1}
      BY <1>4, <2>1 DEF PublishInv, PublishedIsPrefix
    <3>2. published'[i] = published[i] /\ (i > 1 => published'[i - 1] = published[i - 1])
      BY <1>4, <2>1
    <3> QED BY <3>1, <3>2
  <2>2. CASE i = n + 1
    <3>1. CASE Passed = 0
      BY <1>2, <1>4, <2>2, <3>1
    <3>2. CASE Passed > 0
      <4>1. i > 1 /\ published'[i - 1] = published[n] /\ published'[i] = p
        BY <1>4, <1>6, <2>2, <3>2
      <4> QED BY <1>2, <1>5, <1>6, <3>2, <4>1
    <3> QED BY <1>2, <3>1, <3>2
  <2>3. CASE i = n + 2
    <3>1. i > 1 /\ published'[i - 1] = p /\ published'[i] = p
      BY <1>4, <2>3
    <3>2. p.place - p.place = 0
      BY <1>2
    <3> QED BY <3>1, <3>2
  <2> QED BY <1>4, <2>1, <2>2, <2>3
<1> QED BY <1>2, <1>4, <1>7 DEF p

-----------------------------------------------------------------------------
LEMMA PublishInvInit == Init => PublishInv
<1> SUFFICES ASSUME Init PROVE PublishInv
  OBVIOUS
<1>1. published \in Seq({}) /\ DOMAIN published = {}
  BY DEF Init
<1> QED
  BY <1>1 DEF Init, PublishInv, LoopTyped, BatchIsWhole, LastIsPassed, PublishedIsPrefix

LEMMA StartKeeps == PublishInv /\ Start => PublishInv'
<1> SUFFICES ASSUME PublishInv, Start PROVE PublishInv'
  OBVIOUS
<1>1. LoopTyped' /\ BatchIsWhole' /\ PublishedIsPrefix'
  BY DEF Start, PublishInv, LoopTyped, BatchIsWhole, PublishedIsPrefix
<1>2. LastIsPassed'
  BY DEF Start, LastIsPassed, Passed
<1> QED BY <1>1, <1>2 DEF PublishInv

LEMMA BatchKeeps == PublishInv /\ NextBatch => PublishInv'
<1> SUFFICES ASSUME PublishInv, NextBatch PROVE PublishInv'
  OBVIOUS
<1>1. /\ tick \in Nat /\ pos \in Nat /\ pos = Len(batch)
      /\ tick' = tick + 1 /\ pos' = 0
      /\ UNCHANGED <<sim, run, published>>
  BY DEF NextBatch, PublishInv, LoopTyped
<1>2. Len(batch') = Size
  <2>1. PICK loads, jitter :
          batch' = [i \in 1 .. Size |->
                      Sample(LoadedFleet[i], units[i], units'[i], loads[i],
                             AmbientAt(Advanced), jitter, Advanced)]
    BY DEF NextBatch
  <2> HIDE DEF Size
  <2> QED BY <2>1, SizeIsPositive
<1>3. Passed' = Passed
  <2>1. CASE tick = 0
    BY <1>1, <2>1, SizeIsPositive DEF Passed, Size
  <2>2. CASE tick # 0
    <3>1. pos = Size
      BY <1>1, <2>2 DEF PublishInv, BatchIsWhole
    <3>2. (tick - 1) * Size + Size = tick * Size
      BY <1>1, SizeIsPositive
    <3>3. Passed' = tick * Size
      BY <1>1, <2>2, SizeIsPositive DEF Passed, Size
    <3> QED BY <2>2, <3>1, <3>2, <3>3 DEF Passed
  <2> QED BY <2>1, <2>2
<1>4. LoopTyped' /\ PublishedIsPrefix'
  BY <1>1 DEF PublishInv, LoopTyped, PublishedIsPrefix
<1>5. BatchIsWhole'
  BY <1>1, <1>2, SizeIsPositive DEF BatchIsWhole, Size
<1>6. LastIsPassed'
  BY <1>1, <1>3 DEF PublishInv, LastIsPassed
<1> QED BY <1>4, <1>5, <1>6 DEF PublishInv

LEMMA PublishKeeps == PublishInv /\ (Publish \/ PublishTwice) => PublishInv'
<1> SUFFICES ASSUME PublishInv, Publish \/ PublishTwice PROVE PublishInv'
  OBVIOUS
<1>1. PICK S : published \in Seq(S)
  BY DEF PublishInv, LoopTyped
<1>2. /\ Publishing /\ tick \in Nat /\ pos \in Nat /\ pos < Len(batch) /\ tick # 0
      /\ pos' = pos + 1 /\ UNCHANGED <<sim, run, tick, batch>>
  BY DEF Publish, PublishTwice, Publishing, PublishInv, LoopTyped, BatchIsWhole
<1>3. PICK more \in {<<Posted>>, <<Posted, Posted>>} : published' = published \o more
  <2>1. CASE Publish
    <3>1. published' = published \o <<Posted>>
      BY <1>1, <2>1 DEF Publish
    <3> QED BY <3>1
  <2>2. CASE PublishTwice
    <3>1. published' = published \o <<Posted, Posted>>
      BY <2>2 DEF PublishTwice
    <3> QED BY <3>1
  <2> QED BY <2>1, <2>2
<1>4. /\ \E S2 : published' \in Seq(S2)
      /\ PublishedIsPrefix'
      /\ Len(published') > 0
      /\ published'[Len(published')].run = run
      /\ published'[Len(published')].place = Passed + 1
  BY <1>2, <1>3, PostedFollows
<1>5. Passed' = Passed + 1
  BY <1>2, SizeIsPositive DEF Passed, Size
<1>6. BatchIsWhole'
  BY <1>2, SizeIsPositive DEF PublishInv, BatchIsWhole, Size
<1>7. LoopTyped' /\ LastIsPassed'
  BY <1>2, <1>4, <1>5 DEF LoopTyped, LastIsPassed
<1> QED BY <1>4, <1>6, <1>7 DEF PublishInv

LEMMA FailureKeeps == PublishInv /\ PublishFails => PublishInv'
<1> SUFFICES ASSUME PublishInv, PublishFails PROVE PublishInv'
  OBVIOUS
<1>1. PICK S : published \in Seq(S)
  BY DEF PublishInv, LoopTyped
<1>2. Publishing /\ sim' = "failed" /\ UNCHANGED <<run, tick, batch, pos>>
  BY DEF PublishFails
<1>3. (\E S2 : published' \in Seq(S2)) /\ PublishedIsPrefix'
  <2>1. CASE published' = published
    BY <1>1, <2>1 DEF PublishInv, PublishedIsPrefix
  <2>2. CASE published' = Append(published, Posted)
    <3>1. published' = published \o <<Posted>>
      BY <1>1, <2>2
    <3> QED BY <1>2, <3>1, PostedFollows
  <2> QED BY <2>1, <2>2 DEF PublishFails
<1> QED
  BY <1>2, <1>3 DEF PublishInv, LoopTyped, BatchIsWhole, LastIsPassed, Size

LEMMA OthersKeep ==
    PublishInv /\ (WallClock \/ Finish \/ Handle \/ UNCHANGED vars) => PublishInv'
<1> SUFFICES ASSUME PublishInv, WallClock \/ Finish \/ Handle \/ UNCHANGED vars
             PROVE  PublishInv'
  OBVIOUS
<1>1. UNCHANGED <<run, tick, batch, pos, published>> /\ (sim' = sim \/ sim' = "done")
  BY DEF WallClock, Finish, Handle, vars, program
<1> QED
  BY <1>1 DEF PublishInv, LoopTyped, BatchIsWhole, LastIsPassed, PublishedIsPrefix, Passed, Size

LEMMA PublishInvNext == PublishInv /\ [Next]_vars => PublishInv'
BY StartKeeps, BatchKeeps, PublishKeeps, FailureKeeps, OthersKeep DEF Next

(* Whatever publish fails, is sent twice or is cut off, the broker has the *)
(* first samples of a run, without a gap (cmd/simulator's publish loop).   *)
THEOREM PublishedWithoutGap == Spec => []PublishedIsPrefix
<1>1. PublishInv => PublishedIsPrefix
  BY DEF PublishInv
<1> QED BY <1>1, PublishInvInit, PublishInvNext, PTL DEF Spec
-----------------------------------------------------------------------------
(* A sample as Next builds it.                                             *)
Measured(m) ==
    /\ m \in Measurement(Ids)
    /\ m.schemaVersion = SchemaVersion /\ m.timestamp.spelling = "Z"
    /\ m.oilTempC >= 0 /\ m.windingTempC >= 0 /\ m.ambientTempC >= 0
    /\ \E k \in Int : m.voltageKV = 100 * k
    /\ Normalize(m) = m \/ NearThreshold(m)

Fitting(m) == m.currentA <= WidestCurrent /\ m.voltageKV <= 10 * WidestVoltage

(* A run's clock is its start and an interval per tick, and the samples    *)
(* of the tick carry it; no temperature is below zero.                     *)
RunInv ==
    /\ now \in Nat /\ now <= MaxNow /\ run \in Nat
    /\ flags \in Settings
    /\ tick \in Nat /\ tick <= flags.ticks
    /\ sim = "running" =>
         /\ run > 0
         /\ units \in [1 .. Size -> [oil : Nat, winding : Nat]]
         /\ \E start \in 0 .. now : clock = start + tick * flags.interval
         /\ \A i \in DOMAIN batch :
              /\ i \in 1 .. Size /\ batch[i].transformerId = Fleet[i].id
              /\ batch[i].timestamp.instant = clock

BatchInv ==
    /\ DOMAIN batch = 1 .. Len(batch)
    /\ \A i \in DOMAIN batch : Measured(batch[i]) /\ (FleetFits => Fitting(batch[i]))

(* An entry of published, wherever the run that made it is now.            *)
EntryOK(p) ==
    /\ p.run \in Nat /\ p.ahead \in Nat
    /\ p.msg.json /\ p.msg.topic = p.msg.body.transformerId
    /\ Measured(p.msg.body) /\ (FleetFits => Fitting(p.msg.body))

(* Its instant is not further ahead of the wall clock than its ticks; one  *)
(* of this run with the instant of the clock is of this tick.              *)
Timed(p) ==
    /\ p.run \in 1 .. run
    /\ p.msg.body.timestamp.instant <= now + p.ahead
    /\ sim = "running" /\ p.run = run =>
         /\ p.msg.body.timestamp.instant <= clock
         /\ p.msg.body.timestamp.instant = clock =>
               \E k \in DOMAIN batch : p.msg.body = batch[k]

EntriesFormed == \A i \in DOMAIN published : EntryOK(published[i])
EntriesTimed == \A i \in DOMAIN published : Timed(published[i])
EntriesOrdered ==
    \A i, j \in DOMAIN published : i < j => published[i].run <= published[j].run
(* What a key stands for within a run: one unit, at one tick.              *)
EntriesKeyed ==
    DistinctIds =>
      \A i, j \in DOMAIN published :
        /\ published[i].run = published[j].run
        /\ NaturalKey(published[i].msg.body) = NaturalKey(published[j].msg.body)
        => published[i].msg.body = published[j].msg.body

PostInv == EntriesFormed /\ EntriesTimed /\ EntriesOrdered /\ EntriesKeyed

(* A row is that of a sample handled.                                      *)
StoredInv ==
    /\ handled \in 0 .. Len(published)
    /\ \A row \in meas : \E j \in 1 .. handled :
          row = MeasurementRow(Normalize(published[j].msg.body))

SampleInv == PublishInv /\ RunInv /\ BatchInv

-----------------------------------------------------------------------------
LEMMA NumbersOfTheContract ==
    /\ WidestCurrent \in Nat /\ WidestVoltage \in Nat /\ SchemaVersion \in Nat
BY DEF WidestCurrent, WidestVoltage, SchemaVersion

LEMMA SettingsTyped ==
    ASSUME NEW s \in Settings
    PROVE  /\ s.interval \in Nat /\ s.interval > 0 /\ s.ticks \in Nat
           /\ s.oilShare \in Nat /\ s.oilShare <= Whole
           /\ s.windingShare \in Nat /\ s.windingShare <= Whole
<1>1. \E I : s \in [interval : Nat \ {0}, ticks : Nat \ {0},
                    oilShare : Nat, windingShare : Nat, intensity : I]
  BY SimulatorAssumption
<1>2. s.oilShare <= Whole /\ s.windingShare <= Whole
  BY SimulatorAssumption
<1> QED BY <1>1, <1>2

LEMMA BoundsTyped == {MaxSkew, MaxNow, MaxRuns, MaxRepeats} \subseteq Nat
BY SimulatorAssumption

LEMMA LoadedDesigns ==
    \A i \in 1 .. Size : i \in DOMAIN Fleet /\ LoadedFleet[i] = Fleet[i]
<1>1. \E D : Fleet \in Seq(D)
  BY SimulatorAssumption
<1>2. Len(Fleet) > 0 /\ Limit \in Nat
  BY SimulatorAssumption
<1> QED BY <1>1, <1>2 DEF Size, LoadedFleet

LEMMA Designs ==
    ASSUME NEW i \in DOMAIN Fleet
    PROVE  /\ Fleet[i] \in [id : Ids, powerMVA : Nat, hvKV : Nat \ {0},
                            cooling : {"ONAN", "ONAF", "OFAF", "OFWF", "ODAF"},
                            lossRatio : Nat, riseJitter : Int, gradJitter : Int]
           /\ OilRise[Fleet[i].cooling] + Fleet[i].riseJitter \in Nat
           /\ WindingGrad[Fleet[i].cooling] + Fleet[i].gradJitter \in Nat
<1>1. Fleet[i] \in [id : Ids, powerMVA : Nat, hvKV : Nat \ {0},
                    cooling : {"ONAN", "ONAF", "OFAF", "OFWF", "ODAF"},
                    lossRatio : Nat, riseJitter : Int, gradJitter : Int]
  <2> DEFINE D == [id : Ids, powerMVA : Nat, hvKV : Nat \ {0},
                   cooling : {"ONAN", "ONAF", "OFAF", "OFWF", "ODAF"},
                   lossRatio : Nat, riseJitter : Int, gradJitter : Int]
  <2>1. Fleet \in Seq(D)
    BY SimulatorAssumption
  <2> HIDE DEF D
  <2>2. Fleet[i] \in D
    BY <2>1
  <2> QED BY <2>2 DEF D
<1>2. Fleet[i].riseJitter >= -2000 /\ Fleet[i].gradJitter >= -1500
  BY PhysicsAssumption
<1>3. /\ Fleet[i].cooling \in {"ONAN", "ONAF", "OFAF", "OFWF", "ODAF"}
      /\ Fleet[i].riseJitter \in Int /\ Fleet[i].gradJitter \in Int
  BY <1>1
<1>4. /\ OilRise[Fleet[i].cooling] \in Int /\ OilRise[Fleet[i].cooling] >= 48000
      /\ WindingGrad[Fleet[i].cooling] \in Int /\ WindingGrad[Fleet[i].cooling] >= 12000
  BY <1>3 DEF OilRise, WindingGrad
<1> QED BY <1>1, <1>2, <1>3, <1>4

(* A step of the lag stays between where it is and its target.             *)
LEMMA ThermalStepStays ==
    ASSUME NEW current \in Nat, NEW target \in Nat, NEW share \in Nat, share <= Whole
    PROVE  ThermalStep(current, target, share) \in Nat
<1> DEFINE d == target - current
           part == (d * share) \div Whole
<1> USE DEF Whole
<1>1. d \in Int /\ d * share \in Int /\ part \in Int
  OBVIOUS
<1>2. ThermalStep(current, target, share) = current + part
  BY DEF ThermalStep
<1>3. CASE d >= 0
  <2>1. d * share >= 0
    BY <1>3
  <2> DEFINE x == d * share
  <2> HIDE DEF d, x
  <2>2. x \in Int /\ x >= 0 /\ part = x \div Whole
    BY <1>1, <2>1 DEF x
  <2>3. part >= 0
    BY <2>2
  <2> HIDE DEF part
  <2> QED BY <1>1, <1>2, <2>3
<1>4. CASE d < 0
  <2>1. d * share >= d * Whole
    BY <1>4
  <2> DEFINE x == d * share
  <2>2. x \in Int /\ x >= d * Whole /\ part = x \div Whole
    BY <1>1, <2>1
  <2> HIDE DEF x, part
  <2>3. part >= d
    BY <1>1, <2>2
  <2>4. part \in Int
    BY <1>1
  <2> QED BY <1>2, <2>3, <2>4
<1> QED BY <1>1, <1>3, <1>4

LEMMA Rounding ==
    ASSUME NEW x \in Int
    PROVE  /\ Round1(x) \in Int /\ x >= 0 => Round1(x) >= 0
           /\ \E k \in Int : Round1(x) = 100 * k /\ 100 * k <= x + 50 /\ x < 100 * k + 50
           /\ \A k \in Int : x <= 100 * k => Round1(x) <= 100 * k
<1>1. PICK q \in Int : (x + 50) \div 100 = q /\ 100 * q <= x + 50 /\ x + 50 < 100 * q + 100
  <2> DEFINE q == (x + 50) \div 100
  <2>1. q \in Int /\ 100 * q <= x + 50 /\ x + 50 < 100 * q + 100
    OBVIOUS
  <2> HIDE DEF q
  <2> QED BY <2>1 DEF q
<1>2. Round1(x) = 100 * q
  BY <1>1 DEF Round1
<1> QED BY <1>1, <1>2

(* A label computed before the rounding, against one computed after it.    *)
LEMMA LabelOfRounded ==
    ASSUME NEW winding \in Int, NEW oil \in Int, NEW load \in Int,
           Round1(winding) \notin {95000, 105000}, Round1(oil) \notin {90000, 100000},
           Round1(load) \notin {100000, 140000}
    PROVE  ClassifyState(Round1(winding), Round1(oil), Round1(load))
             = ClassifyState(winding, oil, load)
<1>1. /\ winding >= 95000 <=> Round1(winding) >= 95000
      /\ winding >= 105000 <=> Round1(winding) >= 105000
  <2>1. PICK k \in Int : Round1(winding) = 100 * k /\ 100 * k <= winding + 50 /\ winding < 100 * k + 50
    BY Rounding
  <2> QED BY <2>1
<1>2. /\ oil >= 90000 <=> Round1(oil) >= 90000
      /\ oil >= 100000 <=> Round1(oil) >= 100000
  <2>1. PICK k \in Int : Round1(oil) = 100 * k /\ 100 * k <= oil + 50 /\ oil < 100 * k + 50
    BY Rounding
  <2> QED BY <2>1
<1>3. /\ load > 100000 <=> Round1(load) > 100000
      /\ load >= 140000 <=> Round1(load) >= 140000
  <2>1. PICK k \in Int : Round1(load) = 100 * k /\ 100 * k <= load + 50 /\ load < 100 * k + 50
    BY Rounding
  <2> QED BY <2>1
<1> QED BY <1>1, <1>2, <1>3 DEF ClassifyState

LEMMA DivGrows ==
    ASSUME NEW a \in Nat, NEW b \in Nat, a <= b, NEW k \in Nat \ {0}
    PROVE  a \div k \in Nat /\ a \div k <= b \div k
<1> DEFINE q == a \div k
           r == b \div k
<1>1. q \in Int /\ k * q <= a /\ a < k * q + k
  OBVIOUS
<1>2. r \in Int /\ k * r <= b /\ b < k * r + k
  OBVIOUS
<1> HIDE DEF q, r
<1>3. q <= r
  <2> SUFFICES ASSUME q >= r + 1 PROVE FALSE
    BY <1>1, <1>2
  <2>1. k * q >= k * (r + 1)
    BY <1>1, <1>2
  <2>2. k * (r + 1) = k * r + k
    BY <1>2
  <2> QED BY <1>1, <1>2, <2>1, <2>2
<1>4. q >= 0
  <2> SUFFICES ASSUME q <= -1 PROVE FALSE
    BY <1>1
  <2>1. k * q <= k * (-1)
    BY <1>1
  <2> QED BY <1>1, <2>1
<1> QED BY <1>1, <1>3, <1>4 DEF q, r

LEMMA LoadsClamped ==
    ASSUME flags \in Settings, NEW load \in Loads
    PROVE  /\ load \in Int /\ 5000 <= load /\ load <= 160000
           /\ WindingFactor(load) \in Nat
           /\ \A i \in DOMAIN Fleet : OilFactor(Fleet[i].lossRatio, load) \in Nat
<1>1. PICK raw \in RawLoads(flags.intensity) : load = Clamp(raw, 5000, 160000)
  BY DEF Loads
<1>2. /\ raw \in Int
      /\ WindingFactor(load) \in Nat
      /\ \A i \in DOMAIN Fleet : OilFactor(Fleet[i].lossRatio, load) \in Nat
  BY <1>1, PhysicsAssumption
<1> QED BY <1>1, <1>2 DEF Clamp

(* No step of the thermal model goes below zero.                           *)
LEMMA HeatedStays ==
    ASSUME flags \in Settings, NEW i \in 1 .. Size, NEW unit \in [oil : Nat, winding : Nat],
           NEW load \in Loads, NEW ambient \in Nat
    PROVE  Heated(flags, unit, LoadedFleet[i], load, ambient) \in [oil : Nat, winding : Nat]
<1> DEFINE design == LoadedFleet[i]
           rise == OilRise[design.cooling] + design.riseJitter
           grad == WindingGrad[design.cooling] + design.gradJitter
           above == (rise * OilFactor(design.lossRatio, load)) \div 1000
           over == (grad * WindingFactor(load)) \div 1000
           oil == ThermalStep(unit.oil, ambient + above, flags.oilShare)
           winding == ThermalStep(unit.winding, oil + over, flags.windingShare)
<1>1. Heated(flags, unit, design, load, ambient) = [oil |-> oil, winding |-> winding]
  BY DEF Heated
<1>2. /\ flags.oilShare \in Nat /\ flags.oilShare <= Whole
      /\ flags.windingShare \in Nat /\ flags.windingShare <= Whole
  BY SettingsTyped
<1>3. i \in DOMAIN Fleet /\ design = Fleet[i]
  BY LoadedDesigns
<1>4. rise \in Nat /\ grad \in Nat
  BY <1>3, Designs
<1>5. OilFactor(design.lossRatio, load) \in Nat /\ WindingFactor(load) \in Nat
  BY <1>3, LoadsClamped
<1>6. above \in Nat
  <2>1. rise * OilFactor(design.lossRatio, load) \in Nat
    BY <1>4, <1>5
  <2> QED BY <2>1, DivGrows
<1>7. over \in Nat
  <2>1. grad * WindingFactor(load) \in Nat
    BY <1>4, <1>5
  <2> QED BY <2>1, DivGrows
<1> HIDE DEF above, over
<1>8. oil \in Nat
  <2> DEFINE target == ambient + above
             current == unit.oil
             share == flags.oilShare
  <2>1. target \in Nat /\ current \in Nat /\ share \in Nat /\ share <= Whole
    BY <1>2, <1>6
  <2> HIDE DEF target, current, share
  <2>2. ThermalStep(current, target, share) \in Nat
    BY <2>1, ThermalStepStays
  <2> QED BY <2>2 DEF target, current, share
<1> HIDE DEF oil
<1>9. winding \in Nat
  <2> DEFINE target == oil + over
             current == unit.winding
             share == flags.windingShare
  <2>1. target \in Nat /\ current \in Nat /\ share \in Nat /\ share <= Whole
    BY <1>2, <1>7, <1>8
  <2> HIDE DEF target, current, share
  <2>2. ThermalStep(current, target, share) \in Nat
    BY <2>1, ThermalStepStays
  <2> QED BY <2>2 DEF target, current, share
<1> HIDE DEF winding
<1> QED BY <1>1, <1>8, <1>9

(* Every sample the loop makes is one the invariants describe.             *)
LEMMA SampleIsMeasured ==
    ASSUME flags \in Settings, NEW i \in 1 .. Size, NEW before, NEW load \in Loads,
           NEW after \in [oil : Nat, winding : Nat],
           NEW ambient \in Nat, NEW jitter \in Jitters, NEW at \in Nat
    PROVE  LET m == Sample(LoadedFleet[i], before, after, load, ambient, jitter, at) IN
           Measured(m) /\ (FleetFits => Fitting(m))
<1> DEFINE m == Sample(LoadedFleet[i], before, after, load, ambient, jitter, at)
           design == LoadedFleet[i]
           level == Clamp(96000 + ((after.oil - ambient) * 3) \div 100 + jitter, 85000, 99800)
           current == (design.powerMVA * load) \div (173 * design.hvKV)
           voltage == design.hvKV * 100 - (design.hvKV * load) \div 50000
<1>1. m = [schemaVersion   |-> SchemaVersion,
           transformerId   |-> design.id,
           timestamp       |-> [instant |-> at, spelling |-> "Z"],
           loadPercent     |-> Round1(load),
           ambientTempC    |-> Round1(ambient),
           oilTempC        |-> Round1(after.oil),
           windingTempC    |-> Round1(after.winding),
           oilLevelPercent |-> Round1(level),
           currentA        |-> current,
           voltageKV       |-> Round1(voltage),
           state           |-> ClassifyState(after.winding, after.oil, load)]
  BY DEF Sample, Label
<1> HIDE DEF m
<1>2. i \in DOMAIN Fleet /\ design = Fleet[i]
  BY LoadedDesigns
<1>3. design.id \in Ids /\ design.powerMVA \in Nat /\ design.hvKV \in Nat \ {0}
  BY <1>2, Designs
<1>4. load \in Int /\ 5000 <= load /\ load <= 160000
  BY LoadsClamped
<1>5. level \in Int
  <2>1. jitter \in Int /\ after.oil \in Nat
    BY PhysicsAssumption
  <2>2. 96000 + ((after.oil - ambient) * 3) \div 100 + jitter \in Int
    BY <2>1
  <2> QED BY <2>2 DEF Clamp
<1>6. /\ current \in Nat
      /\ current <= (design.powerMVA * 160000) \div (173 * design.hvKV)
  <2>1. /\ design.powerMVA * load \in Nat /\ design.powerMVA * 160000 \in Nat
        /\ design.powerMVA * load <= design.powerMVA * 160000
        /\ 173 * design.hvKV \in Nat \ {0}
    BY <1>3, <1>4
  <2> QED BY <2>1, DivGrows
<1>7. voltage \in Int /\ voltage <= 100 * design.hvKV
  <2>1. design.hvKV * load \in Nat
    BY <1>3, <1>4
  <2>2. (design.hvKV * load) \div 50000 \in Nat
    BY <2>1, DivGrows
  <2> QED BY <1>3, <2>2
<1> HIDE DEF level, current, voltage
<1>8. /\ Round1(load) \in Int /\ Round1(ambient) \in Int /\ Round1(ambient) >= 0
      /\ Round1(after.oil) \in Int /\ Round1(after.oil) >= 0
      /\ Round1(after.winding) \in Int /\ Round1(after.winding) >= 0
      /\ Round1(level) \in Int /\ Round1(voltage) \in Int
  BY <1>4, <1>5, <1>7, Rounding
<1>9. (\E k \in Int : Round1(voltage) = 100 * k) /\ Round1(voltage) <= 100 * design.hvKV
  BY <1>3, <1>7, Rounding
<1>10. ClassifyState(after.winding, after.oil, load) \in States
  BY <1>4, ClassifyStates
<1> DEFINE label == ClassifyState(after.winding, after.oil, load)
<1>11. m \in Measurement(Ids)
  <2> HIDE DEF label
  <2>1. label \in Labels /\ [instant |-> at, spelling |-> "Z"] \in Timestamp
    BY <1>10 DEF Labels, Timestamp, Spellings, label
  <2> QED BY <1>1, <1>3, <1>6, <1>8, <2>1, NumbersOfTheContract DEF Measurement, label
<1>12. /\ m.loadPercent = Round1(load) /\ m.oilTempC = Round1(after.oil)
       /\ m.windingTempC = Round1(after.winding) /\ m.ambientTempC = Round1(ambient)
       /\ m.voltageKV = Round1(voltage) /\ m.currentA = current /\ m.state = label
       /\ m.schemaVersion = SchemaVersion /\ m.transformerId = design.id
       /\ m.timestamp.spelling = "Z" /\ m.timestamp.instant = at
  BY <1>1
<1>13. Normalize(m) = m \/ NearThreshold(m)
  <2> SUFFICES ASSUME ~ NearThreshold(m) PROVE Normalize(m) = m
    OBVIOUS
  <2>1. /\ Round1(after.winding) \notin {95000, 105000} /\ Round1(after.oil) \notin {90000, 100000}
        /\ Round1(load) \notin {100000, 140000}
    BY <1>12 DEF NearThreshold
  <2>2. ClassifyState(Round1(after.winding), Round1(after.oil), Round1(load)) = label
    BY <1>4, <2>1, LabelOfRounded
  <2>3. ClassifyState(m.windingTempC, m.oilTempC, m.loadPercent) = m.state
    BY <1>12, <2>2
  <2>4. Normalize(m) = [m EXCEPT !.state = m.state]
    BY <2>3 DEF Normalize
  <2> QED BY <1>11, <2>4 DEF Measurement
<1> HIDE DEF label
<1>14. Measured(m)
  BY <1>8, <1>9, <1>11, <1>12, <1>13 DEF Measured
<1>15. ASSUME FleetFits PROVE Fitting(m)
  <2>1. /\ (design.powerMVA * 160000) \div (173 * design.hvKV) <= WidestCurrent
        /\ 10 * design.hvKV <= WidestVoltage
    BY <1>2, <1>15 DEF FleetFits
  <2>2. m.voltageKV <= 10 * WidestVoltage
    BY <1>3, <1>8, <1>9, <1>12, <2>1, NumbersOfTheContract
  <2>3. m.currentA <= WidestCurrent
    <3> DEFINE widest == (design.powerMVA * 160000) \div (173 * design.hvKV)
    <3>1. widest \in Int /\ current <= widest /\ widest <= WidestCurrent
      BY <1>3, <1>6, <2>1
    <3> HIDE DEF widest
    <3> QED BY <1>6, <1>12, <3>1, NumbersOfTheContract
  <2> QED BY <2>2, <2>3 DEF Fitting
<1> QED BY <1>14, <1>15 DEF m

(* A plausible sample within the skew is admitted and fits the columns.    *)
LEMMA SampleIsStorable ==
    ASSUME NEW msg, msg.json, msg.topic = msg.body.transformerId,
           Measured(msg.body), Fitting(msg.body), Plausible(msg.body),
           NEW horizon \in Nat, msg.body.timestamp.instant <= horizon
    PROVE  /\ Admissible(msg, Ids, horizon)
           /\ FitsColumns(MeasurementRow(Normalize(msg.body)))
<1> DEFINE m == msg.body
           row == MeasurementRow(Normalize(m))
<1>1. /\ m \in Measurement(Ids) /\ m.schemaVersion = SchemaVersion /\ m.timestamp.spelling = "Z"
      /\ m.oilTempC >= 0 /\ m.windingTempC >= 0 /\ m.ambientTempC >= 0
      /\ \E k \in Int : m.voltageKV = 100 * k
  BY DEF Measured
<1>2. m.transformerId \in Ids
  BY <1>1 DEF Measurement
<1>3. m.transformerId # NoTopic
  BY <1>2, SimulatorAssumption
<1>4. Admissible(msg, Ids, horizon)
  BY <1>1, <1>2, <1>3 DEF Admissible, Valid
<1>5. /\ row.loadPercent = Hundredths(m.loadPercent)
      /\ row.ambientTempC = Hundredths(m.ambientTempC)
      /\ row.oilTempC = Hundredths(m.oilTempC)
      /\ row.windingTempC = Hundredths(m.windingTempC)
      /\ row.oilLevelPercent = Hundredths(m.oilLevelPercent)
      /\ row.currentA = m.currentA
      /\ row.voltageKV = Hundredths(m.voltageKV)
  BY <1>1 DEF Normalize, MeasurementRow, Measurement
<1>6. row.state \in States
  <2>1. row \in MeasRow(Ids)
    BY <1>1, MeasurementRowTyped
  <2> HIDE DEF row
  <2> QED BY <2>1 DEF MeasRow
<1> HIDE DEF row
<1>7. /\ m.loadPercent \in Int /\ m.ambientTempC \in Int /\ m.oilTempC \in Int
      /\ m.windingTempC \in Int /\ m.oilLevelPercent \in Int /\ m.currentA \in Int
      /\ m.voltageKV \in Int
  BY <1>1 DEF Measurement
<1>8. \A x \in Int, hi \in Int : 0 <= x /\ x <= 10 * hi => 0 <= Hundredths(x) /\ Hundredths(x) <= hi
  BY DEF Hundredths
<1>9. /\ 0 <= row.loadPercent /\ row.loadPercent <= 20000
      /\ 0 <= row.oilLevelPercent /\ row.oilLevelPercent <= 10000
  <2>1. /\ 0 <= m.loadPercent /\ m.loadPercent <= 10 * 20000
        /\ 0 <= m.oilLevelPercent /\ m.oilLevelPercent <= 10 * 10000
    BY DEF Plausible
  <2> QED BY <1>5, <1>7, <1>8, <2>1
<1>10. /\ 0 <= row.ambientTempC /\ row.ambientTempC <= 5500
       /\ 0 <= row.oilTempC /\ row.oilTempC <= 15000
       /\ 0 <= row.windingTempC /\ row.windingTempC <= 20000
  <2>1. /\ m.ambientTempC <= 10 * 5500 /\ m.oilTempC <= 10 * 15000
        /\ m.windingTempC <= 10 * 20000
    BY DEF Plausible
  <2> QED BY <1>1, <1>5, <1>7, <1>8, <2>1
<1>11. 0 <= row.currentA /\ row.currentA <= WidestCurrent
  BY <1>5 DEF Plausible, Fitting
<1>12. 1 <= row.voltageKV /\ row.voltageKV <= WidestVoltage
  <2>1. m.voltageKV > 0 /\ m.voltageKV <= 10 * WidestVoltage
    BY DEF Plausible, Fitting
  <2>2. m.voltageKV >= 100
    BY <1>1, <2>1
  <2>3. Hundredths(m.voltageKV) <= WidestVoltage
    BY <1>7, <1>8, <2>1, <2>2, NumbersOfTheContract
  <2>4. Hundredths(m.voltageKV) >= 1
    BY <1>7, <2>2 DEF Hundredths
  <2> QED BY <1>5, <2>3, <2>4
<1>13. FitsColumns(row)
  <2> DEFINE a == row.ambientTempC
             o == row.oilTempC
             w == row.windingTempC
  <2>1. a \in Int /\ o \in Int /\ w \in Int
    BY <1>5, <1>7, HundredthsInt
  <2>2. -2000 <= a /\ -2000 <= o /\ -2000 <= w
    BY <1>10, <2>1
  <2> QED BY <1>6, <1>9, <1>10, <1>11, <1>12, <2>2 DEF FitsColumns
<1> QED BY <1>4, <1>13 DEF row

-----------------------------------------------------------------------------
LEMMA SampleInvInit == Init => SampleInv
<1> SUFFICES ASSUME Init PROVE SampleInv
  OBVIOUS
<1>1. DOMAIN batch = {} /\ Len(batch) = 0
  BY DEF Init
<1>2. RunInv
  BY SimulatorAssumption DEF Init, RunInv
<1> QED BY <1>1, <1>2, PublishInvInit DEF SampleInv, BatchInv

LEMMA StartKeepsSamples == SampleInv /\ Start => SampleInv'
<1> SUFFICES ASSUME SampleInv, Start PROVE SampleInv'
  OBVIOUS
<1>1. /\ now \in Nat /\ now <= MaxNow /\ run \in Nat
      /\ UNCHANGED now /\ run' = run + 1 /\ flags' \in Settings /\ tick' = 0 /\ clock' = now
  BY DEF SampleInv, RunInv, Start
<1>2. flags'.interval \in Nat /\ flags'.ticks \in Nat /\ MaxNow \in Nat
  BY <1>1, SettingsTyped, BoundsTyped
<1>3. AmbientAt(now) \in Nat
  <2>1. \A t \in 0 .. MaxNow + flags'.ticks * flags'.interval : AmbientAt(t) \in Nat
    BY <1>1, PhysicsAssumption
  <2>2. flags'.ticks * flags'.interval \in Nat
    BY <1>2
  <2>3. now \in 0 .. MaxNow + flags'.ticks * flags'.interval
    BY <1>1, <1>2, <2>2
  <2> QED BY <2>1, <2>3
<1>4. units' \in [1 .. Size -> [oil : Nat, winding : Nat]]
  BY <1>3 DEF Start, AtRest
<1>5. \E start \in 0 .. now' : clock' = start + tick' * flags'.interval
  <2>1. now \in 0 .. now' /\ clock' = now + tick' * flags'.interval
    BY <1>1, <1>2
  <2> QED BY <2>1
<1>6. DOMAIN batch' = {} /\ Len(batch') = 0
  BY DEF Start
<1>7. BatchInv'
  BY <1>6 DEF BatchInv
<1>8. Size' = Size
  BY DEF Size, LoadedFleet
<1>9. \A i \in DOMAIN batch' : /\ i \in 1 .. Size' /\ batch'[i].transformerId = Fleet[i].id
                              /\ batch'[i].timestamp.instant = clock'
  BY <1>6
<1> HIDE DEF Size
<1>10. RunInv'
  BY <1>1, <1>2, <1>4, <1>5, <1>8, <1>9 DEF RunInv
<1> QED BY <1>7, <1>10, StartKeeps DEF SampleInv

(* The clock of a run, and that of its next tick.                          *)
LEMMA ClockOfRun ==
    ASSUME RunInv, sim = "running"
    PROVE  /\ clock \in Nat /\ flags.interval \in Nat \ {0} /\ tick * flags.interval \in Nat
           /\ clock <= now + tick * flags.interval
           /\ tick < flags.ticks => /\ Advanced \in 0 .. MaxNow + flags.ticks * flags.interval
                                   /\ AmbientAt(Advanced) \in Nat
<1>1. PICK start \in 0 .. now : clock = start + tick * flags.interval
  BY DEF RunInv
<1>2. now \in Nat /\ now <= MaxNow /\ MaxNow \in Nat /\ tick \in Nat /\ flags \in Settings
  BY BoundsTyped DEF RunInv
<1>3. flags.interval \in Nat \ {0} /\ flags.ticks \in Nat
  BY <1>2, SettingsTyped
<1>4. tick * flags.interval \in Nat
  BY <1>2, <1>3
<1>5. ASSUME tick < flags.ticks
      PROVE  /\ Advanced \in 0 .. MaxNow + flags.ticks * flags.interval
             /\ AmbientAt(Advanced) \in Nat
  <2>1. /\ flags.ticks * flags.interval \in Nat
        /\ tick * flags.interval + flags.interval <= flags.ticks * flags.interval
    <3>1. (tick + 1) * flags.interval <= flags.ticks * flags.interval
      BY <1>2, <1>3, <1>5
    <3>2. (tick + 1) * flags.interval = tick * flags.interval + flags.interval
      BY <1>2, <1>3
    <3> QED BY <1>2, <1>3, <3>1, <3>2
  <2>2. Advanced \in 0 .. MaxNow + flags.ticks * flags.interval
    BY <1>1, <1>2, <1>3, <1>4, <2>1 DEF Advanced
  <2>3. \A t \in 0 .. MaxNow + flags.ticks * flags.interval : AmbientAt(t) \in Nat
    BY <1>2, PhysicsAssumption
  <2> QED BY <2>2, <2>3
<1> QED BY <1>1, <1>2, <1>3, <1>4, <1>5

LEMMA BatchKeepsSamples == SampleInv /\ NextBatch => SampleInv'
<1> SUFFICES ASSUME SampleInv, NextBatch PROVE SampleInv'
  OBVIOUS
<1>1. /\ sim = "running" /\ tick < flags.ticks /\ tick' = tick + 1 /\ clock' = Advanced
      /\ UNCHANGED <<now, sim, flags, run>>
      /\ RunInv /\ now \in Nat /\ now <= MaxNow /\ run \in Nat /\ run > 0
      /\ flags \in Settings /\ tick \in Nat
      /\ units \in [1 .. Size -> [oil : Nat, winding : Nat]]
  BY DEF SampleInv, RunInv, NextBatch
<1>2. AmbientAt(Advanced) \in Nat /\ Advanced \in Nat /\ flags.interval \in Nat /\ flags.ticks \in Nat
  BY <1>1, ClockOfRun, SettingsTyped DEF Advanced
<1> DEFINE ambient == AmbientAt(Advanced)
<1>3. PICK loads \in [1 .. Size -> Loads], jitter \in Jitters :
        /\ units' = [i \in 1 .. Size |-> Heated(flags, units[i], LoadedFleet[i], loads[i], ambient)]
        /\ batch' = [i \in 1 .. Size |->
                       Sample(LoadedFleet[i], units[i], units'[i], loads[i],
                              ambient, jitter, Advanced)]
  BY DEF NextBatch
<1>4. \A i \in 1 .. Size : units'[i] \in [oil : Nat, winding : Nat]
  <2> TAKE i \in 1 .. Size
  <2>1. units[i] \in [oil : Nat, winding : Nat] /\ loads[i] \in Loads
    BY <1>1
  <2>2. Heated(flags, units[i], LoadedFleet[i], loads[i], ambient) \in [oil : Nat, winding : Nat]
    BY <1>1, <1>2, <2>1, HeatedStays
  <2> QED BY <1>3, <2>2
<1>5. units' \in [1 .. Size -> [oil : Nat, winding : Nat]]
  BY <1>3, <1>4
<1>6. DOMAIN batch' = 1 .. Size /\ Len(batch') = Size
  <2>1. DOMAIN batch' = 1 .. Size /\ Size \in Nat
    BY <1>3, SizeIsPositive
  <2> HIDE DEF Size
  <2> QED BY <2>1
<1>7. \A i \in 1 .. Size : /\ Measured(batch'[i]) /\ (FleetFits => Fitting(batch'[i]))
                           /\ batch'[i].transformerId = Fleet[i].id
                           /\ batch'[i].timestamp.instant = Advanced
  <2> TAKE i \in 1 .. Size
  <2>1. units'[i] \in [oil : Nat, winding : Nat] /\ loads[i] \in Loads
    BY <1>4
  <2>2. batch'[i] = Sample(LoadedFleet[i], units[i], units'[i], loads[i], ambient, jitter, Advanced)
    BY <1>3
  <2> DEFINE m == batch'[i]
             before == units[i]
             after == units'[i]
             load == loads[i]
             at == Advanced
  <2>3. /\ m = Sample(LoadedFleet[i], before, after, load, ambient, jitter, at)
        /\ after \in [oil : Nat, winding : Nat] /\ load \in Loads
        /\ ambient \in Nat /\ at \in Nat /\ flags \in Settings
    BY <1>1, <1>2, <2>1, <2>2
  <2> HIDE DEF m, before, after, load, ambient, at
  <2>4. m.transformerId = Fleet[i].id /\ m.timestamp.instant = at
    BY <2>3, LoadedDesigns DEF Sample
  <2>5. Measured(m) /\ (FleetFits => Fitting(m))
    BY <2>3, SampleIsMeasured
  <2> QED BY <2>4, <2>5 DEF m, at
<1>8. \E start \in 0 .. now' : clock' = start + tick' * flags'.interval
  <2>1. PICK start \in 0 .. now : clock = start + tick * flags.interval
    BY <1>1 DEF RunInv
  <2>2. (tick + 1) * flags.interval = tick * flags.interval + flags.interval
    BY <1>1, <1>2
  <2>3. clock' = start + tick' * flags'.interval
    BY <1>1, <1>2, <2>1, <2>2 DEF Advanced
  <2> QED BY <1>1, <2>3
<1>9. RunInv'
  <2>1. Size' = Size
    BY DEF Size, LoadedFleet
  <2>2. \A i \in DOMAIN batch' : /\ i \in 1 .. Size' /\ batch'[i].transformerId = Fleet[i].id
                                /\ batch'[i].timestamp.instant = clock'
    BY <1>1, <1>6, <1>7, <2>1
  <2> HIDE DEF Size
  <2> QED BY <1>1, <1>2, <1>5, <1>8, <2>1, <2>2 DEF RunInv
<1>10. BatchInv'
  BY <1>6, <1>7 DEF BatchInv
<1> QED BY <1>9, <1>10, BatchKeeps DEF SampleInv

LEMMA OthersKeepSamples ==
    ASSUME SampleInv,
           \/ WallClock \/ Publish \/ PublishTwice \/ PublishFails \/ Finish \/ Handle
           \/ UNCHANGED vars
    PROVE  SampleInv'
<1>1. UNCHANGED <<flags, run, tick, clock, units, batch>> /\ (sim' = "running" => sim = "running")
  BY DEF WallClock, Publish, PublishTwice, PublishFails, Finish, Handle, vars, program
<1>2. now' = now \/ (now' = now + 1 /\ now < MaxNow)
  BY DEF WallClock, Publish, PublishTwice, PublishFails, Finish, Handle, vars
<1>3. now \in Nat /\ now <= MaxNow /\ MaxNow \in Nat
  BY BoundsTyped DEF SampleInv, RunInv
<1>4. now' \in Nat /\ now' <= MaxNow /\ now <= now'
  BY <1>2, <1>3
<1>5. sim' = "running" => \E start \in 0 .. now' : clock' = start + tick' * flags'.interval
  <2> SUFFICES ASSUME sim' = "running"
               PROVE  \E start \in 0 .. now' : clock' = start + tick' * flags'.interval
    OBVIOUS
  <2>1. PICK start \in 0 .. now : clock = start + tick * flags.interval
    BY <1>1 DEF SampleInv, RunInv
  <2>2. start \in 0 .. now'
    BY <1>3, <1>4
  <2> QED BY <1>1, <2>1, <2>2
<1>6. RunInv'
  BY <1>1, <1>4, <1>5 DEF SampleInv, RunInv, Size, LoadedFleet
<1>7. BatchInv'
  BY <1>1 DEF SampleInv, BatchInv
<1>8. PublishInv'
  BY PublishInvNext DEF SampleInv, Next
<1> QED BY <1>6, <1>7, <1>8 DEF SampleInv

LEMMA SampleInvNext == SampleInv /\ [Next]_vars => SampleInv'
BY StartKeepsSamples, BatchKeepsSamples, OthersKeepSamples DEF Next

(* The state a sample was given before its readings were rounded           *)
(* (Simulator.Next) is the one ingestion and the staging models recompute  *)
(* from them, unless a reading was rounded onto a threshold: for any       *)
(* fleet, curves, draws and settings.                                      *)
THEOREM SpecLabelAgreesUpToRounding == Spec => []LabelAgreesUpToRounding
<1>1. SampleInv => LabelAgreesUpToRounding
  BY DEF SampleInv, BatchInv, Measured, LabelAgreesUpToRounding
<1> QED BY <1>1, SampleInvInit, SampleInvNext, PTL DEF Spec
-----------------------------------------------------------------------------
(* What a step may do to the list of what the broker took.                 *)
Appended ==
    /\ Len(published) \in Nat /\ DOMAIN published = 1 .. Len(published)
    /\ Len(published') \in Nat /\ DOMAIN published' = 1 .. Len(published')
    /\ Len(published) <= Len(published')
    /\ \A i \in DOMAIN published : published'[i] = published[i]
    /\ \A i \in DOMAIN published' : i \notin DOMAIN published => published'[i] = Posted

LEMMA SequenceAndTwo ==
    ASSUME NEW S, NEW seq \in Seq(S), NEW e
    PROVE  LET two == seq \o <<e, e>> IN
           /\ Len(two) = Len(seq) + 2 /\ DOMAIN two = 1 .. Len(two)
           /\ \A i \in 1 .. Len(seq) : two[i] = seq[i]
           /\ \A i \in 1 .. Len(two) : i > Len(seq) => two[i] = e
<1> DEFINE T == S \cup {e}
           pair == <<e, e>>
           two == seq \o pair
<1>1. seq \in Seq(T) /\ pair \in Seq(T)
  OBVIOUS
<1>2. Len(pair) = 2 /\ pair[1] = e /\ pair[2] = e
  OBVIOUS
<1> HIDE DEF T, pair
<1>3. Len(two) = Len(seq) + 2 /\ two \in Seq(T)
  <2>1. two \in Seq(T) /\ Len(two) = Len(seq) + Len(pair)
    BY <1>1, ConcatProperties
  <2> HIDE DEF two
  <2> QED BY <1>2, <2>1
<1>4. \A i \in 1 .. Len(two) : two[i] = IF i <= Len(seq) THEN seq[i] ELSE pair[i - Len(seq)]
  BY <1>1, <1>2, <1>3, ConcatProperties
<1>5. Len(seq) \in Nat /\ DOMAIN two = 1 .. Len(two)
  BY <1>1, <1>3
<1> HIDE DEF two
<1>6. \A i \in 1 .. Len(seq) : two[i] = seq[i]
  BY <1>3, <1>4, <1>5
<1>7. \A i \in 1 .. Len(two) : i > Len(seq) => two[i] = e
  BY <1>2, <1>3, <1>4, <1>5
<1> QED BY <1>3, <1>5, <1>6, <1>7 DEF two, pair

LEMMA PublishingAppends ==
    ASSUME PublishInv, Publish \/ PublishTwice \/ PublishFails
    PROVE  Appended
<1> DEFINE e == Posted
<1>1. PICK S : published \in Seq(S)
  BY DEF PublishInv, LoopTyped
<1>2. \/ published' = published
      \/ published' = Append(published, e)
      \/ published' = published \o <<e, e>>
  BY DEF Publish, PublishTwice, PublishFails
<1> HIDE DEF e
<1>3. Len(published) \in Nat /\ DOMAIN published = 1 .. Len(published)
  BY <1>1
<1>4. CASE published' = published
  BY <1>3, <1>4 DEF Appended
<1>5. CASE published' = Append(published, e)
  <2>1. /\ Len(published') = Len(published) + 1 /\ DOMAIN published' = 1 .. Len(published')
        /\ \A i \in 1 .. Len(published) : published'[i] = published[i]
        /\ published'[Len(published) + 1] = e
    BY <1>1, <1>5
  <2> QED BY <1>3, <2>1 DEF Appended, e
<1>6. CASE published' = published \o <<e, e>>
  <2>1. /\ Len(published') = Len(published) + 2 /\ DOMAIN published' = 1 .. Len(published')
        /\ \A i \in 1 .. Len(published) : published'[i] = published[i]
        /\ \A i \in 1 .. Len(published') : i > Len(published) => published'[i] = e
    BY <1>1, <1>6, SequenceAndTwo
  <2> QED BY <1>3, <2>1 DEF Appended, e
<1> QED BY <1>2, <1>4, <1>5, <1>6

(* What is posted is the next sample of this tick.                         *)
LEMMA PostedIsNext ==
    ASSUME SampleInv, Publishing
    PROVE  /\ EntryOK(Posted) /\ Posted.run = run /\ run \in Nat /\ run > 0
           /\ Posted.msg.body.timestamp.instant = clock
           /\ clock <= now + Posted.ahead
           /\ pos + 1 \in DOMAIN batch /\ Posted.msg.body = batch[pos + 1]
<1>1. sim = "running" /\ pos \in Nat /\ pos < Len(batch) /\ Len(batch) \in Nat
  BY SizeIsPositive DEF Publishing, SampleInv, PublishInv, LoopTyped, BatchIsWhole
<1>2. pos + 1 \in DOMAIN batch
  BY <1>1 DEF SampleInv, BatchInv
<1>3. /\ Measured(batch[pos + 1]) /\ (FleetFits => Fitting(batch[pos + 1]))
      /\ batch[pos + 1].timestamp.instant = clock
  BY <1>1, <1>2 DEF SampleInv, BatchInv, RunInv
<1>4. /\ clock <= now + tick * flags.interval /\ tick * flags.interval \in Nat
      /\ run \in Nat /\ run > 0
  BY <1>1, ClockOfRun DEF SampleInv, RunInv
<1> DEFINE body == batch[pos + 1]
<1>5. /\ Posted.run = run /\ Posted.ahead = tick * flags.interval
      /\ Posted.msg.json /\ Posted.msg.topic = body.transformerId /\ Posted.msg.body = body
  BY DEF Posted
<1>6. EntryOK(Posted)
  BY <1>3, <1>4, <1>5 DEF EntryOK
<1> QED BY <1>2, <1>3, <1>4, <1>5, <1>6

LEMMA PostInvInit == Init => PostInv /\ StoredInv /\ FirstRunIsStored
<1> SUFFICES ASSUME Init PROVE PostInv /\ StoredInv /\ FirstRunIsStored
  OBVIOUS
<1>1. DOMAIN published = {} /\ handled = 0 /\ Len(published) = 0 /\ meas = {}
  BY DEF Init
<1> QED BY <1>1 DEF PostInv, EntriesFormed, EntriesTimed, EntriesOrdered, EntriesKeyed,
                    StoredInv, FirstRunIsStored

LEMMA PublishingKeepsPosts ==
    ASSUME SampleInv, PostInv, Publish \/ PublishTwice \/ PublishFails
    PROVE  PostInv'
<1>1. Publishing
  BY DEF Publish, PublishTwice, PublishFails
<1>2. /\ UNCHANGED <<now, flags, run, tick, clock, batch>>
      /\ (sim' = "running" => sim = "running")
  BY DEF Publish, PublishTwice, PublishFails
<1>3. Appended
  BY PublishingAppends DEF SampleInv
<1> DEFINE e == Posted
<1>4. /\ EntryOK(e) /\ e.run = run /\ run \in Nat /\ run > 0
      /\ e.msg.body.timestamp.instant = clock /\ clock <= now + e.ahead
      /\ pos + 1 \in DOMAIN batch /\ e.msg.body = batch[pos + 1]
  BY <1>1, PostedIsNext
<1>5. \A i \in DOMAIN published' :
        \/ i \in DOMAIN published /\ published'[i] = published[i]
        \/ i \notin DOMAIN published /\ published'[i] = e
  BY <1>3 DEF Appended
<1> HIDE DEF e
<1>6. clock \in Nat /\ sim = "running"
  BY <1>1, ClockOfRun DEF Publishing, SampleInv
<1>7. EntriesFormed'
  <2> SUFFICES ASSUME NEW i \in DOMAIN published' PROVE EntryOK(published'[i])
    BY DEF EntriesFormed, EntryOK, Measured, Fitting
  <2> QED BY <1>4, <1>5 DEF PostInv, EntriesFormed
<1>8. EntriesTimed'
  <2>1. ASSUME NEW i \in DOMAIN published' PROVE Timed(published'[i])
    <3>1. CASE i \in DOMAIN published /\ published'[i] = published[i]
      BY <3>1 DEF PostInv, EntriesTimed
    <3>2. CASE published'[i] = e
      <4>1. e.run \in 1 .. run
        BY <1>4
      <4> QED BY <1>4, <1>6, <3>2, <4>1 DEF Timed
    <3> QED BY <1>5, <2>1, <3>1, <3>2
  <2> QED BY <1>2, <2>1 DEF EntriesTimed, Timed
<1>9. EntriesOrdered'
  <2> SUFFICES ASSUME NEW i \in DOMAIN published', NEW j \in DOMAIN published', i < j
               PROVE  published'[i].run <= published'[j].run
    BY DEF EntriesOrdered
  <2>1. CASE i \in DOMAIN published /\ j \in DOMAIN published
    BY <1>5, <2>1 DEF PostInv, EntriesOrdered
  <2>2. CASE i \in DOMAIN published /\ j \notin DOMAIN published
    <3>1. published[i].run \in 1 .. run
      BY <2>2 DEF PostInv, EntriesTimed, Timed
    <3>2. published'[i] = published[i] /\ published'[j] = e
      BY <1>5, <2>2
    <3> QED BY <1>4, <3>1, <3>2
  <2>3. CASE i \notin DOMAIN published
    <3>1. j \notin DOMAIN published
      BY <1>3, <2>3 DEF Appended
    <3>2. published'[i] = e /\ published'[j] = e
      BY <1>5, <2>3, <3>1
    <3> QED BY <1>4, <3>2
  <2> QED BY <2>1, <2>2, <2>3
<1>10. EntriesKeyed'
  <2> SUFFICES ASSUME DistinctIds, NEW i \in DOMAIN published', NEW j \in DOMAIN published',
                      published'[i].run = published'[j].run,
                      NaturalKey(published'[i].msg.body) = NaturalKey(published'[j].msg.body)
               PROVE  published'[i].msg.body = published'[j].msg.body
    BY DEF EntriesKeyed, DistinctIds, NaturalKey
  <2>1. ASSUME NEW k \in DOMAIN published, published[k].run = e.run,
               NaturalKey(published[k].msg.body) = NaturalKey(e.msg.body)
        PROVE  published[k].msg.body = e.msg.body
    <3>1. Timed(published[k])
      BY DEF PostInv, EntriesTimed
    <3>2. /\ published[k].msg.body.timestamp.instant = clock
          /\ published[k].msg.body.transformerId = e.msg.body.transformerId
      BY <1>4, <2>1 DEF NaturalKey
    <3>3. PICK b \in DOMAIN batch : published[k].msg.body = batch[b]
      BY <1>4, <1>6, <2>1, <3>1, <3>2 DEF Timed
    <3>4. batch[b].transformerId = batch[pos + 1].transformerId
      BY <1>4, <3>2, <3>3
    <3>5. /\ b \in 1 .. Size /\ batch[b].transformerId = Fleet[b].id
          /\ pos + 1 \in 1 .. Size /\ batch[pos + 1].transformerId = Fleet[pos + 1].id
      BY <1>4, <1>6 DEF SampleInv, RunInv
    <3>6. b = pos + 1
      BY <3>4, <3>5, LoadedDesigns DEF DistinctIds
    <3> QED BY <1>4, <3>3, <3>6
  <2>2. CASE i \in DOMAIN published /\ j \in DOMAIN published
    BY <1>5, <2>2 DEF PostInv, EntriesKeyed
  <2>3. CASE i \in DOMAIN published /\ j \notin DOMAIN published
    BY <1>5, <2>1, <2>3
  <2>4. CASE i \notin DOMAIN published /\ j \in DOMAIN published
    BY <1>5, <2>1, <2>4
  <2>5. CASE i \notin DOMAIN published /\ j \notin DOMAIN published
    BY <1>5, <2>5
  <2> QED BY <2>2, <2>3, <2>4, <2>5
<1> QED BY <1>7, <1>8, <1>9, <1>10 DEF PostInv

LEMMA OthersKeepPosts ==
    ASSUME SampleInv, PostInv,
           WallClock \/ Start \/ NextBatch \/ Finish \/ Handle \/ UNCHANGED vars
    PROVE  PostInv'
<1>1. published' = published
  BY DEF WallClock, Start, NextBatch, Finish, Handle, vars
<1>2. EntriesFormed' /\ EntriesOrdered' /\ EntriesKeyed'
  <2>1. EntriesFormed'
    BY <1>1 DEF PostInv, EntriesFormed, EntryOK
  <2>2. EntriesOrdered'
    BY <1>1 DEF PostInv, EntriesOrdered
  <2>3. EntriesKeyed'
    BY <1>1 DEF PostInv, EntriesKeyed, DistinctIds, NaturalKey
  <2> QED BY <2>1, <2>2, <2>3
<1>3. now \in Nat /\ run \in Nat
  BY DEF SampleInv, RunInv
<1>4. ASSUME NEW i \in DOMAIN published
      PROVE  /\ published[i].run \in 1 .. run'
             /\ published[i].msg.body.timestamp.instant <= now' + published[i].ahead
             /\ sim' = "running" /\ published[i].run = run' =>
                  /\ published[i].msg.body.timestamp.instant <= clock'
                  /\ published[i].msg.body.timestamp.instant = clock' =>
                        \E k \in DOMAIN batch' : published[i].msg.body = batch'[k]
  <2> DEFINE p == published[i]
             at == p.msg.body.timestamp.instant
  <2>1. Timed(p) /\ p.ahead \in Nat /\ at \in Nat
    <3>1. Timed(p) /\ EntryOK(p)
      BY DEF PostInv, EntriesTimed, EntriesFormed
    <3>2. p.ahead \in Nat /\ p.msg.body \in Measurement(Ids)
      BY <3>1 DEF EntryOK, Measured
    <3> HIDE DEF p
    <3>3. p.msg.body.timestamp \in Timestamp
      BY <3>2 DEF Measurement
    <3> QED BY <3>1, <3>2, <3>3 DEF Timestamp
  <2> HIDE DEF p
  <2>2. p.run \in 1 .. run /\ at <= now + p.ahead
    BY <2>1 DEF Timed
  <2>3. CASE Start
    <3>1. run' = run + 1 /\ now' = now
      BY <2>3 DEF Start
    <3> QED BY <1>3, <2>2, <3>1 DEF p
  <2>4. CASE NextBatch
    <3>1. sim = "running" /\ run' = run /\ now' = now /\ clock' = clock + flags.interval
      BY <2>4 DEF NextBatch, Advanced
    <3>2. clock \in Nat /\ flags.interval \in Nat \ {0}
      BY <3>1, ClockOfRun DEF SampleInv
    <3>3. p.run = run => at <= clock
      BY <2>1, <3>1 DEF Timed
    <3>4. p.run = run => at < clock'
      BY <2>1, <3>1, <3>2, <3>3
    <3> HIDE DEF at
    <3>5. clock' \in Nat
      BY <3>1, <3>2
    <3> QED BY <2>1, <2>2, <3>1, <3>4, <3>5 DEF p, at
  <2>5. CASE WallClock \/ Finish \/ Handle \/ UNCHANGED vars
    <3>1. /\ UNCHANGED <<run, clock, batch>> /\ (sim' = "running" => sim = "running")
          /\ (now' = now \/ now' = now + 1)
      BY <2>5 DEF WallClock, Finish, Handle, vars, program
    <3>2. at <= now' + p.ahead
      <4> HIDE DEF at
      <4> QED BY <1>3, <2>1, <2>2, <3>1
    <3> QED BY <2>1, <2>2, <3>1, <3>2 DEF Timed, p
  <2> QED BY <2>3, <2>4, <2>5
<1>5. EntriesTimed'
  BY <1>1, <1>4 DEF EntriesTimed, Timed
<1> QED BY <1>2, <1>5 DEF PostInv

LEMMA PostInvNext == SampleInv /\ PostInv /\ [Next]_vars => PostInv'
BY PublishingKeepsPosts, OthersKeepPosts DEF Next

-----------------------------------------------------------------------------
(* Types.                                                                  *)
LEMMA UnitsAreSequence ==
    ASSUME NEW n \in Nat, NEW u \in [1 .. n -> [oil : Nat, winding : Nat]]
    PROVE  u \in Seq([oil : Int, winding : Int])
<1> DEFINE R == [oil : Int, winding : Int]
<1>1. \A i \in 1 .. n : u[i] \in R
  OBVIOUS
<1> HIDE DEF R
<1>2. u \in Seq(R)
  BY <1>1
<1> QED BY <1>2 DEF R

LEMMA UnitsAndBatchTyped ==
    ASSUME SampleInv, SimTypeOK, SampleInv', [Next]_vars
    PROVE  /\ clock' \in Nat
           /\ units' \in Seq([oil : Int, winding : Int])
           /\ batch' \in Seq(Measurement(Ids))
<1>1. CASE Start
  <2>1. clock' = now /\ now \in Nat /\ sim' = "running" /\ batch' = <<>>
    BY <1>1 DEF Start, SampleInv, RunInv
  <2>2. units' \in [1 .. Size' -> [oil : Nat, winding : Nat]]
    BY <2>1 DEF SampleInv, RunInv
  <2>3. units' \in Seq([oil : Int, winding : Int])
    <3>1. Size' = Size /\ Size \in Nat
      BY SizeIsPositive DEF Size, LoadedFleet
    <3> HIDE DEF Size
    <3> QED BY <2>2, <3>1, UnitsAreSequence
  <2> QED BY <2>1, <2>3
<1>2. CASE NextBatch
  <2>1. sim = "running" /\ sim' = sim /\ clock' = clock + flags.interval
    BY <1>2 DEF NextBatch, Advanced
  <2>2. clock' \in Nat
    BY <2>1, ClockOfRun DEF SampleInv
  <2>3. units' \in [1 .. Size' -> [oil : Nat, winding : Nat]]
    BY <2>1 DEF SampleInv, RunInv
  <2>4. units' \in Seq([oil : Int, winding : Int])
    <3>1. Size' = Size /\ Size \in Nat
      BY SizeIsPositive DEF Size, LoadedFleet
    <3> HIDE DEF Size
    <3> QED BY <2>3, <3>1, UnitsAreSequence
  <2>5. PICK f : batch' = [i \in 1 .. Size |-> f[i]]
    <3>1. PICK loads \in [1 .. Size -> Loads], jitter \in Jitters :
            batch' = [i \in 1 .. Size |->
                        Sample(LoadedFleet[i], units[i], units'[i], loads[i],
                               AmbientAt(Advanced), jitter, Advanced)]
      BY <1>2 DEF NextBatch
    <3>2. batch' = [i \in 1 .. Size |-> batch'[i]]
      BY <3>1
    <3> QED BY <3>2
  <2>6. \A i \in 1 .. Size : batch'[i] \in Measurement(Ids)
    <3>1. DOMAIN batch' = 1 .. Size
      BY <2>5
    <3> QED BY <3>1 DEF SampleInv, BatchInv, Measured
  <2>7. batch' \in Seq(Measurement(Ids))
    <3> DEFINE M == Measurement(Ids)
    <3>1. Size \in Nat /\ batch' \in [1 .. Size -> M]
      BY <2>5, <2>6, SizeIsPositive
    <3> HIDE DEF M, Size
    <3>2. batch' \in Seq(M)
      BY <3>1
    <3> QED BY <3>2 DEF M
  <2> QED BY <2>2, <2>4, <2>7
<1>3. CASE UNCHANGED <<clock, units, batch>>
  BY <1>3 DEF SimTypeOK
<1> QED BY <1>1, <1>2, <1>3
        DEF Next, WallClock, Publish, PublishTwice, PublishFails, Finish, Handle, vars, program

LEMMA RowsTyped ==
    ASSUME SampleInv, PostInv, SimTypeOK, [Next]_vars
    PROVE  handled' \in 0 .. Len(published') /\ meas' \subseteq MeasRow(Ids)
<1>1. PICK S : published \in Seq(S)
  BY DEF SampleInv, PublishInv, LoopTyped
<1>2. handled \in 0 .. Len(published) /\ meas \subseteq MeasRow(Ids)
  BY DEF SimTypeOK
<1>3. CASE Handle
  <2> DEFINE n == handled + 1
             row == MeasurementRow(Normalize(published[n].msg.body))
  <2>1. /\ n \in DOMAIN published /\ n \in 0 .. Len(published)
        /\ handled' = n /\ published' = published
    BY <1>1, <1>2, <1>3 DEF Handle
  <2>2. meas' = meas \/ meas' = InsertMeasurement(meas, row)
    BY <1>3, <2>1 DEF Handle
  <2>3. published[n].msg.body \in Measurement(Ids)
    BY <2>1 DEF PostInv, EntriesFormed, EntryOK, Measured
  <2>4. row \in MeasRow(Ids)
    BY <2>3, MeasurementRowTyped
  <2> HIDE DEF row
  <2> QED BY <1>2, <2>1, <2>2, <2>4 DEF InsertMeasurement
<1>4. CASE Publish \/ PublishTwice \/ PublishFails
  <2>1. UNCHANGED <<handled, meas>>
    BY <1>4 DEF Publish, PublishTwice, PublishFails
  <2>2. Appended
    BY <1>4, PublishingAppends DEF SampleInv
  <2> QED BY <1>2, <2>1, <2>2 DEF Appended
<1>5. CASE UNCHANGED <<published, handled, meas>>
  BY <1>2, <1>5
<1> QED BY <1>3, <1>4, <1>5 DEF Next, WallClock, Start, NextBatch, Finish, vars

LEMMA TypeNext ==
    SampleInv /\ PostInv /\ SimTypeOK /\ [Next]_vars => SimTypeOK'
<1> SUFFICES ASSUME SampleInv, PostInv, SimTypeOK, [Next]_vars PROVE SimTypeOK'
  OBVIOUS
<1>1. SampleInv'
  BY SampleInvNext
<1>2. /\ now' \in Nat /\ now' <= MaxNow /\ run' \in Nat /\ flags' \in Settings
      /\ tick' \in Nat /\ tick' <= flags'.ticks /\ pos' \in Nat /\ pos' <= Len(batch')
  BY <1>1 DEF SampleInv, RunInv, PublishInv, LoopTyped, BatchIsWhole
<1>3. flags'.ticks \in Nat /\ {MaxNow, MaxRuns, MaxRepeats} \subseteq Nat
  BY <1>2, SettingsTyped, BoundsTyped
<1>4. sim' \in {"down", "running", "done", "failed"}
  BY DEF SimTypeOK, Next, WallClock, Start, NextBatch, Publish, PublishTwice, PublishFails,
         Finish, Handle, vars, program
<1>5. run' \in 0 .. MaxRuns /\ repeats' \in 0 .. MaxRepeats
  <2>1. /\ run' = run \/ (run' = run + 1 /\ run < MaxRuns)
        /\ repeats' = repeats \/ (repeats' = repeats + 1 /\ repeats < MaxRepeats)
    BY DEF Next, WallClock, Start, NextBatch, Publish, PublishTwice, PublishFails,
           Finish, Handle, vars, program
  <2>2. run \in 0 .. MaxRuns /\ repeats \in 0 .. MaxRepeats
    BY DEF SimTypeOK
  <2> QED BY <2>1, <2>2, BoundsTyped
<1>6. Len(batch') \in Nat
  <2>1. batch' \in Seq(Measurement(Ids))
    BY <1>1, UnitsAndBatchTyped
  <2> QED BY <2>1
<1>7. now' \in 0 .. MaxNow /\ tick' \in 0 .. flags'.ticks /\ pos' \in 0 .. Len(batch')
  BY <1>2, <1>3, <1>6
<1> QED BY <1>1, <1>2, <1>4, <1>5, <1>7, UnitsAndBatchTyped, RowsTyped DEF SimTypeOK

(* The clock, the temperatures, the samples and the rows keep their types, *)
(* and the loop never gets past the end of its batch.                      *)
THEOREM SpecSimTypeOK == Spec => []SimTypeOK
<1>1. Init => SimTypeOK
  <2> SUFFICES ASSUME Init PROVE SimTypeOK
    OBVIOUS
  <2>1. /\ units \in Seq([oil : Int, winding : Int]) /\ batch \in Seq(Measurement(Ids))
        /\ Len(batch) = 0 /\ Len(published) = 0
    BY DEF Init
  <2>2. flags.ticks \in Nat /\ {MaxNow, MaxRuns, MaxRepeats} \subseteq Nat
    BY SettingsTyped, BoundsTyped DEF Init
  <2> QED BY <2>1, <2>2 DEF Init, SimTypeOK
<1>2. Init => SampleInv /\ PostInv
  BY SampleInvInit, PostInvInit
<1>3. SampleInv /\ PostInv /\ SimTypeOK /\ [Next]_vars
        => SampleInv' /\ PostInv' /\ SimTypeOK'
  BY SampleInvNext, PostInvNext, TypeNext
<1> QED BY <1>1, <1>2, <1>3, PTL DEF Spec

-----------------------------------------------------------------------------
(* At the other end: a handled sample whose key is taken finds its own row.*)
StoreInv == SampleInv /\ PostInv /\ StoredInv /\ FirstRunIsStored

LEMMA HandleKeepsRows ==
    ASSUME StoreInv, Handle
    PROVE  StoredInv' /\ (DistinctIds /\ FleetFits => FirstRunIsStored')
<1> DEFINE n == handled + 1
           msg == published[n].msg
           row == MeasurementRow(Normalize(msg.body))
           stored == Admissible(msg, Ids, now + MaxSkew) /\ FitsColumns(row)
<1>1. /\ handled \in Nat /\ Len(published) \in Nat /\ DOMAIN published = 1 .. Len(published)
      /\ n \in 1 .. Len(published) /\ handled' = n /\ UNCHANGED <<published, now>>
  <2>1. PICK S : published \in Seq(S)
    BY DEF StoreInv, SampleInv, PublishInv, LoopTyped
  <2> QED BY <2>1 DEF StoreInv, StoredInv, Handle
<1>2. meas' = IF stored THEN InsertMeasurement(meas, row) ELSE meas
  BY <1>1 DEF Handle
<1> HIDE DEF stored
<1>3. meas \subseteq meas' /\ meas' \subseteq meas \cup {row}
  BY <1>2 DEF InsertMeasurement
<1>4. \A r \in meas : \E j \in 1 .. handled : r = MeasurementRow(Normalize(published[j].msg.body))
  BY DEF StoreInv, StoredInv
<1>5. StoredInv'
  <2>1. handled' \in 0 .. Len(published')
    BY <1>1
  <2>2. ASSUME NEW r \in meas'
        PROVE  \E j \in 1 .. n : r = MeasurementRow(Normalize(published[j].msg.body))
    <3>1. CASE r \in meas
      <4>1. PICK j \in 1 .. handled : r = MeasurementRow(Normalize(published[j].msg.body))
        BY <1>4, <3>1
      <4>2. j \in 1 .. n
        BY <1>1
      <4> QED BY <4>1, <4>2
    <3>2. CASE r = row
      <4>1. n \in 1 .. n
        BY <1>1
      <4> QED BY <3>2, <4>1
    <3> QED BY <1>3, <3>1, <3>2
  <2> QED BY <1>1, <2>1, <2>2 DEF StoredInv
<1>6. ASSUME DistinctIds, FleetFits PROVE FirstRunIsStored'
  <2> SUFFICES ASSUME NEW i \in 1 .. n, published[i].run = 1, published[i].ahead <= MaxSkew,
                      Plausible(published[i].msg.body)
               PROVE  MeasurementRow(Normalize(published[i].msg.body)) \in meas'
    BY <1>1 DEF FirstRunIsStored
  <2>1. CASE i \in 1 .. handled
    <3>1. MeasurementRow(Normalize(published[i].msg.body)) \in meas
      BY <2>1 DEF StoreInv, FirstRunIsStored
    <3> QED BY <1>3, <3>1
  <2>2. CASE i = n
    <3> DEFINE p == published[n]
    <3>1. /\ n \in DOMAIN published /\ p.run = 1 /\ p.ahead <= MaxSkew /\ Plausible(p.msg.body)
      BY <1>1, <2>2
    <3>2. EntryOK(p) /\ Timed(p)
      BY <3>1 DEF StoreInv, PostInv, EntriesFormed, EntriesTimed
    <3>3. /\ msg.json /\ msg.topic = msg.body.transformerId /\ Measured(msg.body)
          /\ Fitting(msg.body)
      BY <1>6, <3>2 DEF EntryOK
    <3>4. now + MaxSkew \in Nat /\ msg.body.timestamp.instant <= now + MaxSkew
      <4>1. now \in Nat /\ MaxSkew \in Nat /\ p.ahead \in Nat /\ msg.body \in Measurement(Ids)
        BY <3>2, <3>3, BoundsTyped DEF StoreInv, SampleInv, RunInv, EntryOK, Measured
      <4>2. msg.body.timestamp.instant \in Nat
        <5> DEFINE body == msg.body
        <5>1. body \in Measurement(Ids)
          BY <4>1
        <5> HIDE DEF body
        <5>2. body.timestamp.instant \in Nat
          BY <5>1 DEF Measurement, Timestamp
        <5> QED BY <5>2 DEF body
      <4>3. msg.body.timestamp.instant <= now + p.ahead
        BY <3>2 DEF Timed
      <4> DEFINE at == msg.body.timestamp.instant
                 ahead == p.ahead
      <4>4. at \in Nat /\ ahead \in Nat /\ ahead <= MaxSkew /\ at <= now + ahead
        BY <3>1, <4>1, <4>2, <4>3
      <4> HIDE DEF at, ahead
      <4>5. at <= now + MaxSkew
        BY <4>1, <4>4
      <4> QED BY <4>1, <4>5 DEF at
    <3>5. stored
      <4> HIDE DEF msg
      <4>1. /\ Admissible(msg, Ids, now + MaxSkew)
            /\ FitsColumns(MeasurementRow(Normalize(msg.body)))
        <5> DEFINE horizon == now + MaxSkew
        <5>1. horizon \in Nat /\ msg.body.timestamp.instant <= horizon /\ Plausible(msg.body)
          BY <3>1, <3>4 DEF msg
        <5> HIDE DEF horizon
        <5>2. /\ Admissible(msg, Ids, horizon)
              /\ FitsColumns(MeasurementRow(Normalize(msg.body)))
          BY <3>3, <5>1, SampleIsStorable
        <5> QED BY <5>2 DEF horizon
      <4> QED BY <4>1 DEF stored
    <3>6. CASE ~ HasMeasurement(meas, RowKey(row))
      BY <1>2, <2>2, <3>5, <3>6 DEF InsertMeasurement
    <3>7. CASE HasMeasurement(meas, RowKey(row))
      <4>1. PICK r \in meas : RowKey(r) = RowKey(row)
        BY <3>7 DEF HasMeasurement
      <4>2. PICK j \in 1 .. handled : r = MeasurementRow(Normalize(published[j].msg.body))
        BY <1>4
      <4>3. j \in DOMAIN published /\ j < n
        BY <1>1
      <4>4. EntryOK(published[j]) /\ Timed(published[j])
        BY <4>3 DEF StoreInv, PostInv, EntriesFormed, EntriesTimed
      <4>5. published[j].run = p.run
        <5>1. published[j].run <= p.run
          BY <3>1, <4>3 DEF StoreInv, PostInv, EntriesOrdered
        <5>2. published[j].run \in 1 .. run
          BY <4>4 DEF Timed
        <5> HIDE DEF p
        <5> QED BY <3>1, <5>1, <5>2
      <4>6. NaturalKey(published[j].msg.body) = NaturalKey(p.msg.body)
        <5>1. published[j].msg.body \in Measurement(Ids) /\ p.msg.body \in Measurement(Ids)
          BY <3>3, <4>4 DEF EntryOK, Measured
        <5>2. RowKey(r) = NaturalKey(published[j].msg.body)
          BY <4>2, <5>1, MeasurementRowTyped
        <5>3. RowKey(row) = NaturalKey(p.msg.body)
          BY <5>1, MeasurementRowTyped
        <5> QED BY <4>1, <5>2, <5>3
      <4>7. published[j].msg.body = p.msg.body
        BY <1>6, <3>1, <4>3, <4>5, <4>6 DEF StoreInv, PostInv, EntriesKeyed
      <4> QED BY <1>3, <2>2, <4>2, <4>7
    <3> QED BY <3>6, <3>7
  <2> QED BY <1>1, <2>1, <2>2
<1> QED BY <1>5, <1>6

LEMMA OthersKeepRows ==
    ASSUME StoreInv,
           \/ WallClock \/ Start \/ NextBatch \/ Publish \/ PublishTwice \/ PublishFails
           \/ Finish \/ UNCHANGED vars
    PROVE  StoredInv' /\ FirstRunIsStored'
<1>1. UNCHANGED <<handled, meas>>
  BY DEF WallClock, Start, NextBatch, Publish, PublishTwice, PublishFails, Finish, vars
<1>2. /\ Len(published) \in Nat /\ Len(published') \in Nat /\ Len(published) <= Len(published')
      /\ DOMAIN published = 1 .. Len(published)
      /\ \A i \in DOMAIN published : published'[i] = published[i]
  <2>1. CASE Publish \/ PublishTwice \/ PublishFails
    BY <2>1, PublishingAppends DEF StoreInv, SampleInv, Appended
  <2>2. CASE published' = published
    <3>1. PICK S : published \in Seq(S)
      BY DEF StoreInv, SampleInv, PublishInv, LoopTyped
    <3> QED BY <2>2, <3>1
  <2> QED BY <2>1, <2>2 DEF WallClock, Start, NextBatch, Finish, vars
<1>3. handled \in 0 .. Len(published)
  BY DEF StoreInv, StoredInv
<1>4. handled' \in 0 .. Len(published') /\ \A i \in 1 .. handled : published'[i] = published[i]
  BY <1>1, <1>2, <1>3
<1>5. StoredInv'
  BY <1>1, <1>4 DEF StoreInv, StoredInv
<1>6. FirstRunIsStored'
  BY <1>1, <1>4 DEF StoreInv, FirstRunIsStored
<1> QED BY <1>5, <1>6

LEMMA StoreInvNext ==
    ASSUME DistinctIds, FleetFits
    PROVE  StoreInv /\ [Next]_vars => StoreInv'
<1>1. StoreInv /\ [Next]_vars => SampleInv' /\ PostInv'
  BY SampleInvNext, PostInvNext DEF StoreInv
<1>2. StoreInv /\ [Next]_vars => StoredInv' /\ FirstRunIsStored'
  BY HandleKeepsRows, OthersKeepRows DEF Next
<1> QED BY <1>1, <1>2 DEF StoreInv

(* A fleet of distinct units, whose currents and voltages the columns      *)
(* hold: however fast the run goes and whatever is sent twice or fails, a  *)
(* plausible sample of the first run within the skew has its own row once  *)
(* it is handled.  It is never refused for its time, nor does it meet      *)
(* another sample's row under its key.                                     *)
THEOREM SpecFirstRunIsStored ==
    ASSUME DistinctIds, FleetFits
    PROVE  Spec => []FirstRunIsStored
<1>1. Init => StoreInv
  BY SampleInvInit, PostInvInit DEF StoreInv
<1>2. StoreInv /\ [Next]_vars => StoreInv'
  BY StoreInvNext
<1>3. StoreInv => FirstRunIsStored
  BY DEF StoreInv
<1> QED BY <1>1, <1>2, <1>3, PTL DEF Spec
-----------------------------------------------------------------------------
(* Two steps of the lag towards one target: they keep their order, and     *)
(* the one that starts further below gains on the other.                   *)
LEMMA ThermalStepsKeepOrder ==
    ASSUME NEW x \in Int, NEW y \in Int, x <= y, NEW target \in Int,
           NEW share \in Nat, share <= Whole
    PROVE  /\ ThermalStep(x, target, share) \in Int
           /\ ThermalStep(y, target, share) \in Int
           /\ ThermalStep(x, target, share) <= ThermalStep(y, target, share)
           /\ ThermalStep(y, target, share) - y <= ThermalStep(x, target, share) - x
<1> DEFINE p == (target - x) * share
           q == (target - y) * share
<1> USE DEF Whole
<1>1. p \in Int /\ q \in Int
  OBVIOUS
<1>2. q <= p /\ p <= q + Whole * (y - x)
  <2>1. p = q + (y - x) * share
    OBVIOUS
  <2>2. 0 <= (y - x) * share /\ (y - x) * share <= Whole * (y - x)
    OBVIOUS
  <2> HIDE DEF p, q
  <2> QED BY <1>1, <2>1, <2>2
<1>3. /\ ThermalStep(x, target, share) = x + p \div Whole
      /\ ThermalStep(y, target, share) = y + q \div Whole
  BY DEF ThermalStep
<1> HIDE DEF p, q
<1>4. p \div Whole \in Int /\ q \div Whole \in Int
  BY <1>1
<1>5. q \div Whole <= p \div Whole
  BY <1>1, <1>2
<1>6. p \div Whole <= q \div Whole + (y - x)
  BY <1>1, <1>2
<1> QED BY <1>3, <1>4, <1>5, <1>6

(* What a step does to a difference does not depend on the zero.           *)
LEMMA ThermalStepShifts ==
    ASSUME NEW x \in Int, NEW target \in Int, NEW zero \in Int, NEW share \in Nat
    PROVE  ThermalStep(x, zero + target, share) - zero = ThermalStep(x - zero, target, share)
<1>1. (zero + target) - x = target - (x - zero)
  OBVIOUS
<1> DEFINE part == ((target - (x - zero)) * share) \div Whole
<1> USE DEF Whole
<1>2. part \in Int
  OBVIOUS
<1>3. /\ ThermalStep(x, zero + target, share) = x + part
      /\ ThermalStep(x - zero, target, share) = (x - zero) + part
  BY <1>1 DEF ThermalStep
<1> HIDE DEF part
<1> QED BY <1>2, <1>3

LEMMA ThermalStepTyped ==
    ASSUME NEW x \in Int, NEW target \in Int, NEW share \in Nat
    PROVE  ThermalStep(x, target, share) \in Int
<1> DEFINE p == (target - x) * share
<1>1. p \in Int
  OBVIOUS
<1>2. ThermalStep(x, target, share) = x + p \div Whole
  BY DEF ThermalStep
<1> HIDE DEF p
<1> QED BY <1>1, <1>2 DEF Whole

WindingAfter(winding, oil, gradient, share) == ThermalStep(winding, oil + gradient, share)

(* The winding's lead over the oil after its step: it keeps the order of   *)
(* two units.                                                              *)
LEMMA LeadsKeepOrder ==
    ASSUME NEW uw \in Int, NEW uo \in Int, NEW vw \in Int, NEW vo \in Int,
           uw - uo <= vw - vo, NEW gradient \in Int, NEW share \in Nat, share <= Whole
    PROVE  /\ WindingAfter(uw, uo, gradient, share) \in Int
           /\ WindingAfter(vw, vo, gradient, share) \in Int
           /\ WindingAfter(uw, uo, gradient, share) - uo
                 <= WindingAfter(vw, vo, gradient, share) - vo
<1> DEFINE a == uw - uo
           b == vw - vo
<1>1. a \in Int /\ b \in Int /\ a <= b
  OBVIOUS
<1>2. \A x \in Int, zero \in Int :
        WindingAfter(x, zero, gradient, share) - zero = ThermalStep(x - zero, gradient, share)
  BY ThermalStepShifts DEF WindingAfter
<1>3. \A x \in Int, zero \in Int : WindingAfter(x, zero, gradient, share) \in Int
  BY ThermalStepTyped DEF WindingAfter
<1>4. /\ WindingAfter(uw, uo, gradient, share) - uo = ThermalStep(a, gradient, share)
      /\ WindingAfter(vw, vo, gradient, share) - vo = ThermalStep(b, gradient, share)
  BY <1>2
<1> HIDE DEF a, b
<1>5. ThermalStep(a, gradient, share) <= ThermalStep(b, gradient, share)
  BY <1>1, ThermalStepsKeepOrder
<1> QED BY <1>3, <1>4, <1>5

Thermal == [oil : Int, winding : Int]

(* A tick keeps the order of two units of one design.                      *)
LEMMA HeatedKeepsOrder ==
    ASSUME NEW s \in Settings, NEW i \in DOMAIN Fleet, NEW u \in Thermal, NEW v \in Thermal,
           Below(u, v), NEW load \in Int, NEW ambient \in Nat,
           OilFactor(Fleet[i].lossRatio, load) \in Nat, WindingFactor(load) \in Nat
    PROVE  /\ Heated(s, u, Fleet[i], load, ambient) \in Thermal
           /\ Heated(s, v, Fleet[i], load, ambient) \in Thermal
           /\ Below(Heated(s, u, Fleet[i], load, ambient), Heated(s, v, Fleet[i], load, ambient))
<1> DEFINE design == Fleet[i]
           above == ((OilRise[design.cooling] + design.riseJitter)
                        * OilFactor(design.lossRatio, load)) \div 1000
           gradient == ((WindingGrad[design.cooling] + design.gradJitter)
                           * WindingFactor(load)) \div 1000
           target == ambient + above
           os == s.oilShare
           ws == s.windingShare
           uo == u.oil
           uw == u.winding
           vo == v.oil
           vw == v.winding
           uo1 == ThermalStep(uo, target, os)
           vo1 == ThermalStep(vo, target, os)
           uw1 == WindingAfter(uw, uo1, gradient, ws)
           vw1 == WindingAfter(vw, vo1, gradient, ws)
<1>1. os \in Nat /\ os <= Whole /\ ws \in Nat /\ ws <= Whole
  BY SettingsTyped
<1>2. /\ OilRise[design.cooling] + design.riseJitter \in Nat
      /\ WindingGrad[design.cooling] + design.gradJitter \in Nat
  BY Designs
<1>3. target \in Int /\ gradient \in Int
  <2> DEFINE rise == OilRise[design.cooling] + design.riseJitter
             grad == WindingGrad[design.cooling] + design.gradJitter
             f == OilFactor(design.lossRatio, load)
             g == WindingFactor(load)
  <2>1. rise \in Nat /\ grad \in Nat /\ f \in Nat /\ g \in Nat
    BY <1>2
  <2> HIDE DEF rise, grad, f, g
  <2>2. rise * f \in Int /\ grad * g \in Int
    BY <2>1
  <2>3. (rise * f) \div 1000 \in Int /\ (grad * g) \div 1000 \in Int
    BY <2>2
  <2> QED BY <2>3 DEF rise, grad, f, g
<1>4. uo \in Int /\ uw \in Int /\ vo \in Int /\ vw \in Int /\ uo <= vo /\ uw - uo <= vw - vo
  BY DEF Thermal, Below
<1>5. /\ Heated(s, u, design, load, ambient) = [oil |-> uo1, winding |-> uw1]
      /\ Heated(s, v, design, load, ambient) = [oil |-> vo1, winding |-> vw1]
  BY DEF Heated, WindingAfter
<1> HIDE DEF above, gradient, target, os, ws, uo, uw, vo, vw
<1>6. uo1 \in Int /\ vo1 \in Int
  BY <1>1, <1>3, <1>4, ThermalStepsKeepOrder
<1>7. uo1 <= vo1 /\ vo1 - vo <= uo1 - uo
  BY <1>1, <1>3, <1>4, ThermalStepsKeepOrder
<1> HIDE DEF uo1, vo1
<1>8. uw - uo1 <= vw - vo1
  BY <1>4, <1>6, <1>7
<1>9. uw1 \in Int /\ vw1 \in Int /\ uw1 - uo1 <= vw1 - vo1
  BY <1>1, <1>3, <1>4, <1>6, <1>8, LeadsKeepOrder
<1> HIDE DEF uw1, vw1, design
<1>10. /\ [oil |-> uo1, winding |-> uw1] \in Thermal /\ [oil |-> vo1, winding |-> vw1] \in Thermal
      /\ Below([oil |-> uo1, winding |-> uw1], [oil |-> vo1, winding |-> vw1])
  BY <1>6, <1>7, <1>9 DEF Below, Thermal
<1> QED BY <1>5, <1>10 DEF design

LEMMA BelowIsTransitive ==
    ASSUME NEW u \in Thermal, NEW v \in Thermal, NEW w \in Thermal, Below(u, v), Below(v, w)
    PROVE  Below(u, w)
BY DEF Thermal, Below

(* As near to its oil as the rules ask of a winding at this load.          *)
NearItsOil(unit, load) ==
    /\ unit.winding <= unit.oil + 50000
    /\ Round1(load) < 40000 \/ unit.winding >= unit.oil - 500

LEMMA EnvelopeHolds ==
    ASSUME NEW s, NEW low, NEW high, Envelope(s, low, high), NEW t \in Instants(s)
    PROVE  /\ high.winding <= high.oil + 50000 /\ AmbientAt(t) <= 55000
           /\ \A i \in DOMAIN Fleet : \A raw \in RawLoads(s.intensity) :
                Holds(s, low, high, Fleet[i], Clamp(raw, 5000, 160000), AmbientAt(t))
BY DEF Envelope

(* A unit between the two states of an envelope stays between them, and is *)
(* as near to its oil as they are.                                         *)
LEMMA EnvelopeIsKept ==
    ASSUME flags \in Settings, NEW low \in Thermal, NEW high \in Thermal,
           Envelope(flags, low, high), NEW i \in 1 .. Size, NEW unit \in Thermal,
           Below(low, unit), Below(unit, high), NEW load \in Loads,
           NEW t \in Instants(flags), AmbientAt(t) \in Nat,
           NEW after, after = Heated(flags, unit, LoadedFleet[i], load, AmbientAt(t))
    PROVE  /\ AmbientAt(t) <= 55000
           /\ Below(low, after) /\ Below(after, high)
           /\ NearItsOil(after, load)
<1> DEFINE ambient == AmbientAt(t)
           design == Fleet[i]
           lower == Heated(flags, low, design, load, ambient)
           upper == Heated(flags, high, design, load, ambient)
<1>1. i \in DOMAIN Fleet /\ after = Heated(flags, unit, design, load, ambient)
  BY LoadedDesigns
<1>2. /\ load \in Int /\ WindingFactor(load) \in Nat /\ OilFactor(design.lossRatio, load) \in Nat
  BY <1>1, LoadsClamped
<1>3. PICK raw \in RawLoads(flags.intensity) : load = Clamp(raw, 5000, 160000)
  BY DEF Loads
<1>4. /\ high.winding <= high.oil + 50000 /\ ambient <= 55000
      /\ Below(low, lower) /\ Below(upper, high)
      /\ Round1(load) < 40000 \/ lower.winding >= lower.oil - 500
  <2>1. /\ high.winding <= high.oil + 50000 /\ ambient <= 55000
        /\ \A j \in DOMAIN Fleet : \A r \in RawLoads(flags.intensity) :
             Holds(flags, low, high, Fleet[j], Clamp(r, 5000, 160000), ambient)
    BY EnvelopeHolds
  <2> HIDE DEF ambient
  <2>2. Holds(flags, low, high, design, load, ambient)
    BY <1>1, <1>3, <2>1
  <2> QED BY <2>1, <2>2 DEF Holds
<1>5. lower \in Thermal /\ after \in Thermal /\ Below(lower, after)
  BY <1>1, <1>2, HeatedKeepsOrder
<1>6. upper \in Thermal /\ Below(after, upper)
  BY <1>1, <1>2, HeatedKeepsOrder
<1> HIDE DEF ambient, design, lower, upper
<1>7. Below(low, after) /\ Below(after, high)
  BY <1>4, <1>5, <1>6, BelowIsTransitive
<1>8. after.winding <= after.oil + 50000
  BY <1>4, <1>5, <1>7 DEF Below, Thermal
<1>9. Round1(load) < 40000 \/ after.winding >= after.oil - 500
  BY <1>4, <1>5 DEF Below, Thermal
<1> QED BY <1>4, <1>7, <1>8, <1>9 DEF ambient, NearItsOil

(* Rounding to tenths keeps a distance of whole tenths.                    *)
LEMMA RoundingKeepsDistance ==
    ASSUME NEW x \in Int, NEW y \in Int
    PROVE  /\ x <= y + 50000 => Round1(x) <= Round1(y) + 50000
           /\ x <= y + 500 => Round1(x) <= Round1(y) + 500
<1>1. PICK k \in Int : Round1(y) = 100 * k /\ y < 100 * k + 50
  BY Rounding
<1>2. PICK j \in Int : Round1(x) = 100 * j /\ 100 * j <= x + 50
  BY Rounding
<1> QED BY <1>1, <1>2

ByTheRules(m) ==
    Plausible(m) \/ m.oilTempC > 150000
      \/ (m.windingTempC < m.oilTempC - 500 /\ m.loadPercent < 40000)

Warm == [oil : Nat, winding : Nat]
Temperate(ambient) == ambient <= 55000

(* A sample of a unit near enough to its oil breaks no other rule.         *)
LEMMA SampleIsRefusedByRule ==
    ASSUME flags \in Settings, NEW i \in 1 .. Size, NEW before, NEW load \in Loads,
           NEW after \in Warm,
           NEW ambient \in Nat, Temperate(ambient), NEW jitter \in Jitters, NEW at \in Nat,
           NearItsOil(after, load)
    PROVE  ByTheRules(Sample(LoadedFleet[i], before, after, load, ambient, jitter, at))
<1> DEFINE m == Sample(LoadedFleet[i], before, after, load, ambient, jitter, at)
           design == LoadedFleet[i]
           raw == 96000 + ((after.oil - ambient) * 3) \div 100 + jitter
           level == Clamp(raw, 85000, 99800)
           current == (design.powerMVA * load) \div (173 * design.hvKV)
           droop == (design.hvKV * load) \div 50000
           voltage == design.hvKV * 100 - droop
           oil == after.oil
           winding == after.winding
<1>1. /\ m.loadPercent = Round1(load) /\ m.ambientTempC = Round1(ambient)
      /\ m.oilTempC = Round1(oil) /\ m.windingTempC = Round1(winding)
      /\ m.oilLevelPercent = Round1(level) /\ m.currentA = current
      /\ m.voltageKV = Round1(voltage) /\ m.state = ClassifyState(winding, oil, load)
  BY DEF Sample, Label
<1>2. design.powerMVA \in Nat /\ design.hvKV \in Nat \ {0}
  BY LoadedDesigns, Designs
<1>3. load \in Int /\ 5000 <= load /\ load <= 160000
  BY LoadsClamped
<1>4. /\ oil \in Nat /\ winding \in Nat /\ winding <= oil + 50000
      /\ Round1(load) < 40000 \/ winding >= oil - 500
  BY DEF NearItsOil, Warm
<1>5. level \in Int /\ 85000 <= level /\ level <= 99800
  <2>1. jitter \in Int
    BY PhysicsAssumption
  <2>2. raw \in Int
    BY <1>4, <2>1
  <2> HIDE DEF raw
  <2> QED BY <2>2 DEF Clamp
<1>6. current \in Nat
  <2>1. design.powerMVA * load \in Nat /\ 173 * design.hvKV \in Nat \ {0}
    BY <1>2, <1>3
  <2> QED BY <2>1, DivGrows
<1>7. voltage \in Int /\ voltage >= 50
  <2> DEFINE hv == design.hvKV
  <2>1. hv \in Nat /\ hv >= 1
    BY <1>2
  <2> HIDE DEF hv
  <2>2. hv * load \in Nat /\ hv * load <= hv * 160000
    BY <1>3, <2>1
  <2> DEFINE x == hv * load
  <2>3. x \in Nat /\ x <= 160000 * hv
    BY <2>1, <2>2
  <2> HIDE DEF x
  <2>4. x \div 50000 \in Int /\ x \div 50000 <= 4 * hv
    BY <2>1, <2>3
  <2> QED BY <2>1, <2>4 DEF x, hv
<1>8. m.state \in States
  BY <1>1, <1>3, <1>4, ClassifyStates
<1> HIDE DEF m, level, current, voltage, oil, winding, design
<1>9. 0 <= m.loadPercent /\ m.loadPercent <= 200000
  <2>1. PICK k \in Int : Round1(load) = 100 * k /\ 100 * k <= load + 50 /\ load < 100 * k + 50
    BY <1>3, Rounding
  <2> QED BY <1>1, <1>3, <2>1
<1>10. -20000 <= m.ambientTempC /\ m.ambientTempC <= 55000
  <2>1. PICK k \in Int : Round1(ambient) = 100 * k /\ 100 * k <= ambient + 50 /\ ambient < 100 * k + 50
    BY Rounding
  <2> QED BY <1>1, <2>1 DEF Temperate
<1>11. 0 <= m.oilLevelPercent /\ m.oilLevelPercent <= 100000
  <2>1. PICK k \in Int : Round1(level) = 100 * k /\ 100 * k <= level + 50 /\ level < 100 * k + 50
    BY <1>5, Rounding
  <2> QED BY <1>1, <1>5, <2>1
<1>12. m.currentA >= 0 /\ m.voltageKV > 0
  <2>1. PICK k \in Int : Round1(voltage) = 100 * k /\ 100 * k <= voltage + 50 /\ voltage < 100 * k + 50
    BY <1>7, Rounding
  <2> QED BY <1>1, <1>6, <1>7, <2>1
<1>13. m.oilTempC \in Int /\ m.oilTempC >= 0 /\ m.windingTempC \in Int
  BY <1>1, <1>4, Rounding
<1>14. m.windingTempC <= m.oilTempC + 50000
  <2>1. Round1(winding) <= Round1(oil) + 50000
    BY <1>4, RoundingKeepsDistance
  <2> QED BY <1>1, <2>1
<1>15. m.loadPercent < 40000 \/ m.oilTempC - 500 <= m.windingTempC
  <2>1. CASE Round1(load) < 40000
    BY <1>1, <2>1
  <2>2. CASE winding >= oil - 500
    <3>1. oil <= winding + 500
      BY <1>4, <2>2
    <3>2. Round1(oil) <= Round1(winding) + 500
      BY <1>4, <3>1, RoundingKeepsDistance
    <3> QED BY <1>1, <1>13, <3>2
  <2> QED BY <1>4, <2>1, <2>2
<1> DEFINE o == m.oilTempC
           w == m.windingTempC
<1>16. /\ -20000 <= o /\ w <= o + 50000
       /\ o <= 150000 => w <= 200000
  BY <1>13, <1>14
<1>17. o > 150000 \/ o <= 150000
  BY <1>13
<1>18. w < o - 500 \/ o - 500 <= w
  BY <1>13
<1>19. ByTheRules(m)
  BY <1>8, <1>9, <1>10, <1>11, <1>12, <1>15, <1>16, <1>17, <1>18 DEF Plausible, ByTheRules
<1> QED BY <1>19 DEF m, design
-----------------------------------------------------------------------------
(* No unit of the run under way has left the envelopes of its settings.    *)
WarmInv ==
    sim = "running" =>
        \A low, high \in Thermal : Envelope(flags, low, high) =>
            \A i \in 1 .. Size : Below(low, units[i]) /\ Below(units[i], high)

LEMMA StartKeepsWarm == SampleInv /\ Start => WarmInv'
<1> SUFFICES ASSUME SampleInv, Start,
                    NEW low \in Thermal, NEW high \in Thermal, Envelope(flags', low, high),
                    NEW i \in 1 .. Size
             PROVE  Below(low, units'[i]) /\ Below(units'[i], high)
  <2>1. Size' = Size
    BY DEF Size, LoadedFleet
  <2> HIDE DEF Size
  <2> QED BY <2>1 DEF WarmInv
<1>1. now \in Nat /\ now <= MaxNow /\ flags' \in Settings /\ MaxNow \in Nat
  BY BoundsTyped DEF SampleInv, RunInv, Start
<1>2. flags'.ticks * flags'.interval \in Nat
  <2>1. flags'.interval \in Nat /\ flags'.ticks \in Nat
    BY <1>1, SettingsTyped
  <2> QED BY <2>1
<1>3. now \in 0 .. MaxNow + flags'.ticks * flags'.interval
  BY <1>1, <1>2
<1>4. units'[i] = AtRest(AmbientAt(now))
  BY DEF Start
<1> QED BY <1>3, <1>4 DEF Envelope, Instants

(* A tick: the units stay in the envelope, and their samples are within    *)
(* the rules.                                                              *)
LEMMA BatchKeepsWarm ==
    ASSUME SampleInv, WarmInv, NextBatch,
           NEW low \in Thermal, NEW high \in Thermal, Envelope(flags, low, high)
    PROVE  /\ \A i \in 1 .. Size : Below(low, units'[i]) /\ Below(units'[i], high)
           /\ OnlyTheseRulesRefuse'
<1>1. /\ sim = "running" /\ tick < flags.ticks /\ RunInv /\ flags \in Settings
      /\ units \in [1 .. Size -> [oil : Nat, winding : Nat]]
  BY DEF SampleInv, RunInv, NextBatch
<1>2. /\ Advanced \in Instants(flags)
      /\ AmbientAt(Advanced) \in Nat /\ Advanced \in Nat
  BY <1>1, ClockOfRun DEF Advanced, Instants
<1> DEFINE ambient == AmbientAt(Advanced)
<1>3. PICK loads \in [1 .. Size -> Loads], jitter \in Jitters :
        /\ units' = [i \in 1 .. Size |-> Heated(flags, units[i], LoadedFleet[i], loads[i], ambient)]
        /\ batch' = [i \in 1 .. Size |->
                       Sample(LoadedFleet[i], units[i], units'[i], loads[i],
                              ambient, jitter, Advanced)]
  BY DEF NextBatch
<1>4. \A i \in 1 .. Size :
        /\ Below(low, units'[i]) /\ Below(units'[i], high)
        /\ ByTheRules(batch'[i])
  <2> TAKE i \in 1 .. Size
  <2> DEFINE unit == units[i]
             after == units'[i]
             load == loads[i]
             m == batch'[i]
             at == Advanced
  <2>1. unit \in [oil : Nat, winding : Nat] /\ load \in Loads
    BY <1>1
  <2>2. Below(low, unit) /\ Below(unit, high)
    BY <1>1 DEF WarmInv
  <2>3. after = Heated(flags, unit, LoadedFleet[i], load, AmbientAt(at))
    BY <1>3
  <2>4. m = Sample(LoadedFleet[i], unit, after, load, ambient, jitter, at)
    BY <1>3
  <2>5. at \in Instants(flags) /\ at \in Nat /\ AmbientAt(at) \in Nat
    BY <1>2
  <2>6. ambient = AmbientAt(at)
    OBVIOUS
  <2> HIDE DEF unit, after, load, m, at, ambient
  <2>7. unit \in Thermal
    BY <2>1 DEF Thermal
  <2>8. after \in [oil : Nat, winding : Nat]
    BY <1>1, <2>1, <2>3, <2>5, HeatedStays
  <2>9. /\ AmbientAt(at) <= 55000
        /\ Below(low, after) /\ Below(after, high)
        /\ NearItsOil(after, load)
    BY <1>1, <2>1, <2>2, <2>3, <2>5, <2>7, EnvelopeIsKept
  <2>10. /\ flags \in Settings /\ load \in Loads /\ after \in Warm
         /\ ambient \in Nat /\ Temperate(ambient) /\ at \in Nat /\ NearItsOil(after, load)
    BY <1>1, <2>1, <2>5, <2>6, <2>8, <2>9 DEF Warm, Temperate
  <2>11. ByTheRules(Sample(LoadedFleet[i], unit, after, load, ambient, jitter, at))
    BY <2>10, SampleIsRefusedByRule
  <2>12. ByTheRules(m)
    BY <2>4, <2>11
  <2> QED BY <2>9, <2>12 DEF after, m
<1>5. DOMAIN batch' = 1 .. Size
  BY <1>3
<1> QED BY <1>4, <1>5 DEF OnlyTheseRulesRefuse, ByTheRules

EveryEnvelope == \A s \in Settings : \E low, high \in Thermal : Envelope(s, low, high)

LEMMA RefusalNext ==
    ASSUME EveryEnvelope, SampleInv, WarmInv, OnlyTheseRulesRefuse, [Next]_vars
    PROVE  WarmInv' /\ OnlyTheseRulesRefuse'
<1>1. CASE Start
  <2>1. batch' = <<>>
    BY <1>1 DEF Start
  <2>2. OnlyTheseRulesRefuse'
    BY <2>1 DEF OnlyTheseRulesRefuse
  <2> QED BY <1>1, <2>2, StartKeepsWarm
<1>2. CASE NextBatch
  <2>1. flags \in Settings /\ flags' = flags /\ sim' = sim
    BY <1>2 DEF SampleInv, RunInv, NextBatch
  <2>2. PICK low, high \in Thermal : Envelope(flags, low, high)
    BY <2>1 DEF EveryEnvelope
  <2>3. OnlyTheseRulesRefuse'
    BY <1>2, <2>2, BatchKeepsWarm
  <2>4. WarmInv'
    <3>1. Size' = Size
      BY DEF Size, LoadedFleet
    <3>2. \A l, h \in Thermal : Envelope(flags, l, h) =>
            \A i \in 1 .. Size : Below(l, units'[i]) /\ Below(units'[i], h)
      BY <1>2, BatchKeepsWarm
    <3> HIDE DEF Size
    <3> QED BY <2>1, <3>1, <3>2 DEF WarmInv
  <2> QED BY <2>3, <2>4
<1>3. CASE \/ WallClock \/ Publish \/ PublishTwice \/ PublishFails \/ Finish \/ Handle
           \/ UNCHANGED vars
  <2>1. UNCHANGED <<flags, units, batch>> /\ (sim' = "running" => sim = "running")
    BY <1>3 DEF WallClock, Publish, PublishTwice, PublishFails, Finish, Handle, vars, program
  <2>2. Size' = Size
    BY DEF Size, LoadedFleet
  <2> HIDE DEF Size
  <2>3. WarmInv'
    BY <2>1, <2>2 DEF WarmInv
  <2>4. OnlyTheseRulesRefuse'
    BY <2>1 DEF OnlyTheseRulesRefuse
  <2> QED BY <2>3, <2>4
<1> QED BY <1>1, <1>2, <1>3 DEF Next

(* For any fleet, curves and draws, any number of ticks and runs: a sample *)
(* of the simulator breaks no rule of the validator but the two, as long   *)
(* as every setting has two thermal states that a single tick takes no     *)
(* further out.  What a unit's history can do is in the two states: a tick *)
(* keeps the order of any two units, so that it stays between them.        *)
THEOREM SpecOnlyTheseRulesRefuse ==
    ASSUME \A s \in Settings :
             \E low, high \in [oil : Int, winding : Int] : Envelope(s, low, high)
    PROVE  Spec => []OnlyTheseRulesRefuse
<1>1. EveryEnvelope
  BY DEF EveryEnvelope, Thermal
<1> DEFINE Inv == SampleInv /\ WarmInv /\ OnlyTheseRulesRefuse
<1>2. Init => Inv
  <2>1. Init => WarmInv
    BY DEF Init, WarmInv
  <2>2. Init => OnlyTheseRulesRefuse
    BY DEF Init, OnlyTheseRulesRefuse
  <2> QED BY <2>1, <2>2, SampleInvInit
<1>3. Inv /\ [Next]_vars => Inv'
  BY <1>1, SampleInvNext, RefusalNext
<1>4. Inv => OnlyTheseRulesRefuse
  OBVIOUS
<1> QED BY <1>2, <1>3, <1>4, PTL DEF Spec
=============================================================================
