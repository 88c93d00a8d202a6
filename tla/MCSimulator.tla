---------------------------- MODULE MCSimulator ----------------------------
(***************************************************************************)
(* An instance of Simulator: two units of different cooling and losses,    *)
(* and six settings: the default ticks of five seconds, five-minute ticks  *)
(* of a fleet that idles or carries the usual load, hourly ticks of one    *)
(* that is overloaded or whose load is beyond the clamp, and that load     *)
(* after one tick of twenty hours.  The unit of time is five seconds.      *)
(***************************************************************************)
EXTENDS Simulator

MCFleet ==
    <<[id |-> "TR-001", powerMVA |-> 500, hvKV |-> 1380, cooling |-> "OFWF", lossRatio |-> 8,
       riseJitter |-> 1900, gradJitter |-> 400],
      [id |-> "TR-002", powerMVA |-> 4000, hvKV |-> 5000, cooling |-> "ODAF", lossRatio |-> 4,
       riseJitter |-> 900, gradJitter |-> -300]>>
MCIds == {"TR-001", "TR-002"}

EveryFiveSeconds(intensity) ==
    [interval |-> 1, ticks |-> 2, oilShare |-> 9, windingShare |-> 118, intensity |-> intensity]
EveryFiveMinutes(intensity) ==
    [interval |-> 60, ticks |-> 2, oilShare |-> 540, windingShare |-> 5105, intensity |-> intensity]
EveryHour(intensity) ==
    [interval |-> 720, ticks |-> 2, oilShare |-> 4866, windingShare |-> 9998, intensity |-> intensity]
TwentyHoursLater(intensity) ==
    [interval |-> 14400, ticks |-> 1, oilShare |-> 10000, windingShare |-> 10000,
     intensity |-> intensity]
MCSettings ==
    {EveryFiveSeconds("usual"), EveryFiveMinutes("idle"), EveryFiveMinutes("usual"), EveryHour("overload"),
     EveryHour("beyond"), TwentyHoursLater("beyond")}

MCRawLoads(intensity) ==
    CASE intensity = "idle"     -> {4000}
      [] intensity = "usual"    -> {40000}
      [] intensity = "overload" -> {110000, 130000}
      [] intensity = "beyond"   -> {180000, 220000}
MCAmbientAt(t) == IF t < 720 THEN 26000 ELSE IF t < 14400 THEN 27000 ELSE 30900

(* ((1 + R k^2) / (1 + R))^0.8 and k^1.6 at the clamped loads.             *)
MCOilFactor(ratio, load) ==
    CASE load = 5000   -> IF ratio = 8 THEN 175 ELSE 278
      [] load = 40000  -> IF ratio = 8 THEN 333 ELSE 410
      [] load = 110000 -> IF ratio = 8 THEN 1147 ELSE 1132
      [] load = 130000 -> IF ratio = 8 THEN 1466 ELSE 1421
      [] OTHER         -> IF ratio = 8 THEN 2006 ELSE 1912
MCWindingFactor(load) ==
    CASE load = 5000   -> 8
      [] load = 40000  -> 231
      [] load = 110000 -> 1165
      [] load = 130000 -> 1522
      [] OTHER         -> 2121

(* The instance is one the theorems about runs speak of: from the coolest  *)
(* hour, with a winding a little (if the fleet idles, a degree) behind the *)
(* oil, to an oil of 160 degrees.                                          *)
Lowest(s) == [oil |-> 26000, winding |-> IF s.intensity = "idle" THEN 25000 ELSE 25700]
Highest == [oil |-> 160000, winding |-> 210000]

ASSUME InstanceIsCovered ==
    /\ DistinctIds /\ FleetFits
    /\ \A s \in Settings : Envelope(s, Lowest(s), Highest)
=============================================================================
