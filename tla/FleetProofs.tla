---------------------------- MODULE FleetProofs ----------------------------
(***************************************************************************)
(* What holds of the fleet file for any draws, any sizes and any number of *)
(* rewrites and cuts.  The file is empty when rows are written to it, so   *)
(* that it never holds two fleets; and the bounds of the generator's rules *)
(* are whole tenths of MVA, so that rounding a power never carries it over *)
(* one of them.                                                            *)
(***************************************************************************)
EXTENDS Fleet, TLAPS

(* Whatever a reader makes of the rows, they begin a generated fleet.      *)
BeginsOneOf(rows, fleets) ==
    \E fleet \in fleets :
        /\ Len(rows) <= Len(fleet)
        /\ \A i \in DOMAIN rows :
             IF i < Len(rows) THEN rows[i] = fleet[i] ELSE SameDesign(rows[i], fleet[i])

DraftInv ==
    /\ \E D : draft \in Seq(D)
    /\ \A i \in DOMAIN draft : draft[i] \in Valids(i)
    /\ etl \in {"generated", "created"} => draft \in generated

FileInv ==
    /\ etl = "created" => file.rows = <<>>
    /\ Loads(file) => BeginsOneOf(file.rows, generated)

FleetInv == DraftInv /\ FileInv /\ WrittenLoads /\ writeFaults \in Nat

-----------------------------------------------------------------------------
(* The smallest unit of an envelope supports one of its classes.           *)
LEMMA EnvelopeOf ==
    ASSUME NEW app \in DOMAIN Envelope
    PROVE  /\ Envelope[app].low \in Nat /\ Envelope[app].high \in Nat
           /\ \E kv \in Envelope[app].hv :
                kv \in Nat /\ kv < 3450 /\ (kv >= 2300 => Envelope[app].low >= 40)
<1>1. CASE app = "generation"
  <2>1. Envelope[app] = [low |-> 30, high |-> 400, hv |-> {1150, 1380, 2300, 3450, 5000},
                   lv |-> {110, 138, 200, 345, 690}]
    BY <1>1 DEF Envelope
  <2>2. 1150 \in Envelope[app].hv
    BY <2>1
  <2> QED BY <2>1, <2>2
<1>2. CASE app = "transmission"
  <2>1. Envelope[app] = [low |-> 50, high |-> 400, hv |-> {2300, 3450, 5000},
                   lv |-> {690, 1150, 1380}]
    BY <1>2 DEF Envelope
  <2>2. 2300 \in Envelope[app].hv
    BY <2>1
  <2> QED BY <2>1, <2>2
<1>3. CASE app = "distribution"
  <2>1. Envelope[app] = [low |-> 5, high |-> 60, hv |-> {690, 1380}, lv |-> {138, 345}]
    BY <1>3 DEF Envelope
  <2>2. 690 \in Envelope[app].hv
    BY <2>1
  <2> QED BY <2>1, <2>2
<1>4. CASE app = "industrial"
  <2>1. Envelope[app] = [low |-> 10, high |-> 80, hv |-> {690, 1380, 2300},
                   lv |-> {138, 345, 690}]
    BY <1>4 DEF Envelope
  <2>2. 690 \in Envelope[app].hv
    BY <2>1
  <2> QED BY <2>1, <2>2
<1>5. CASE app = "renewable"
  <2>1. Envelope[app] = [low |-> 20, high |-> 120, hv |-> {345, 690, 1380},
                   lv |-> {138, 345}]
    BY <1>5 DEF Envelope
  <2>2. 345 \in Envelope[app].hv
    BY <2>1
  <2> QED BY <2>1, <2>2
<1>6. app \in {"generation", "transmission", "distribution", "industrial", "renewable"}
  BY DEF Envelope
<1> QED BY <1>1, <1>2, <1>3, <1>4, <1>5, <1>6

(* Rounding to tenths does not cross a whole tenth.                        *)
LEMMA TenthsBounds ==
    ASSUME NEW mva \in Nat, NEW whole \in Nat
    PROVE  /\ Tenths(mva) \in Int
           /\ 10 * whole <= mva => whole <= Tenths(mva)
           /\ mva <= 10 * whole => Tenths(mva) <= whole
BY SMTT(60) DEF Tenths

LEMMA DrawnPower ==
    ASSUME NEW app \in DOMAIN Envelope, NEW mva \in Drawn(app)
    PROVE  /\ mva \in Nat /\ Envelope[app].low \in Nat /\ Envelope[app].high \in Nat
           /\ 100 * Envelope[app].low <= mva /\ mva <= 100 * Envelope[app].high
<1>1. mva \in Powers /\ Powers \subseteq Nat
  BY FleetAssumption DEF Drawn
<1>2. 100 * Envelope[app].low <= mva /\ mva <= 100 * Envelope[app].high
  BY DEF Drawn
<1>3. Envelope[app].low \in Nat /\ Envelope[app].high \in Nat
  BY EnvelopeOf
<1> QED BY <1>1, <1>2, <1>3

LEMMA LargeEnough ==
    ASSUME NEW mva \in Nat, NEW low \in Nat, 100 * low <= mva
    PROVE  low >= 40 => mva >= 4000
OBVIOUS

(* The voltages left for a power: its class bounds hold, because every     *)
(* application has a class that its smallest unit supports.                *)
LEMMA ClassBounds ==
    ASSUME NEW app \in DOMAIN Envelope, NEW mva \in Drawn(app),
           NEW hv \in Supported(mva, Envelope[app].hv)
    PROVE  /\ hv \in Envelope[app].hv
           /\ hv >= 3450 => mva >= 8000
           /\ hv >= 2300 => mva >= 4000
<1> DEFINE valid == {kv \in Envelope[app].hv :
                       (kv >= 3450 => mva >= 8000) /\ (kv >= 2300 => mva >= 4000)}
<1>1. valid # {}
  <2>1. PICK kv \in Envelope[app].hv :
          kv \in Nat /\ kv < 3450 /\ (kv >= 2300 => Envelope[app].low >= 40)
    BY EnvelopeOf
  <2>2. Envelope[app].low >= 40 => mva >= 4000
    <3>1. /\ Envelope[app].low \in Nat /\ mva \in Nat
          /\ 100 * Envelope[app].low <= mva
      BY DrawnPower
    <3> QED BY <3>1, LargeEnough
  <2>3. kv \in valid
    BY <2>1, <2>2
  <2> QED BY <2>3
<1>2. hv \in valid
  BY <1>1 DEF Supported
<1> QED BY <1>2

(* The rounded power of a design keeps what was decided from the drawn one. *)
LEMMA RoundedDesign ==
    ASSUME NEW seq, NEW t \in One(seq)
    PROVE  /\ 10 * Envelope[t.application].low <= t.powerMVA
           /\ t.powerMVA <= 10 * Envelope[t.application].high
           /\ t.hvKV >= 3450 => t.powerMVA >= 800
           /\ t.hvKV >= 2300 => t.powerMVA >= 400
<1>0. PICK app \in DOMAIN Envelope : \E mva \in Drawn(app) :
        \E pair \in VoltagePairs(Supported(mva, Envelope[app].hv), Envelope[app].lv),
           cooling \in Cooling(mva), height \in Heights :
             t = [id |-> seq, powerMVA |-> Tenths(mva), hvKV |-> pair[1], lvKV |-> pair[2],
                  cooling |-> cooling, application |-> app, height |-> height]
  BY DEF One
<1>1. PICK mva \in Drawn(app) :
        \E pair \in VoltagePairs(Supported(mva, Envelope[app].hv), Envelope[app].lv),
           cooling \in Cooling(mva), height \in Heights :
             t = [id |-> seq, powerMVA |-> Tenths(mva), hvKV |-> pair[1], lvKV |-> pair[2],
                  cooling |-> cooling, application |-> app, height |-> height]
  BY <1>0
<1>2. /\ t.application = app /\ t.powerMVA = Tenths(mva)
      /\ t.hvKV \in Supported(mva, Envelope[app].hv)
  BY <1>1 DEF VoltagePairs
<1>3. /\ mva \in Nat /\ Envelope[app].low \in Nat /\ Envelope[app].high \in Nat
      /\ 100 * Envelope[app].low <= mva /\ mva <= 100 * Envelope[app].high
  BY DrawnPower
<1>4. 10 * Envelope[app].low <= Tenths(mva) /\ Tenths(mva) <= 10 * Envelope[app].high
  <2>1. 10 * Envelope[app].low \in Nat /\ 10 * Envelope[app].high \in Nat
        /\ 10 * (10 * Envelope[app].low) <= mva /\ mva <= 10 * (10 * Envelope[app].high)
    BY <1>3
  <2> QED BY <1>3, <2>1, TenthsBounds
<1>5. (mva >= 8000 => Tenths(mva) >= 800) /\ (mva >= 4000 => Tenths(mva) >= 400)
  <2>1. /\ 800 \in Nat /\ 400 \in Nat
        /\ mva >= 8000 => 10 * 800 <= mva
        /\ mva >= 4000 => 10 * 400 <= mva
    BY <1>3
  <2>2. Tenths(mva) \in Int
        /\ (10 * 800 <= mva => 800 <= Tenths(mva)) /\ (10 * 400 <= mva => 400 <= Tenths(mva))
    BY <1>3, <2>1, TenthsBounds
  <2> QED BY <2>1, <2>2
<1> QED BY <1>2, <1>4, <1>5, ClassBounds

(* Every high voltage of an envelope has a lower one beside it.            *)
LEMMA LowerVoltages ==
    ASSUME NEW app \in DOMAIN Envelope
    PROVE  /\ Envelope[app].low >= 5
           /\ \A lv \in Envelope[app].lv : lv \in Nat /\ lv > 0
           /\ \A hv \in Envelope[app].hv :
                hv \in Nat /\ hv > 0 /\ \E lv \in Envelope[app].lv : lv < hv
<1>1. CASE app = "generation"
  <2>1. Envelope[app] = [low |-> 30, high |-> 400, hv |-> {1150, 1380, 2300, 3450, 5000},
                   lv |-> {110, 138, 200, 345, 690}]
    BY <1>1 DEF Envelope
  <2>2. 110 \in Envelope[app].lv
    BY <2>1
  <2> QED BY <2>1, <2>2
<1>2. CASE app = "transmission"
  <2>1. Envelope[app] = [low |-> 50, high |-> 400, hv |-> {2300, 3450, 5000},
                   lv |-> {690, 1150, 1380}]
    BY <1>2 DEF Envelope
  <2>2. 690 \in Envelope[app].lv
    BY <2>1
  <2> QED BY <2>1, <2>2
<1>3. CASE app = "distribution"
  <2>1. Envelope[app] = [low |-> 5, high |-> 60, hv |-> {690, 1380},
                   lv |-> {138, 345}]
    BY <1>3 DEF Envelope
  <2>2. 138 \in Envelope[app].lv
    BY <2>1
  <2> QED BY <2>1, <2>2
<1>4. CASE app = "industrial"
  <2>1. Envelope[app] = [low |-> 10, high |-> 80, hv |-> {690, 1380, 2300},
                   lv |-> {138, 345, 690}]
    BY <1>4 DEF Envelope
  <2>2. 138 \in Envelope[app].lv
    BY <2>1
  <2> QED BY <2>1, <2>2
<1>5. CASE app = "renewable"
  <2>1. Envelope[app] = [low |-> 20, high |-> 120, hv |-> {345, 690, 1380},
                   lv |-> {138, 345}]
    BY <1>5 DEF Envelope
  <2>2. 138 \in Envelope[app].lv
    BY <2>1
  <2> QED BY <2>1, <2>2
<1>6. app \in {"generation", "transmission", "distribution", "industrial", "renewable"}
  BY DEF Envelope
<1> QED BY <1>1, <1>2, <1>3, <1>4, <1>5, <1>6

(* No draw hands out a design that Validate refuses.                       *)
LEMMA EveryDrawIsValid == DrawsAreValid
<1> SUFFICES ASSUME NEW seq \in 1 .. MaxId, NEW t \in One(seq) PROVE Valid1(t)
  BY DEF DrawsAreValid, Valids
<1>0. PICK app \in DOMAIN Envelope : \E mva \in Drawn(app) :
        \E pair \in VoltagePairs(Supported(mva, Envelope[app].hv), Envelope[app].lv),
           cooling \in Cooling(mva), height \in Heights :
             t = [id |-> seq, powerMVA |-> Tenths(mva), hvKV |-> pair[1], lvKV |-> pair[2],
                  cooling |-> cooling, application |-> app, height |-> height]
  BY DEF One
<1>1. PICK mva \in Drawn(app) :
        \E pair \in VoltagePairs(Supported(mva, Envelope[app].hv), Envelope[app].lv),
           cooling \in Cooling(mva), height \in Heights :
             t = [id |-> seq, powerMVA |-> Tenths(mva), hvKV |-> pair[1], lvKV |-> pair[2],
                  cooling |-> cooling, application |-> app, height |-> height]
  BY <1>0
<1>2. PICK pair \in VoltagePairs(Supported(mva, Envelope[app].hv), Envelope[app].lv),
           cooling \in Cooling(mva), height \in Heights :
             t = [id |-> seq, powerMVA |-> Tenths(mva), hvKV |-> pair[1], lvKV |-> pair[2],
                  cooling |-> cooling, application |-> app, height |-> height]
  BY <1>1
<1>3. pair[1] \in Envelope[app].hv /\ pair[2] \in Envelope[app].lv
  BY ClassBounds DEF VoltagePairs
<1>4. pair[2] < pair[1]
  <2>1. PICK lv \in Envelope[app].lv : lv \in Nat /\ lv < pair[1] /\ pair[1] \in Nat
    BY <1>3, LowerVoltages
  <2>2. ~(lv >= pair[1])
    BY <2>1
  <2> QED BY <2>1, <2>2 DEF VoltagePairs
<1>5. /\ pair[1] \in Nat /\ pair[1] > 0
      /\ pair[2] \in Nat /\ pair[2] > 0
  BY <1>3, LowerVoltages
<1>6. Tenths(mva) > 0
  <2>1. mva \in Nat /\ Envelope[app].low \in Nat /\ 100 * Envelope[app].low <= mva
    BY DrawnPower
  <2>2. 10 * 1 <= mva
    BY <2>1, LowerVoltages
  <2>3. Tenths(mva) \in Int /\ 1 <= Tenths(mva)
    BY <2>1, <2>2, TenthsBounds
  <2> QED BY <2>3
<1>7. cooling \in CoolingTypes
  BY DEF Cooling, CoolingTypes
<1>8. height > 0
  BY FleetAssumption
<1> QED BY <1>2, <1>4, <1>5, <1>6, <1>7, <1>8 DEF Valid1

-----------------------------------------------------------------------------
(* A fleet begins itself, and so does every cut of it.                     *)
LEMMA WholeBegins ==
    ASSUME NEW D, NEW fleet \in Seq(D), NEW fleets, fleet \in fleets
    PROVE  BeginsOneOf(fleet, fleets)
BY DEF BeginsOneOf, SameDesign

LEMMA CutBegins ==
    ASSUME NEW D, NEW fleet \in Seq(D), NEW fleets, fleet \in fleets,
           NEW cut \in Cuts(fleet)
    PROVE  BeginsOneOf(cut.rows, fleets)
<1>1. CASE cut \in CutShort(fleet)
  <2>1. PICK k \in 0 .. Len(fleet) : cut.rows = SubSeq(fleet, 1, k)
    BY <1>1 DEF CutShort, File
  <2>2. /\ Len(cut.rows) = k /\ DOMAIN cut.rows = 1 .. k
        /\ \A i \in 1 .. k : cut.rows[i] = fleet[i]
    BY <2>1
  <2>3. \A i \in 1 .. k : IF i < k THEN cut.rows[i] = fleet[i]
                          ELSE SameDesign(cut.rows[i], fleet[i])
    BY <2>2 DEF SameDesign
  <2> QED BY <2>2, <2>3 DEF BeginsOneOf
<1>2. CASE cut \in CutInLast(fleet)
  <2>1. PICK k \in 1 .. Len(fleet) :
          cut \in {File(Append(SubSeq(fleet, 1, k - 1), t), FALSE) : t \in Clipped(fleet[k])}
    BY <1>2 DEF CutInLast
  <2>2. PICK t \in Clipped(fleet[k]) : cut.rows = Append(SubSeq(fleet, 1, k - 1), t)
    BY <2>1 DEF File
  <2>3. SameDesign(t, fleet[k])
    BY DEF SameDesign, Clipped
  <2> DEFINE front == SubSeq(fleet, 1, k - 1)
  <2>4. /\ front \in Seq(D) /\ Len(front) = k - 1
        /\ \A i \in 1 .. k - 1 : front[i] = fleet[i]
    OBVIOUS
  <2> HIDE DEF front
  <2>5. /\ Len(cut.rows) = k /\ DOMAIN cut.rows = 1 .. k
        /\ \A i \in 1 .. k - 1 : cut.rows[i] = fleet[i]
        /\ cut.rows[k] = t
    BY <2>2, <2>4 DEF front
  <2>6. \A i \in 1 .. k : IF i < k THEN cut.rows[i] = fleet[i]
                          ELSE SameDesign(cut.rows[i], fleet[i])
    BY <2>3, <2>5
  <2> QED BY <2>5, <2>6 DEF BeginsOneOf
<1> QED BY <1>1, <1>2 DEF Cuts

(* Rows written to an empty file are what it then holds.                   *)
LEMMA WrittenToEmpty ==
    ASSUME NEW D, NEW rows \in Seq(D), file.rows = <<>>
    PROVE  Overwritten(rows) = File(rows, FALSE)
<1>1. SubSeq(file.rows, Len(rows) + 1, Len(file.rows)) = <<>>
  OBVIOUS
<1>2. rows \o <<>> = rows
  OBVIOUS
<1> QED BY <1>1, <1>2 DEF Overwritten

(* A generated fleet is a sequence of valid designs, which a reader loads. *)
LEMMA GeneratedFleet ==
    ASSUME NEW n \in Nat, NEW fleet \in Generated(n)
    PROVE  /\ \E D : fleet \in Seq(D)
           /\ \A i \in DOMAIN fleet : fleet[i] \in Valids(i)
<1> DEFINE D == UNION {Valids(i) : i \in 1 .. n}
<1>1. fleet \in [1 .. n -> D] /\ \A i \in 1 .. n : fleet[i].id = i
  BY DEF Generated
<1>2. fleet \in Seq(D)
  BY <1>1
<1>3. ASSUME NEW i \in 1 .. n PROVE fleet[i] \in Valids(i)
  <2>1. PICK j \in 1 .. n : fleet[i] \in Valids(j)
    BY <1>1
  <2>2. fleet[i].id = j
    BY <2>1 DEF Valids, One
  <2> QED BY <1>1, <2>1, <2>2
<1> QED BY <1>1, <1>2, <1>3

-----------------------------------------------------------------------------
LEMMA FleetInvInit == Init => FleetInv
<1> SUFFICES ASSUME Init PROVE FleetInv
  OBVIOUS
<1>1. DraftInv
  <2>1. draft \in Seq({}) /\ DOMAIN draft = {}
    BY DEF Init
  <2> QED BY <2>1 DEF Init, DraftInv
<1>2. BeginsOneOf(file.rows, generated)
  BY FleetAssumption, WholeBegins DEF Init, File
<1> QED BY <1>1, <1>2 DEF Init, FleetInv, FileInv, WrittenLoads

LEMMA GenerateKeeps == FleetInv /\ GenerateFleet => FleetInv'
<1> SUFFICES ASSUME FleetInv, GenerateFleet PROVE FleetInv'
  OBVIOUS
<1> USE DEF GenerateFleet
<1>1. DraftInv'
  <2>1. CASE etl' = "failed"
    BY <2>1 DEF FleetInv, DraftInv
  <2>2. CASE etl' = "generated"
    <3>1. PICK n \in 1 .. MaxUnits : draft' \in Generated(n)
      BY <2>2
    <3>2. n \in Nat
      BY FleetAssumption
    <3> QED BY <2>2, <3>1, <3>2, GeneratedFleet DEF DraftInv, Valids, One
  <2> QED BY <2>1, <2>2
<1>2. generated \subseteq generated' /\ file' = file /\ etl' \in {"generated", "failed"}
  OBVIOUS
<1>3. FileInv' /\ WrittenLoads'
  BY <1>2 DEF FleetInv, FileInv, WrittenLoads, BeginsOneOf, Loads
<1> QED BY <1>1, <1>3 DEF FleetInv

LEMMA CreateKeeps == FleetInv /\ CreateFile => FleetInv'
<1> SUFFICES ASSUME FleetInv, CreateFile PROVE FleetInv'
  OBVIOUS
<1>1. DraftInv'
  BY DEF FleetInv, DraftInv, CreateFile
<1>2. FileInv' /\ WrittenLoads'
  BY DEF CreateFile, FileInv, WrittenLoads, File, Loads
<1> QED BY <1>1, <1>2 DEF FleetInv, CreateFile

LEMMA FlushKeeps == FleetInv /\ FlushFile => FleetInv'
<1> SUFFICES ASSUME FleetInv, FlushFile PROVE FleetInv'
  OBVIOUS
<1>1. PICK D : draft \in Seq(D)
  BY DEF FleetInv, DraftInv
<1>2. /\ UNCHANGED <<draft, generated>> /\ draft \in generated /\ etl' = "written"
      /\ file' = File(draft, FALSE)
  BY <1>1, WrittenToEmpty DEF FlushFile, FleetInv, DraftInv, FileInv
<1>3. DraftInv'
  BY <1>2 DEF FleetInv, DraftInv
<1>4. FileInv'
  BY <1>1, <1>2, WholeBegins DEF FileInv, File
<1>5. WrittenLoads'
  BY <1>2, <1>3 DEF WrittenLoads, File, Loads, DraftInv, Valids
<1> QED BY <1>3, <1>4, <1>5 DEF FleetInv, FlushFile

LEMMA CutKeeps == FleetInv /\ FlushFails => FleetInv'
<1> SUFFICES ASSUME FleetInv, FlushFails PROVE FleetInv'
  OBVIOUS
<1>1. PICK D : draft \in Seq(D)
  BY DEF FleetInv, DraftInv
<1>2. /\ UNCHANGED <<draft, generated>> /\ draft \in generated
      /\ etl' \in {"written", "failed"} /\ file' \in Cuts(draft)
      /\ writeFaults' \in Nat /\ writeFaults' # 0
  BY DEF FlushFails, FleetInv, DraftInv
<1>3. DraftInv'
  BY <1>2 DEF FleetInv, DraftInv
<1>4. FileInv'
  BY <1>1, <1>2, CutBegins DEF FileInv
<1>5. WrittenLoads'
  BY <1>2 DEF WrittenLoads
<1> QED BY <1>2, <1>3, <1>4, <1>5 DEF FleetInv

LEMMA FleetInvNext == FleetInv /\ [Next]_vars => FleetInv'
BY GenerateKeeps, CreateKeeps, FlushKeeps, CutKeeps
   DEF Next, vars, FleetInv, DraftInv, FileInv, WrittenLoads, Loads

LEMMA SpecFleetInv == Spec => []FleetInv
BY FleetInvInit, FleetInvNext, PTL DEF Spec

(* What can be loaded, at any moment of a rewrite and after any cut, is    *)
(* the beginning of one generated fleet (os.Create before the rows).       *)
THEOREM LoadableIsOneFleetAlways == Spec => []LoadableIsOneFleet
<1>1. FleetInv => LoadableIsOneFleet
  BY DEF FleetInv, FileInv, BeginsOneOf, LoadableIsOneFleet
<1> QED BY <1>1, SpecFleetInv, PTL

(* A fleet that was written without a cut passes every check of the reader *)
(* (Generate against Validate).                                            *)
THEOREM WrittenFleetLoads == Spec => []WrittenLoads
<1>1. FleetInv => WrittenLoads
  BY DEF FleetInv
<1> QED BY <1>1, SpecFleetInv, PTL

(* For any draws, no design is refused, the rounded ones keep the          *)
(* generator's rules of thumb, and neither of its fallbacks (of            *)
(* supportedHVKVs and of voltagePair) is taken.                            *)
THEOREM DesignsKeepEnvelopes == Spec => []EnvelopesHold
<1>1. FleetInv => EnvelopesHold
  BY RoundedDesign, EveryDrawIsValid DEF FleetInv, DraftInv, Valids, EnvelopesHold
<1> QED BY <1>1, SpecFleetInv, PTL
=============================================================================
