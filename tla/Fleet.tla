------------------------------- MODULE Fleet -------------------------------
(***************************************************************************)
(* The fleet CSV: the generator of transformer designs (internal/domain),  *)
(* the command that writes them to a file (cmd/etl), and what a reader of  *)
(* that file makes of it (LoadTransformerCSV).                             *)
(*                                                                         *)
(* Units: powers are drawn in hundredths of MVA and recorded in tenths,    *)
(* voltages are tenths of a kilovolt, the height is in centimetres.        *)
(* Frequency, phases, year, vector group, impedance, losses, mass and the  *)
(* other dimensions are drawn from ranges that lie inside those Validate   *)
(* admits, and no rule tells two of their values apart: they are left out. *)
(***************************************************************************)
EXTENDS Integers, Sequences

CONSTANTS Powers,       \* the draws of logUniform, hundredths of MVA
          Heights,      \* the draws of height
          MaxId,        \* the last number "TR-%03d" and idPattern agree on (999)
          MaxUnits,     \* bound: -n of etl generate
          MaxGenerates, \* bound: runs of etl generate
          MaxWriteFaults, \* bound: writes cut off by an error or a kill
          OldFleet      \* the fleet in the CSV to begin with

ASSUME FleetAssumption ==
    /\ Powers \subseteq Nat /\ Heights \subseteq Nat \ {0}
    /\ MaxId \in Nat \ {0}
    /\ {MaxUnits, MaxGenerates, MaxWriteFaults} \subseteq Nat
    /\ OldFleet \in Seq([id : Nat, powerMVA : Nat, hvKV : Nat, lvKV : Nat,
                         cooling : STRING, application : STRING, height : Nat])

VARIABLES file,         \* the CSV
          etl,          \* where etl generate is
          draft,        \* the fleet it generated
          generated,    \* history: every fleet generated so far
          generates, writeFaults \* counters behind the bounds

vars == <<file, etl, draft, generated, generates, writeFaults>>

-----------------------------------------------------------------------------
(* The envelope of each application: the ends of its powers in MVA, its    *)
(* voltage classes.                                                        *)
Envelope ==
    [generation   |-> [low |-> 30, high |-> 400, hv |-> {1150, 1380, 2300, 3450, 5000},
                       lv |-> {110, 138, 200, 345, 690}],
     transmission |-> [low |-> 50, high |-> 400, hv |-> {2300, 3450, 5000},
                       lv |-> {690, 1150, 1380}],
     distribution |-> [low |-> 5, high |-> 60, hv |-> {690, 1380}, lv |-> {138, 345}],
     industrial   |-> [low |-> 10, high |-> 80, hv |-> {690, 1380, 2300},
                       lv |-> {138, 345, 690}],
     renewable    |-> [low |-> 20, high |-> 120, hv |-> {345, 690, 1380},
                       lv |-> {138, 345}]]

(* logUniform: a power between the ends.                                   *)
Drawn(app) == {mva \in Powers : 100 * Envelope[app].low <= mva /\ mva <= 100 * Envelope[app].high}

(* Mutant of Supported: the bound of the 345 kV class is a tenth of it.    *)
SupportedTooSmall(mva, kvs) ==
    LET valid == {kv \in kvs : (kv >= 3450 => mva >= 800) /\ (kv >= 2300 => mva >= 4000)}
    IN  IF valid = {} THEN kvs ELSE valid

(* supportedHVKVs: the highest classes need a large unit.                  *)
Supported(mva, kvs) ==
    LET valid == {kv \in kvs : (kv >= 3450 => mva >= 8000) /\ (kv >= 2300 => mva >= 4000)}
    IN  IF valid = {} THEN kvs ELSE valid

(* voltagePair: a low voltage below the high one, or any if there is none. *)
VoltagePairs(hvs, lvs) ==
    {pair \in hvs \X lvs : pair[2] < pair[1] \/ \A other \in lvs : other >= pair[1]}

Cooling(mva) ==
    IF mva < 1500 THEN {"ONAN"}
    ELSE IF mva < 6000 THEN {"ONAF"}
    ELSE IF mva < 15000 THEN {"ONAF", "OFAF"}
    ELSE {"OFAF", "ODAF", "OFWF"}

CoolingTypes == {"ONAN", "ONAF", "OFAF", "OFWF", "ODAF"}

(* round1 of a power.                                                      *)
Tenths(mva) == (mva + 5) \div 10

(* Every design Generator.one can return for sequence number seq: the      *)
(* draw of the power decides the rest, the record keeps it rounded.        *)
One(seq) ==
    UNION {UNION {
        {[id |-> seq, powerMVA |-> Tenths(mva), hvKV |-> pair[1], lvKV |-> pair[2],
          cooling |-> cooling, application |-> app, height |-> height] :
            pair \in VoltagePairs(Supported(mva, Envelope[app].hv), Envelope[app].lv),
            cooling \in Cooling(mva),
            height \in Heights} :
        mva \in Drawn(app)} : app \in DOMAIN Envelope}

(* Transformer.Validate, the application excepted, which it does not ask.  *)
Valid1(t) ==
    /\ t.id \in 1 .. MaxId
    /\ t.powerMVA > 0
    /\ t.hvKV > 0 /\ t.lvKV > 0 /\ t.hvKV > t.lvKV
    /\ t.cooling \in CoolingTypes
    /\ t.height > 0

-----------------------------------------------------------------------------
(* A file: its complete rows, and whether it ends (or is) something no     *)
(* reader gets past: no header, a row short of columns (the reader         *)
(* panics), an empty number.  A row cut within its last field reads as a   *)
(* row of its own.                                                         *)
File(rows, torn) == [rows |-> rows, torn |-> torn]

Clipped(t) == {[t EXCEPT !.height = h] : h \in {(t.height \div 10) * 10, (t.height \div 100) * 100}}

(* What is left of the rows when the write is cut off: between two rows,   *)
(* or within one; within its last field, it reads as a row.                *)
CutShort(rows) == {File(SubSeq(rows, 1, k), torn) : k \in 0 .. Len(rows), torn \in BOOLEAN}

CutInLast(rows) ==
    UNION {{File(Append(SubSeq(rows, 1, k - 1), t), FALSE) : t \in Clipped(rows[k])} :
             k \in 1 .. Len(rows)}

Cuts(rows) == CutShort(rows) \cup CutInLast(rows)

(* LoadTransformerCSV: all rows, or an error.                              *)
Loads(f) == ~f.torn /\ \A i \in DOMAIN f.rows : Valid1(f.rows[i])

Init ==
    /\ file = File(OldFleet, FALSE)
    /\ etl = "down"
    /\ draft = <<>>
    /\ generated = {OldFleet}
    /\ generates = 0 /\ writeFaults = 0

Valids(seq) == {t \in One(seq) : Valid1(t)}

(* Generate(n): every design validated.                                    *)
Generated(n) ==
    IF \E i \in 1 .. n : Valids(i) = {} THEN {}
    ELSE {fleet \in [1 .. n -> UNION {Valids(i) : i \in 1 .. n}] :
             \A i \in 1 .. n : fleet[i].id = i}

(* runGenerate: a fleet in memory; or, for one invalid design, nothing.    *)
GenerateFleet ==
    /\ etl # "created"
    /\ generates < MaxGenerates
    /\ generates' = generates + 1
    /\ \E n \in 1 .. MaxUnits :
         \/ /\ draft' \in Generated(n)
            /\ generated' = generated \cup {draft'}
            /\ etl' = "generated"
         \/ /\ \E i \in 1 .. n : Valids(i) # One(i)
            /\ etl' = "failed"
            /\ UNCHANGED <<draft, generated>>
    /\ UNCHANGED <<file, writeFaults>>

(* Mutant of CreateFile: the file is opened without O_TRUNC.               *)
OpenFile ==
    /\ etl = "generated"
    /\ etl' = "created"
    /\ UNCHANGED <<file, draft, generated, generates, writeFaults>>

(* os.Create empties the file that is there.                               *)
CreateFile ==
    /\ etl = "generated"
    /\ etl' = "created"
    /\ file' = File(<<>>, TRUE)
    /\ UNCHANGED <<draft, generated, generates, writeFaults>>

(* What is in the file once rows are written at its beginning.             *)
Overwritten(rows) ==
    File(rows \o SubSeq(file.rows, Len(rows) + 1, Len(file.rows)), FALSE)

(* Mutant of FlushFile: the writer is never flushed.                       *)
CloseUnflushed ==
    /\ etl = "created"
    /\ etl' = "written"
    /\ UNCHANGED <<file, draft, generated, generates, writeFaults>>

(* The deferred Flush writes what the buffer holds.                        *)
FlushFile ==
    /\ etl = "created"
    /\ etl' = "written"
    /\ file' = Overwritten(draft)
    /\ UNCHANGED <<draft, generated, generates, writeFaults>>

(* The write is cut off: by an error of Flush, which nobody looks at       *)
(* ("written"), by an error of an earlier write, or by a kill.             *)
FlushFails ==
    /\ etl = "created"
    /\ writeFaults < MaxWriteFaults
    /\ writeFaults' = writeFaults + 1
    /\ etl' \in {"written", "failed"}
    /\ file' \in Cuts(draft)
    /\ UNCHANGED <<draft, generated, generates>>

Next == GenerateFleet \/ CreateFile \/ FlushFile \/ FlushFails

Spec == Init /\ [][Next]_vars

-----------------------------------------------------------------------------
(* Up to the clipped last height, one row is the other.                    *)
SameDesign(t, u) == [t EXCEPT !.height = 0] = [u EXCEPT !.height = 0]

(* Whatever a reader can load, at any moment of a rewrite and after any    *)
(* cut, is the beginning of ONE generated fleet, in its order and with its *)
(* designs; only the height of the last row may be another.                *)
LoadableIsOneFleet ==
    Loads(file) =>
        \E fleet \in generated :
            /\ Len(file.rows) <= Len(fleet)
            /\ \A i \in DOMAIN file.rows :
                 IF i < Len(file.rows) THEN file.rows[i] = fleet[i]
                 ELSE SameDesign(file.rows[i], fleet[i])

(* etl generate that says it wrote a fleet has written one that loads in   *)
(* full, unless a write was cut off: every rule of the generator and the   *)
(* rounding of the columns agree with the rules of the reader.             *)
WrittenLoads ==
    etl = "written" /\ writeFaults = 0 => Loads(file) /\ file.rows = draft

(* Whatever is drawn, a design whose number fits the pattern is valid: no  *)
(* rule of the generator hands out what Validate refuses, so voltagePair's *)
(* fallback ("validation will catch it") is never needed.                  *)
DrawsAreValid == \A seq \in 1 .. MaxId : Valids(seq) = One(seq)

(* The rules of thumb of the generator hold for the ROUNDED record, though *)
(* they were applied to the power as drawn, and its two fallbacks are      *)
(* never taken: every draw is valid, the power is in the envelope, the     *)
(* 345 kV classes have 80 MVA, the 230 kV class 40.                        *)
EnvelopesHold ==
    /\ DrawsAreValid
    /\ \A i \in DOMAIN draft :
        LET t == draft[i] IN
        /\ 10 * Envelope[t.application].low <= t.powerMVA
        /\ t.powerMVA <= 10 * Envelope[t.application].high
        /\ t.hvKV >= 3450 => t.powerMVA >= 800
        /\ t.hvKV >= 2300 => t.powerMVA >= 400
=============================================================================
