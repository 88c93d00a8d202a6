--------------------------- MODULE BackfillProofs ---------------------------
(***************************************************************************)
(* What holds of the bronze file, its replay and the tables for any        *)
(* messages and bounds: a replay has stored what it has passed, and the    *)
(* two writers together implement the ledger.  The argument ties the       *)
(* measurement in the replay's hands to the line before it, that line to   *)
(* the tables, and the tables to the ledger's raw-first rule.              *)
(***************************************************************************)
EXTENDS Backfill, BronzeTablesProofs

(* What the handler writes, and what it wrote, was admitted on arrival.    *)
Welcome(msg, t) == msg \in Messages /\ Admissible(msg, Registry, t + MaxSkew)

HandIsAdmitted == writing # "idle" => Welcome(held, heldAt)

LinesAreAdmitted ==
    \A i \in DOMAIN file : file[i] # Garbled => Welcome(file[i].msg, file[i].at)

(* Between its two appends the handler has the raw line behind it.         *)
HandHasRawLine ==
    writing = "measurement" =>
        Len(file) > 0 /\ file[Len(file)] \in {LineOf("raw"), Garbled}

SinkInv == SinkTypeOK /\ HandIsAdmitted /\ LinesAreAdmitted /\ HandHasRawLine /\ RawLineFirst

RowsHaveTheirKeys == \A r \in raw : r.id = DedupKey(r.payload)

BackfillInv == SinkInv /\ BackfillTypeOK /\ RowsHaveTheirKeys /\ PrefixIsStored

-----------------------------------------------------------------------------
LEMMA MessageFields ==
    ASSUME NEW msg \in Messages
    PROVE  msg \in Message(Ids) /\ msg.body \in Measurement(Ids)
BY FileMessagesAreMessages DEF Message

LEMMA WelcomeRecord ==
    ASSUME NEW msg, NEW t \in Times, Welcome(msg, t)
    PROVE  /\ RawRecord(msg, t) \in RawRow(Ids)
           /\ RawRecord(msg, t).id = DedupKey(msg.body)
           /\ DedupKey(msg.body) \in Ids \X Timestamp
<1>1. msg.topic \in Ids /\ t \in Nat
  BY MessageFields, FileMessagesAreMessages DEF Welcome, Admissible, Message
<1> QED
  BY <1>1, MessageFields, RawRecordTyped DEF Welcome

(* A line has a kind, and only a garbled one has no message.               *)
LEMMA LineKinds ==
    ASSUME NEW line \in Line \cup {Garbled}
    PROVE  /\ line = Garbled <=> line.kind = "garbled"
           /\ line # Garbled => line \in Line
           /\ line.kind \in {"raw", "measurement", "garbled"}
BY DEF Line, Garbled

(* The line after, appended whole or glued to a fragment.                  *)
LEMMA Appended ==
    ASSUME NEW file0 \in Seq(Line \cup {Garbled}), NEW line \in Line \cup {Garbled}
    PROVE  /\ Append(file0, line) \in Seq(Line \cup {Garbled})
           /\ Len(Append(file0, line)) = Len(file0) + 1
           /\ DOMAIN Append(file0, line) = 1 .. Len(file0) + 1
           /\ DOMAIN file0 = 1 .. Len(file0) /\ Len(file0) \in Nat
           /\ \A i \in DOMAIN file0 : Append(file0, line)[i] = file0[i]
           /\ Append(file0, line)[Len(file0) + 1] = line
OBVIOUS

-----------------------------------------------------------------------------
(* The sink.                                                               *)
LEMMA SinkInit == FileInit => SinkInv
<1> SUFFICES ASSUME FileInit PROVE SinkInv
  OBVIOUS
<1>1. file \in Seq(Line \cup {Garbled}) /\ DOMAIN file = {} /\ writing = "idle"
  BY DEF FileInit
<1>2. SinkTypeOK
  BY <1>1 DEF FileInit, SinkTypeOK
<1> QED
  BY <1>1, <1>2
     DEF SinkInv, HandIsAdmitted, LinesAreAdmitted, HandHasRawLine, RawLineFirst

LEMMA TakeKeepsSink ==
    ASSUME SinkInv, NEW msg \in Messages, NEW t \in Times, TakeMessage(msg, t)
    PROVE  SinkInv'
<1> USE DEF SinkInv, TakeMessage
<1>1. Welcome(msg, t)
  BY DEF Welcome
<1>2. SinkTypeOK'
  BY <1>1, WelcomeRecord DEF SinkTypeOK
<1>3. HandIsAdmitted' /\ HandHasRawLine'
  BY <1>1 DEF HandIsAdmitted, HandHasRawLine, Welcome
<1>4. LinesAreAdmitted' /\ RawLineFirst'
  BY DEF LinesAreAdmitted, RawLineFirst, Welcome
<1> QED
  BY <1>2, <1>3, <1>4

LEMMA AppendKeepsSink ==
    ASSUME SinkInv, AppendRaw \/ AppendMeasurement
    PROVE  SinkInv'
<1> USE DEF SinkInv
<1>1. PICK kind \in {"raw", "measurement"} :
         /\ writing = kind /\ file' = Grown(LineOf(kind)) /\ fragment' = FALSE
         /\ writing' = IF kind = "raw" THEN "measurement" ELSE "idle"
         /\ UNCHANGED <<broken, held, heldAt, remembered, tally>>
  BY DEF AppendRaw, AppendMeasurement
<1> DEFINE line == IF fragment THEN Garbled ELSE LineOf(kind)
           n == Len(file)
<1>2. file \in Seq(Line \cup {Garbled}) /\ heldAt \in Times /\ Welcome(held, heldAt)
  BY <1>1 DEF SinkTypeOK, HandIsAdmitted
<1>3. /\ LineOf(kind) \in Line /\ LineOf(kind).kind = kind /\ LineOf(kind) # Garbled
      /\ LineOf(kind).msg = held /\ LineOf(kind).at = heldAt
  BY <1>2 DEF Line, LineOf, Garbled, Welcome
<1>4. line \in Line \cup {Garbled} /\ file' = Append(file, line)
  BY <1>1, <1>3 DEF Grown
<1> HIDE DEF line
<1>5. /\ file' \in Seq(Line \cup {Garbled}) /\ Len(file') = n + 1
      /\ DOMAIN file' = 1 .. n + 1 /\ DOMAIN file = 1 .. n /\ n \in Nat
      /\ \A i \in 1 .. n : file'[i] = file[i]
      /\ file'[n + 1] = line
  BY <1>2, <1>4, Appended
<1>6. SinkTypeOK'
  BY <1>1, <1>5 DEF SinkTypeOK
<1>7. HandIsAdmitted'
  BY <1>1 DEF HandIsAdmitted, Welcome
<1>8. LinesAreAdmitted'
  <2> SUFFICES ASSUME NEW i \in 1 .. n + 1, file'[i] # Garbled
               PROVE  Welcome(file'[i].msg, file'[i].at)
    BY <1>5 DEF LinesAreAdmitted, Welcome
  <2>1. CASE i \in 1 .. n
    BY <1>5, <2>1 DEF LinesAreAdmitted
  <2>2. CASE i = n + 1
    BY <1>2, <1>3, <1>5, <2>2 DEF line
  <2> QED
    BY <1>5, <2>1, <2>2
<1>9. HandHasRawLine'
  <2> SUFFICES ASSUME kind = "raw"
               PROVE  Len(file') > 0 /\ file'[Len(file')] \in {LineOf("raw"), Garbled}'
    BY <1>1 DEF HandHasRawLine
  <2>1. LineOf("raw")' = LineOf("raw") /\ Garbled' = Garbled
    BY <1>1 DEF LineOf, Garbled
  <2> QED
    BY <1>5, <2>1 DEF line
<1>10. RawLineFirst'
  <2> SUFFICES ASSUME NEW i \in 1 .. n + 1, file'[i].kind = "measurement"
               PROVE  /\ i > 1
                      /\ file'[i - 1] \in {[file'[i] EXCEPT !.kind = "raw"], Garbled}
    BY <1>5 DEF RawLineFirst, Garbled
  <2>1. CASE i \in 1 .. n
    <3>1. file[i].kind = "measurement" /\ file[i] = file'[i]
      BY <1>5, <2>1
    <3>2. i > 1 /\ file[i - 1] \in {[file[i] EXCEPT !.kind = "raw"], Garbled}
      BY <1>5, <2>1, <3>1 DEF RawLineFirst
    <3>3. file'[i - 1] = file[i - 1]
      BY <1>5, <2>1, <3>2
    <3> QED
      BY <3>1, <3>2, <3>3
  <2>2. CASE i = n + 1
    <3>1. line.kind = "measurement"
      BY <1>5, <2>2
    <3>2. line = LineOf("measurement") /\ kind = "measurement"
      BY <1>3, <3>1 DEF line, Garbled
    <3>3. n > 0 /\ file[n] \in {LineOf("raw"), Garbled}
      BY <1>1, <3>2 DEF HandHasRawLine
    <3>4. LineOf("raw") = [LineOf("measurement") EXCEPT !.kind = "raw"]
      BY DEF LineOf
    <3> QED
      BY <1>5, <2>2, <3>2, <3>3, <3>4
  <2> QED
    BY <1>5, <2>1, <2>2
<1> QED
  BY <1>6, <1>7, <1>8, <1>9, <1>10

LEMMA OtherKeepsSink ==
    ASSUME SinkInv, AppendFails \/ AppendRefused \/ RestartSink \/ UNCHANGED sink
    PROVE  SinkInv'
<1> USE DEF SinkInv, AppendFails, AppendRefused, RestartSink, sink
<1>1. SinkTypeOK'
  <2>1. CASE AppendFails
    <3>1. tally' \in [claims : Nat, shortWrites : Nat, restarts : Nat]
      BY <2>1 DEF SinkTypeOK
    <3> QED BY <2>1, <3>1 DEF SinkTypeOK
  <2>2. CASE RestartSink
    <3>1. tally' \in [claims : Nat, shortWrites : Nat, restarts : Nat]
      BY <2>2 DEF SinkTypeOK
    <3> QED BY <2>2, <3>1 DEF SinkTypeOK
  <2>3. CASE AppendRefused \/ UNCHANGED sink
    BY <2>3 DEF SinkTypeOK
  <2> QED BY <2>1, <2>2, <2>3
<1>2. HandIsAdmitted' /\ HandHasRawLine'
  BY DEF HandIsAdmitted, HandHasRawLine, Welcome, LineOf, Garbled
<1>3. LinesAreAdmitted' /\ RawLineFirst'
  BY DEF LinesAreAdmitted, RawLineFirst, Welcome, Garbled
<1> QED
  BY <1>1, <1>2, <1>3

(* The sink goes on as if there were no replay, and the replay leaves it   *)
(* alone.                                                                  *)
LEMMA SinkKept ==
    ASSUME SinkInv, [Next]_bvars
    PROVE  SinkInv'
<1>1. SinkStep \/ UNCHANGED sink
  BY DEF Next, Sink, OtherWriter, Start, ReplayRaw, ReplayMeasurement, ReplayStops,
         ReplayBreaks, ReplayEnds, Consume, bvars
<1> QED
  BY <1>1, TakeKeepsSink, AppendKeepsSink, OtherKeepsSink DEF SinkStep

(* The file only grows.                                                    *)
LEMMA FileGrows ==
    ASSUME SinkInv, [Next]_bvars
    PROVE  /\ Len(file) \in Nat /\ Len(file') \in Nat /\ Len(file) <= Len(file')
           /\ \A i \in 1 .. Len(file) : file'[i] = file[i]
<1>0. file \in Seq(Line \cup {Garbled}) /\ file' \in Seq(Line \cup {Garbled})
  BY SinkKept DEF SinkInv, SinkTypeOK
<1>1. UNCHANGED file \/ AppendRaw \/ AppendMeasurement
  BY DEF Next, Sink, SinkStep, TakeMessage, AppendFails, AppendRefused, RestartSink, OtherWriter,
         Start, ReplayRaw, ReplayMeasurement, ReplayStops, ReplayBreaks, ReplayEnds,
         Consume, bvars, sink
<1>2. CASE AppendRaw \/ AppendMeasurement
  <2>1. PICK line : file' = Append(file, line)
    BY <1>2 DEF AppendRaw, AppendMeasurement, Grown
  <2> QED
    BY <1>0, <2>1
<1> QED
  BY <1>0, <1>1, <1>2

-----------------------------------------------------------------------------
(* The tables.  The contract's operators are the same ones in the ledger's *)
(* instance.                                                               *)
LEMMA LedgerOperators ==
    ASSUME NEW msg, NEW h, NEW t, NEW k, NEW row, NEW m
    PROVE  /\ Ledger!Admissible(msg, Registry, h) = Admissible(msg, Registry, h)
           /\ Ledger!DedupKey(m) = DedupKey(m)
           /\ Ledger!NaturalKey(m) = NaturalKey(m)
           /\ Ledger!RawRecord(msg, t) = RawRecord(msg, t)
           /\ Ledger!HasRaw(raw, k) = HasRaw(raw, k)
           /\ Ledger!HasMeasurement(meas, k) = HasMeasurement(meas, k)
           /\ Ledger!RowKey(row) = RowKey(row)
           /\ Ledger!FitsColumns(row) <=> FitsColumns(row)
           /\ Ledger!MeasurementRow(Ledger!Normalize(m)) = MeasurementRow(Normalize(m))
<1>1. Ledger!Admissible(msg, Registry, h) = Admissible(msg, Registry, h)
  BY DEF Ledger!Admissible, Admissible, Ledger!NoTopic, NoTopic,
         Ledger!Valid, Valid, Ledger!Plausible, Plausible, Ledger!States, States,
         Ledger!SchemaVersion, SchemaVersion
<1>2. /\ Ledger!DedupKey(m) = DedupKey(m)
      /\ Ledger!NaturalKey(m) = NaturalKey(m)
      /\ Ledger!RawRecord(msg, t) = RawRecord(msg, t)
      /\ Ledger!RowKey(row) = RowKey(row)
  BY DEF Ledger!DedupKey, DedupKey, Ledger!NaturalKey, NaturalKey,
         Ledger!RawRecord, RawRecord, Ledger!RowKey, RowKey
<1>3. Ledger!HasRaw(raw, k) = HasRaw(raw, k)
  BY DEF Ledger!HasRaw, HasRaw
<1>4. Ledger!HasMeasurement(meas, k) = HasMeasurement(meas, k)
  BY DEF Ledger!HasMeasurement, HasMeasurement, Ledger!RowKey, RowKey
<1>5. Ledger!FitsColumns(row) <=> FitsColumns(row)
  <2>1. /\ Ledger!States = States
        /\ Ledger!WidestCurrent = WidestCurrent
        /\ Ledger!WidestVoltage = WidestVoltage
    BY DEF Ledger!States, States, Ledger!WidestCurrent, WidestCurrent,
           Ledger!WidestVoltage, WidestVoltage
  <2> QED BY <2>1 DEF Ledger!FitsColumns, FitsColumns
<1>6. Ledger!Normalize(m) = Normalize(m)
  BY DEF Ledger!Normalize, Normalize, Ledger!ClassifyState, ClassifyState
<1>7. \A n : Ledger!MeasurementRow(n) = MeasurementRow(n)
  BY DEF Ledger!MeasurementRow, MeasurementRow, Ledger!Hundredths, Hundredths
<1> QED BY <1>1, <1>2, <1>3, <1>4, <1>5, <1>6, <1>7

(* What a step may do to the tables: nothing, the INSERT of the line the   *)
(* replay has reached, or a step of the other writer.                      *)
LEMMA TableSteps ==
    ASSUME [Next]_bvars
    PROVE  \/ UNCHANGED <<raw, meas>>
           \/ Ledger!Next
           \/ /\ Reading /\ NextLine.kind = "raw"
              /\ raw' = InsertRaw(raw, NextRaw) /\ UNCHANGED meas
           \/ /\ Reading /\ NextLine.kind = "measurement"
              /\ AcceptsMeasurement(transformers, NextRow)
              /\ meas' = InsertMeasurement(meas, NextRow) /\ UNCHANGED raw
BY DEF Next, Sink, OtherWriter, Start, ReplayRaw, ReplayMeasurement, ReplayStops,
       ReplayBreaks, ReplayEnds, bvars, tables, Reading

(* The line the replay has reached was admitted, unless it is garbled.     *)
LEMMA NextLineWelcome ==
    ASSUME BackfillInv, Reading, NextLine.kind # "garbled"
    PROVE  /\ NextLine.at \in Times /\ Welcome(NextLine.msg, NextLine.at)
           /\ NextLine \in Line /\ pos + 1 \in DOMAIN file
<1>1. pos + 1 \in DOMAIN file /\ file[pos + 1] \in Line \cup {Garbled}
  BY DEF BackfillInv, SinkInv, SinkTypeOK, BackfillTypeOK, Reading
<1>2. NextLine # Garbled /\ NextLine \in Line
  BY <1>1, LineKinds DEF NextLine
<1>3. NextLine.at \in Times
  BY <1>2 DEF Line
<1>4. Welcome(NextLine.msg, NextLine.at)
  BY <1>1, <1>2 DEF BackfillInv, SinkInv, LinesAreAdmitted, NextLine
<1> QED BY <1>1, <1>2, <1>3, <1>4

(* When the replay reaches a measurement it has passed its raw line, so    *)
(* that the raw record of the instant is in the table.                     *)
LEMMA RawBehindLine ==
    ASSUME BackfillInv, Reading, NextLine.kind = "measurement"
    PROVE  \E r \in raw : NaturalKey(r.payload) = NaturalKey(NextLine.msg.body)
<1>1. /\ pos + 1 \in DOMAIN file /\ pos \in Nat /\ NextLine = file[pos + 1]
      /\ NextLine \in Line
  BY NextLineWelcome DEF NextLine, BackfillInv, BackfillTypeOK
<1>2. /\ pos > 0
      /\ file[pos] \in {[NextLine EXCEPT !.kind = "raw"], Garbled}
  <2>1. NextLine.kind = "measurement" /\ (pos + 1) - 1 = pos /\ (pos + 1 > 1 => pos > 0)
    BY <1>1
  <2>2. \A i \in DOMAIN file : file[i].kind = "measurement" =>
          i > 1 /\ file[i - 1] \in {[file[i] EXCEPT !.kind = "raw"], Garbled}
    BY DEF BackfillInv, SinkInv, RawLineFirst
  <2>3. /\ pos + 1 > 1
        /\ file[(pos + 1) - 1] \in {[file[pos + 1] EXCEPT !.kind = "raw"], Garbled}
    BY <1>1, <2>1, <2>2
  <2> QED BY <1>1, <2>1, <2>3
<1>3. LineStored(file[pos])
  BY <1>1, <1>2 DEF BackfillInv, PrefixIsStored
<1>4. file[pos] # Garbled
  BY <1>3 DEF LineStored, Garbled
<1>5. file[pos].kind = "raw" /\ file[pos].msg = NextLine.msg
  BY <1>1, <1>2, <1>4 DEF Line
<1>6. PICK r \in raw : r.id = DedupKey(NextLine.msg.body)
  BY <1>3, <1>5 DEF LineStored, HasRaw
<1>7. DedupKey(r.payload) = DedupKey(NextLine.msg.body)
  BY <1>6 DEF BackfillInv, RowsHaveTheirKeys
<1> QED BY <1>7 DEF DedupKey, NaturalKey

(* Each writer implements the ledger, and so do both.                      *)
LEMMA LedgerStep ==
    BackfillInv /\ [Next]_bvars => [Ledger!Next]_<<raw, meas>>
<1> SUFFICES ASSUME BackfillInv, [Next]_bvars, ~UNCHANGED <<raw, meas>>, ~Ledger!Next
             PROVE  FALSE
  OBVIOUS
<1> DEFINE msg == NextLine.msg
           t == NextLine.at
<1>1. CASE /\ Reading /\ NextLine.kind = "raw"
           /\ raw' = InsertRaw(raw, NextRaw) /\ UNCHANGED meas
  <2>1. t \in Times /\ msg \in Messages /\ Admissible(msg, Registry, t + MaxSkew)
    BY <1>1, NextLineWelcome DEF Welcome
  <2>2. ~HasRaw(raw, DedupKey(msg.body)) /\ raw' = raw \cup {RawRecord(msg, t)}
    BY <1>1 DEF NextRaw, InsertRaw, RawRecord
  <2>3. Ledger!Capture(msg, t)
    BY <1>1, <2>1, <2>2, LedgerOperators DEF Ledger!Capture
  <2> QED BY <2>1, <2>3 DEF Ledger!Next
<1>2. CASE /\ Reading /\ NextLine.kind = "measurement"
           /\ AcceptsMeasurement(transformers, NextRow)
           /\ meas' = InsertMeasurement(meas, NextRow) /\ UNCHANGED raw
  <2>1. t \in Times /\ msg \in Messages /\ Admissible(msg, Registry, t + MaxSkew)
    BY <1>2, NextLineWelcome DEF Welcome
  <2>2. ~HasMeasurement(meas, RowKey(NextRow)) /\ meas' = meas \cup {NextRow}
    BY <1>2 DEF InsertMeasurement
  <2>3. FitsColumns(NextRow)
    BY <1>2 DEF AcceptsMeasurement
  <2>4. \E r \in raw : NaturalKey(r.payload) = NaturalKey(msg.body)
    BY <1>2, RawBehindLine
  <2>5. Ledger!Record(msg, t)
    BY <1>2, <2>1, <2>2, <2>3, <2>4, LedgerOperators DEF Ledger!Record, NextRow
  <2> QED BY <2>1, <2>5 DEF Ledger!Next
<1> QED BY <1>1, <1>2, TableSteps

(* The tables only grow, and the rows that come in are well typed and      *)
(* carry their key, whichever writer they come from.                       *)
LEMMA TablesGrow ==
    ASSUME BackfillInv, [Next]_bvars
    PROVE  /\ raw \subseteq raw' /\ meas \subseteq meas'
           /\ raw' \subseteq RawRow(Ids) /\ meas' \subseteq MeasRow(Ids)
           /\ RowsHaveTheirKeys'
<1> USE DEF BackfillInv, BackfillTypeOK
<1>1. CASE UNCHANGED <<raw, meas>>
  BY <1>1 DEF RowsHaveTheirKeys
<1>2. CASE Ledger!Next
  <2>1. PICK msg \in Messages, t \in Times : Ledger!Capture(msg, t) \/ Ledger!Record(msg, t)
    BY <1>2 DEF Ledger!Next
  <2>2. Welcome(msg, t)
    BY <2>1, LedgerOperators DEF Ledger!Capture, Ledger!Record, Welcome
  <2>3. CASE Ledger!Capture(msg, t)
    <3>1. raw' = raw \cup {RawRecord(msg, t)} /\ meas' = meas
      BY <2>3, LedgerOperators DEF Ledger!Capture
    <3>2. RawRecord(msg, t).payload = msg.body
      BY DEF RawRecord
    <3> QED BY <2>2, <3>1, <3>2, WelcomeRecord DEF RowsHaveTheirKeys
  <2>4. CASE Ledger!Record(msg, t)
    <3>1. meas' = meas \cup {MeasurementRow(Normalize(msg.body))} /\ raw' = raw
      BY <2>4, LedgerOperators DEF Ledger!Record
    <3> QED BY <2>1, <3>1, MessageFields, MeasurementRowTyped DEF RowsHaveTheirKeys
  <2> QED BY <2>1, <2>3, <2>4
<1>3. CASE /\ Reading /\ NextLine.kind = "raw"
           /\ raw' = InsertRaw(raw, NextRaw) /\ UNCHANGED meas
  <2>1. NextRaw \in RawRow(Ids) /\ NextRaw.id = DedupKey(NextRaw.payload)
    BY <1>3, NextLineWelcome, WelcomeRecord DEF NextRaw, RawRecord
  <2> QED BY <1>3, <2>1 DEF InsertRaw, RowsHaveTheirKeys
<1>4. CASE /\ Reading /\ NextLine.kind = "measurement"
           /\ AcceptsMeasurement(transformers, NextRow)
           /\ meas' = InsertMeasurement(meas, NextRow) /\ UNCHANGED raw
  <2>1. NextRow \in MeasRow(Ids)
    BY <1>4, NextLineWelcome, MessageFields, MeasurementRowTyped DEF NextRow, Welcome
  <2> QED BY <1>4, <2>1 DEF InsertMeasurement, RowsHaveTheirKeys
<1> QED BY <1>1, <1>2, <1>3, <1>4, TableSteps

-----------------------------------------------------------------------------
(* The replay.                                                             *)
LEMMA ReplayTyped ==
    ASSUME BackfillInv, [Next]_bvars
    PROVE  BackfillTypeOK'
<1> USE DEF BackfillInv, BackfillTypeOK, ReplayStates
<1>1. SinkTypeOK' /\ raw' \subseteq RawRow(Ids) /\ meas' \subseteq MeasRow(Ids)
  BY SinkKept, TablesGrow DEF SinkInv
<1>2. /\ transformers' \subseteq Ids
      /\ replay' \in ReplayStates
      /\ counted' \in [raw : Nat, measurement : Nat]
      /\ dbErrors' \in Nat /\ otherRows' \in Nat
  BY FileMessagesAreMessages
     DEF Next, Sink, OtherWriter, Start, ReplayRaw, ReplayMeasurement, ReplayStops,
         ReplayBreaks, ReplayEnds, Consume, bvars, tables, reader
<1>3. pos' \in {pos, 0} \/ (Reading /\ pos' = pos + 1 /\ UNCHANGED file)
  BY DEF Next, Sink, OtherWriter, Start, ReplayRaw, ReplayMeasurement, ReplayStops,
         ReplayBreaks, ReplayEnds, Consume, bvars, reader, sink
<1>4. pos' \in 0 .. Len(file')
  BY <1>3, FileGrows DEF Reading
<1> QED BY <1>1, <1>2, <1>4

(* A line in the database stays there, and the replay only passes a line   *)
(* it has written.                                                         *)
LEMMA PrefixKept ==
    ASSUME BackfillInv, [Next]_bvars
    PROVE  PrefixIsStored'
<1> SUFFICES ASSUME NEW i \in 1 .. pos' PROVE LineStored(file[i])'
  BY DEF PrefixIsStored
<1>0. pos \in Nat /\ pos <= Len(file)
  BY FileGrows DEF BackfillInv, BackfillTypeOK
<1>1. CASE i \in 1 .. pos
  <2>1. file'[i] = file[i] /\ LineStored(file[i])
    BY <1>0, <1>1, FileGrows DEF BackfillInv, PrefixIsStored
  <2>2. raw \subseteq raw' /\ meas \subseteq meas'
    BY TablesGrow
  <2> QED BY <2>1, <2>2, KeysStay DEF LineStored
<1>2. CASE pos' \in {pos, 0}
  BY <1>0, <1>1, <1>2
<1>3. CASE ReplayRaw
  <2>1. pos' = pos + 1 /\ file' = file /\ raw' = InsertRaw(raw, NextRaw)
    BY <1>3 DEF ReplayRaw, Consume, sink
  <2>2. NextRaw.id = DedupKey(NextLine.msg.body) /\ NextLine.kind = "raw"
    BY <1>3 DEF ReplayRaw, NextRaw, RawRecord
  <2>3. CASE i = pos + 1
    <3>1. file'[i] = NextLine /\ HasRaw(raw', DedupKey(NextLine.msg.body))
      BY <2>1, <2>2, <2>3, InsertRawKeeps DEF NextLine
    <3> QED BY <2>2, <3>1 DEF LineStored, HasRaw
  <2> QED BY <1>0, <1>1, <2>1, <2>3
<1>4. CASE ReplayMeasurement
  <2>1. pos' = pos + 1 /\ file' = file /\ meas' = InsertMeasurement(meas, NextRow)
    BY <1>4 DEF ReplayMeasurement, Consume, sink
  <2>2. NextLine.kind = "measurement" /\ Reading
    BY <1>4 DEF ReplayMeasurement
  <2>3. RowKey(NextRow) = NaturalKey(NextLine.msg.body)
    BY <2>2, NextLineWelcome, MessageFields, MeasurementRowTyped DEF NextRow, Welcome
  <2>4. CASE i = pos + 1
    <3>1. file'[i] = NextLine /\ HasMeasurement(meas', NaturalKey(NextLine.msg.body))
      BY <2>1, <2>3, <2>4, InsertMeasurementKeeps DEF NextLine
    <3> QED BY <2>2, <3>1 DEF LineStored, HasMeasurement
  <2> QED BY <1>0, <1>1, <2>1, <2>4
<1> QED
  BY <1>2, <1>3, <1>4
     DEF Next, Sink, OtherWriter, Start, ReplayStops, ReplayBreaks, ReplayEnds,
         bvars, reader

-----------------------------------------------------------------------------
LEMMA BackfillInvInit == Init => BackfillInv
<1> SUFFICES ASSUME Init PROVE BackfillInv
  OBVIOUS
<1>1. SinkInv
  BY SinkInit DEF Init
<1>2. BackfillTypeOK
  BY <1>1 DEF Init, SinkInv, BackfillTypeOK, SinkTypeOK, ReplayStates
<1> QED BY <1>1, <1>2 DEF Init, BackfillInv, RowsHaveTheirKeys, PrefixIsStored

LEMMA BackfillInvNext == BackfillInv /\ [Next]_bvars => BackfillInv'
BY SinkKept, TablesGrow, ReplayTyped, PrefixKept DEF BackfillInv

LEMMA SpecBackfillInv == Spec => []BackfillInv
BY BackfillInvInit, BackfillInvNext, PTL DEF Spec

(* Every variable of the file, the replay and the tables keeps its type.   *)
THEOREM ReplayTypes == Spec => []BackfillTypeOK
<1>1. BackfillInv => BackfillTypeOK
  BY DEF BackfillInv
<1> QED BY <1>1, SpecBackfillInv, PTL

(* Whatever append fails, whole or halfway, and wherever a restart falls,  *)
(* no reader that stops at a bad line meets a measurement whose raw record *)
(* was not on the line before.                                             *)
THEOREM RawLinesComeFirst == Spec => []RawLineFirst
<1>1. BackfillInv => RawLineFirst
  BY DEF BackfillInv, SinkInv
<1> QED BY <1>1, SpecBackfillInv, PTL

(* A replay has in the database every line it has passed: after statements *)
(* that failed with and without effect, under a growing file and beside a  *)
(* second writer.                                                          *)
THEOREM PassedLinesAreStored == Spec => []PrefixIsStored
<1>1. BackfillInv => PrefixIsStored
  BY DEF BackfillInv
<1> QED BY <1>1, SpecBackfillInv, PTL

(* The replay of a file with holes and a second writer on the same tables  *)
(* together implement the append-only, raw-first ledger.                   *)
THEOREM ReplayImplementsLedger == Spec => LedgerSpec
<1>1. Init => Ledger!Init
  BY DEF Init, Ledger!Init
<1> QED
  BY <1>1, LedgerStep, SpecBackfillInv, PTL
     DEF Spec, LedgerSpec, Ledger!Spec, Ledger!lvars

-----------------------------------------------------------------------------
(* What the ledger promises it keeps, and so does who implements it.       *)
LEMMA CaptureKeepsSound ==
    ASSUME Ledger!Sound, NEW msg \in Messages, NEW t \in Times, Ledger!Capture(msg, t)
    PROVE  Ledger!Sound'
<1> DEFINE row == Ledger!RawRecord(msg, t)
<1>1. /\ Ledger!Admissible(msg, Registry, t + MaxSkew)
      /\ \A r \in raw : r.id # row.id
      /\ raw' = raw \cup {row} /\ meas' = meas
  BY DEF Ledger!Capture, Ledger!HasRaw, Ledger!RawRecord
<1>2. \A r \in raw' : \E m \in Messages, u \in Times :
         Ledger!Admissible(m, Registry, u + MaxSkew) /\ r = Ledger!RawRecord(m, u)
  BY <1>1 DEF Ledger!Sound
<1> HIDE DEF row
<1> QED BY <1>1, <1>2 DEF Ledger!Sound

LEMMA RecordKeepsSound ==
    ASSUME Ledger!Sound, NEW msg \in Messages, NEW t \in Times, Ledger!Record(msg, t)
    PROVE  Ledger!Sound'
<1> DEFINE row == Ledger!MeasurementRow(Ledger!Normalize(msg.body))
<1>1. /\ \E r \in raw : Ledger!NaturalKey(r.payload) = Ledger!NaturalKey(msg.body)
      /\ \A r \in meas : Ledger!RowKey(r) # Ledger!RowKey(row)
      /\ meas' = meas \cup {row} /\ raw' = raw
  BY DEF Ledger!Record, Ledger!HasMeasurement
<1>2. Ledger!RowKey(row) = Ledger!NaturalKey(msg.body)
  <2>1. RowKey(MeasurementRow(Normalize(msg.body))) = NaturalKey(msg.body)
    BY MessageFields, MeasurementRowTyped
  <2> QED BY <2>1, LedgerOperators
<1> HIDE DEF row
<1> QED BY <1>1, <1>2 DEF Ledger!Sound

LEMMA LedgerKeepsSound == Ledger!Sound /\ [Ledger!Next]_<<raw, meas>> => Ledger!Sound'
<1>1. Ledger!Sound /\ UNCHANGED <<raw, meas>> => Ledger!Sound'
  BY DEF Ledger!Sound
<1> QED BY <1>1, CaptureKeepsSound, RecordKeepsSound DEF Ledger!Next

(* Every behaviour of the ledger keeps the tables sound: what the layers   *)
(* behind bronze rely on follows from the abstract specification alone.    *)
THEOREM LedgerIsSound == LedgerSpec => []Ledger!Sound
<1>1. Ledger!Init => Ledger!Sound
  BY DEF Ledger!Init, Ledger!Sound
<1> QED
  BY <1>1, LedgerKeepsSound, PTL DEF LedgerSpec, Ledger!Spec, Ledger!lvars

(* ... and so it holds of the replay and the writer beside it, for any     *)
(* file, number of runs, short writes and failing statements.              *)
THEOREM ReplayKeepsTablesSound == Spec => []TablesAreSound
BY LedgerIsSound, ReplayImplementsLedger, PTL DEF TablesAreSound
=============================================================================
