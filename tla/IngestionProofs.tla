-------------------------- MODULE IngestionProofs --------------------------
(***************************************************************************)
(* What holds of Ingestion, and of IngestionMetrics beside it, for every   *)
(* fleet, every set of messages and every bound.  The proofs rest on one   *)
(* inductive invariant, IInv: the types together with what the handler has *)
(* established at each stage.                                              *)
(***************************************************************************)
EXTENDS IngestionMetrics, BronzeTablesProofs, FiniteSetTheorems

(* The handler holds a message exactly between Receive and Ack, only a     *)
(* live process runs one, and it only writes for an admitted message whose *)
(* key it has claimed; the measurement comes after the raw record.         *)
HandlerInv ==
    /\ stage # "idle" => current \in Messages
    /\ linked => stage # "idle"
    /\ proc = "down" => stage = "idle" /\ ~conn
    /\ stage \in {"raw", "meas"} => Admitted /\ Key \in seen
    /\ stage = "meas" => HasRaw(raw, Key)

(* The fleet is in the database whenever the process is up.                *)
SeedInv == proc # "down" => Registry \subseteq transformers

IInv == TypeOK /\ HandlerInv /\ SeedInv

-----------------------------------------------------------------------------
(* A message has the fields of Message(Ids).                               *)
LEMMA MessageFields ==
    ASSUME NEW msg \in Messages
    PROVE  /\ msg.topic \in Ids \cup {NoTopic}
           /\ msg.body \in Measurement(Ids)
           /\ msg.body.transformerId \in Ids
           /\ msg.body.timestamp \in Timestamp
           /\ msg.body.timestamp.instant \in Nat
BY MessagesAreMessages DEF Message, Measurement, Timestamp

(* The provenance row of an admissible message is well typed.              *)
LEMMA RawRecordType ==
    ASSUME NEW msg \in Messages, NEW t \in Nat, NEW h,
           Admissible(msg, Registry, h)
    PROVE  /\ RawRecord(msg, t) \in RawRow(Ids)
           /\ RawRecord(msg, t).id = DedupKey(msg.body)
           /\ DedupKey(msg.body) \in Ids \X Timestamp
BY MessageFields, MessagesAreMessages, RawRecordTyped DEF Admissible

(* The measurement row of a message is well typed and carries its natural  *)
(* key: Normalize leaves the key alone.                                    *)
LEMMA MeasurementRowType ==
    ASSUME NEW msg \in Messages
    PROVE  /\ MeasurementRow(Normalize(msg.body)) \in MeasRow(Ids)
           /\ RowKey(MeasurementRow(Normalize(msg.body))) = NaturalKey(msg.body)
BY MessageFields, MeasurementRowTyped

(* A later clock admits what an earlier one did.                           *)
LEMMA AdmissibleLater ==
    ASSUME NEW msg \in Messages, NEW h \in Int, NEW k \in Int, h <= k,
           Admissible(msg, Registry, h)
    PROVE  Admissible(msg, Registry, k)
BY MessageFields DEF Admissible, Valid

LEMMA UnackedType ==
    ASSUME TypeOK, HandlerInv
    PROVE  Unacked \in Seq(Messages)
<1>1. Held \in Seq(Messages)
  BY DEF Held, HandlerInv
<1> QED BY <1>1 DEF Unacked, TypeOK

-----------------------------------------------------------------------------
LEMMA InitIInv == Init => IInv
<1> SUFFICES ASSUME Init PROVE IInv
  OBVIOUS
<1> USE DEF Init
<1>1. TypeOK
  <2>1. count \in [Faults -> Nat]
    BY DEF Faults
  <2>2. metrics \in [Counters -> Nat]
    BY DEF ZeroMetrics
  <2>3. proc \in ProcStates /\ stage \in Stages
    BY DEF ProcStates, Stages
  <2>4. now \in 0 .. MaxNow
    BY BoundsAreNaturals
  <2>5. /\ queue \in Seq(Messages)
        /\ inflight \in Seq(Messages)
        /\ unrouted \in Seq(Messages)
    OBVIOUS
  <2>6. /\ {subscribed, conn, route, linked} \subseteq BOOLEAN
        /\ current \in Messages \cup {NoMessage}
        /\ owed \subseteq Messages /\ seen \subseteq Ids \X Timestamp
        /\ transformers \subseteq Ids
        /\ raw \subseteq RawRow(Ids) /\ meas \subseteq MeasRow(Ids)
    OBVIOUS
  <2> HIDE DEF Init
  <2> QED BY <2>1, <2>2, <2>3, <2>4, <2>5, <2>6 DEF TypeOK
<1>2. HandlerInv
  BY DEF HandlerInv
<1>3. SeedInv
  BY DEF SeedInv
<1> QED BY <1>1, <1>2, <1>3 DEF IInv

(* The environment and the broker never touch the process, the handler's   *)
(* stage or the database.                                                  *)
LEMMA PublishIInv ==
    ASSUME IInv, NEW msg \in Messages, Publish(msg)
    PROVE  IInv'
<1> USE DEF Publish, Happens, process, memory, handler, database, IInv
<1>1. TypeOK'
  BY DEF TypeOK, Faults
<1>2. HandlerInv'
  BY DEF HandlerInv, Admitted, Key
<1>3. SeedInv'
  BY DEF SeedInv
<1> QED BY <1>1, <1>2, <1>3

LEMMA TickIInv == IInv /\ Tick => IInv'
<1> SUFFICES ASSUME IInv, Tick PROVE IInv'
  OBVIOUS
<1> USE DEF Tick, broker, process, memory, handler, database, IInv
<1>1. TypeOK'
  BY BoundsAreNaturals DEF TypeOK
<1>2. HandlerInv'
  <2>1. current \in Messages /\ Admitted => Admitted'
    <3> SUFFICES ASSUME current \in Messages, Admitted PROVE Admitted'
      OBVIOUS
    <3>1. now + MaxSkew \in Int /\ now' + MaxSkew \in Int
          /\ now + MaxSkew <= now' + MaxSkew
      BY BoundsAreNaturals DEF TypeOK
    <3> QED BY <3>1, AdmissibleLater DEF Admitted
  <2> QED BY <2>1 DEF HandlerInv, Key
<1>3. SeedInv'
  BY DEF SeedInv
<1> QED BY <1>1, <1>2, <1>3

LEMMA BrokerIInv == IInv /\ Broker => IInv'
<1> SUFFICES ASSUME IInv, Broker PROVE IInv'
  OBVIOUS
<1> USE DEF environment, process, memory, handler, database, broker, IInv
<1>1. CASE Send
  <2> USE <1>1 DEF Send
  <2>1. TypeOK'
    BY DEF TypeOK
  <2>2. HandlerInv'
    BY DEF HandlerInv, Admitted, Key
  <2>3. SeedInv'
    BY DEF SeedInv
  <2> QED BY <2>1, <2>2, <2>3
<1>2. CASE TakeUnrouted
  <2> USE <1>2 DEF TakeUnrouted
  <2>1. TypeOK'
    BY DEF TypeOK
  <2>2. HandlerInv'
    BY DEF HandlerInv, Admitted, Key
  <2>3. SeedInv'
    BY DEF SeedInv
  <2> QED BY <2>1, <2>2, <2>3
<1>3. CASE ConnectionLost
  <2> USE <1>3 DEF ConnectionLost, KeepUnacked, Happens
  <2>1. TypeOK'
    <3>1. inflight' \in Seq(Messages) /\ unrouted' \in Seq(Messages)
      BY UnackedType
    <3>2. count' \in [Faults -> Nat]
      BY DEF TypeOK, Faults
    <3> QED BY <3>1, <3>2 DEF TypeOK
  <2>2. HandlerInv'
    BY DEF HandlerInv, Admitted, Key
  <2>3. SeedInv'
    BY DEF SeedInv
  <2> QED BY <2>1, <2>2, <2>3
<1>4. CASE Reconnect
  <2> USE <1>4 DEF Reconnect
  <2>1. TypeOK'
    BY DEF TypeOK
  <2>2. HandlerInv'
    BY DEF HandlerInv, Admitted, Key
  <2>3. SeedInv'
    BY DEF SeedInv
  <2> QED BY <2>1, <2>2, <2>3
<1>5. CASE TakeSubscribe
  <2> USE <1>5 DEF TakeSubscribe
  <2>1. TypeOK'
    BY DEF TypeOK
  <2>2. HandlerInv'
    BY DEF HandlerInv, Admitted, Key
  <2>3. SeedInv'
    BY DEF SeedInv
  <2> QED BY <2>1, <2>2, <2>3
<1> QED BY <1>1, <1>2, <1>3, <1>4, <1>5 DEF Broker

(* A process that dies takes the handler with it; the session keeps what   *)
(* was not acknowledged.                                                   *)
LEMMA DieIInv ==
    ASSUME IInv, Die, UNCHANGED now, subscribed' \in BOOLEAN,
           count' \in [Faults -> Nat]
    PROVE  IInv'
<1> USE DEF Die, KeepUnacked, database, IInv
<1>1. inflight' \in Seq(Messages) /\ unrouted' \in Seq(Messages)
  BY UnackedType
<1>2. metrics' \in [Counters -> Nat]
  BY DEF ZeroMetrics
<1>3. TypeOK'
  BY <1>1, <1>2 DEF TypeOK, ProcStates, Stages
<1>4. HandlerInv'
  BY DEF HandlerInv
<1>5. SeedInv'
  BY DEF SeedInv
<1> QED BY <1>3, <1>4, <1>5

LEMMA LifecycleIInv == IInv /\ Lifecycle => IInv'
<1> SUFFICES ASSUME IInv, Lifecycle PROVE IInv'
  OBVIOUS
<1> USE DEF environment, process, memory, handler, database, broker, IInv
<1>1. CASE Boot
  <2> USE <1>1 DEF Boot
  <2>1. TypeOK'
    BY MessagesAreMessages DEF TypeOK, ProcStates
  <2>2. HandlerInv'
    BY DEF HandlerInv, Admitted, Key
  <2>3. SeedInv'
    BY DEF SeedInv
  <2> QED BY <2>1, <2>2, <2>3
<1>2. CASE Connect
  <2> USE <1>2 DEF Connect
  <2>1. TypeOK'
    BY DEF TypeOK, ProcStates
  <2>2. HandlerInv'
    BY DEF HandlerInv, Admitted, Key
  <2>3. SeedInv'
    BY DEF SeedInv
  <2> QED BY <2>1, <2>2, <2>3
<1>3. CASE Subscribe
  <2> USE <1>3 DEF Subscribe
  <2>1. TypeOK'
    BY DEF TypeOK, ProcStates
  <2>2. HandlerInv'
    BY DEF HandlerInv, Admitted, Key
  <2>3. SeedInv'
    BY DEF SeedInv
  <2> QED BY <2>1, <2>2, <2>3
<1>4. CASE Subscribed
  <2> USE <1>4 DEF Subscribed
  <2>1. TypeOK'
    BY DEF TypeOK, ProcStates
  <2>2. HandlerInv'
    BY DEF HandlerInv, Admitted, Key
  <2>3. SeedInv'
    BY DEF SeedInv
  <2> QED BY <2>1, <2>2, <2>3
<1>5. CASE SubscribeFails
  <2>1. count' \in [Faults -> Nat]
    BY <1>5 DEF SubscribeFails, TypeOK, Faults
  <2> QED BY <1>5, <2>1, DieIInv DEF SubscribeFails, TypeOK
<1>6. CASE Crash
  <2>1. count' \in [Faults -> Nat]
    BY <1>6 DEF Crash, Happens, TypeOK, Faults
  <2> QED BY <1>6, <2>1, DieIInv DEF Crash, TypeOK
<1>7. CASE Unsubscribe
  <2> USE <1>7 DEF Unsubscribe, Happens
  <2>1. TypeOK'
    <3>1. count' \in [Faults -> Nat]
      BY DEF TypeOK, Faults
    <3> QED BY <3>1 DEF TypeOK, ProcStates
  <2>2. HandlerInv'
    BY DEF HandlerInv, Admitted, Key
  <2>3. SeedInv'
    BY DEF SeedInv
  <2> QED BY <2>1, <2>2, <2>3
<1>8. CASE Exit
  BY <1>8, DieIInv DEF Exit, TypeOK
<1> QED BY <1>1, <1>2, <1>3, <1>4, <1>5, <1>6, <1>7, <1>8 DEF Lifecycle

LEMMA BumpType ==
    ASSUME TypeOK, NEW c \in Counters, Bump(c)
    PROVE  metrics' \in [Counters -> Nat]
BY DEF TypeOK, Bump

LEMMA ReceiveIInv == IInv /\ Receive => IInv'
<1> SUFFICES ASSUME IInv, Receive PROVE IInv'
  OBVIOUS
<1> USE DEF Receive, environment, process, database, IInv
<1>1. metrics' \in [Counters -> Nat]
  BY BumpType DEF Counters
<1>2. current' \in Messages /\ inflight' \in Seq(Messages)
  BY DEF TypeOK
<1>3. TypeOK'
  BY <1>1, <1>2 DEF TypeOK, Stages
<1>4. HandlerInv'
  BY <1>2 DEF HandlerInv
<1>5. SeedInv'
  BY DEF SeedInv
<1> QED BY <1>3, <1>4, <1>5

(* What a write step may rely on.                                          *)
LEMMA WritingFacts ==
    ASSUME IInv, stage \in {"raw", "meas"}
    PROVE  /\ current \in Messages
           /\ now \in Nat /\ now + MaxSkew \in Int
           /\ CapturedRaw \subseteq RawRow(Ids)
           /\ raw \subseteq CapturedRaw
           /\ HasRaw(raw, Key) => HasRaw(CapturedRaw, Key)
           /\ HasRaw(CapturedRaw, Key)
           /\ InsertMeasurement(meas, Row) \subseteq MeasRow(Ids)
<1>1. current \in Messages /\ Admitted
  BY DEF IInv, HandlerInv
<1>2. now \in Nat /\ now + MaxSkew \in Int
  BY BoundsAreNaturals DEF IInv, TypeOK
<1>3. RawRecord(current, now) \in RawRow(Ids) /\ RawRecord(current, now).id = Key
  BY <1>1, <1>2, RawRecordType DEF Admitted, Key
<1>4. CapturedRaw \subseteq RawRow(Ids)
  BY <1>3 DEF CapturedRaw, InsertRaw, IInv, TypeOK
<1>5. Row \in MeasRow(Ids)
  BY <1>1, MeasurementRowType DEF Row
<1>6. InsertMeasurement(meas, Row) \subseteq MeasRow(Ids)
  BY <1>5 DEF InsertMeasurement, IInv, TypeOK
<1> QED BY <1>1, <1>2, <1>3, <1>4, <1>6, InsertRawKeeps DEF CapturedRaw

LEMMA HandleIInv == IInv /\ Handle => IInv'
<1> SUFFICES ASSUME IInv, Handle PROVE IInv'
  OBVIOUS
<1> USE DEF environment, process, memory, handler, database, broker, IInv
<1>1. CASE Reject
  <2> USE <1>1 DEF Reject
  <2>1. TypeOK'
    <3>1. metrics' \in [Counters -> Nat]
      BY BumpType DEF Counters
    <3> QED BY <3>1 DEF TypeOK, Stages
  <2>2. HandlerInv'
    BY DEF HandlerInv, Admitted, Key
  <2>3. SeedInv'
    BY DEF SeedInv
  <2> QED BY <2>1, <2>2, <2>3
<1>2. CASE Duplicate
  <2> USE <1>2 DEF Duplicate
  <2>1. TypeOK'
    <3>1. metrics' \in [Counters -> Nat]
      BY BumpType DEF Counters
    <3> QED BY <3>1 DEF TypeOK, Stages
  <2>2. HandlerInv'
    BY DEF HandlerInv, Admitted, Key
  <2>3. SeedInv'
    BY DEF SeedInv
  <2> QED BY <2>1, <2>2, <2>3
<1>3. CASE Claim
  <2> USE <1>3 DEF Claim
  <2>1. TypeOK'
    <3>1. Key \in Ids \X Timestamp
      BY RawRecordType, BoundsAreNaturals DEF TypeOK, HandlerInv, Key, Admitted
    <3> QED BY <3>1 DEF TypeOK, Stages
  <2>2. HandlerInv'
    BY DEF HandlerInv, Admitted, Key
  <2>3. SeedInv'
    BY DEF SeedInv
  <2> QED BY <2>1, <2>2, <2>3
<1>4. CASE WriteRaw
  <2> USE <1>4 DEF WriteRaw
  <2>1. TypeOK'
    <3>1. CapturedRaw \subseteq RawRow(Ids)
      BY WritingFacts
    <3> QED BY <3>1 DEF TypeOK, Stages
  <2>2. HandlerInv'
    BY WritingFacts DEF HandlerInv, Admitted, Key
  <2>3. SeedInv'
    BY DEF SeedInv
  <2> QED BY <2>1, <2>2, <2>3
<1>5. CASE WriteRawFails
  <2> USE <1>5 DEF WriteRawFails, Happens
  <2>1. TypeOK'
    <3>1. metrics' \in [Counters -> Nat]
      BY BumpType DEF Counters
    <3>2. CapturedRaw \subseteq RawRow(Ids)
      BY WritingFacts
    <3>3. count' \in [Faults -> Nat]
      BY DEF TypeOK, Faults
    <3> QED BY <3>1, <3>2, <3>3 DEF TypeOK, Stages
  <2>2. HandlerInv'
    BY DEF HandlerInv
  <2>3. SeedInv'
    BY DEF SeedInv
  <2> QED BY <2>1, <2>2, <2>3
<1>6. CASE WriteMeasurement
  <2> USE <1>6 DEF WriteMeasurement
  <2>1. TypeOK'
    <3>1. metrics' \in [Counters -> Nat]
      BY BumpType DEF Counters
    <3>2. InsertMeasurement(meas, Row) \subseteq MeasRow(Ids)
      BY WritingFacts
    <3> QED BY <3>1, <3>2 DEF TypeOK, Stages
  <2>2. HandlerInv'
    BY DEF HandlerInv
  <2>3. SeedInv'
    BY DEF SeedInv
  <2> QED BY <2>1, <2>2, <2>3
<1>7. CASE MeasurementRefused
  <2> USE <1>7 DEF MeasurementRefused
  <2>1. TypeOK'
    <3>1. metrics' \in [Counters -> Nat]
      BY BumpType DEF Counters
    <3> QED BY <3>1 DEF TypeOK, Stages
  <2>2. HandlerInv'
    BY DEF HandlerInv
  <2>3. SeedInv'
    BY DEF SeedInv
  <2> QED BY <2>1, <2>2, <2>3
<1>8. CASE WriteMeasurementFails
  <2> USE <1>8 DEF WriteMeasurementFails, Happens
  <2>1. TypeOK'
    <3>1. metrics' \in [Counters -> Nat]
      BY BumpType DEF Counters
    <3>2. InsertMeasurement(meas, Row) \subseteq MeasRow(Ids)
      BY WritingFacts
    <3>3. count' \in [Faults -> Nat]
      BY DEF TypeOK, Faults
    <3> QED BY <3>1, <3>2, <3>3 DEF TypeOK, Stages
  <2>2. HandlerInv'
    BY DEF HandlerInv
  <2>3. SeedInv'
    BY DEF SeedInv
  <2> QED BY <2>1, <2>2, <2>3
<1>9. CASE Ack
  <2> USE <1>9 DEF Ack
  <2>1. TypeOK'
    BY DEF TypeOK, Stages
  <2>2. HandlerInv'
    BY DEF HandlerInv
  <2>3. SeedInv'
    BY DEF SeedInv
  <2> QED BY <2>1, <2>2, <2>3
<1> QED
  BY <1>1, <1>2, <1>3, <1>4, <1>5, <1>6, <1>7, <1>8, <1>9 DEF Handle

LEMMA StutterIInv == IInv /\ UNCHANGED vars => IInv'
BY DEF IInv, TypeOK, HandlerInv, SeedInv, Admitted, Key, vars,
       environment, broker, process, memory, handler, database

LEMMA NextIInv == IInv /\ [Next]_vars => IInv'
BY PublishIInv, TickIInv, BrokerIInv, LifecycleIInv, ReceiveIInv, HandleIInv,
   StutterIInv
   DEF Next

(* The inductive invariant.                                                *)
THEOREM SpecIInv == Spec => []IInv
BY InitIInv, NextIInv, PTL DEF Spec

(* Type correctness: every variable of the service, the session and the    *)
(* database keeps its type, for every fleet, message set and bound.        *)
THEOREM SpecTypeOK == Spec => []TypeOK
<1>1. IInv => TypeOK
  BY DEF IInv
<1> QED BY <1>1, SpecIInv, PTL

-----------------------------------------------------------------------------
(* Every step leaves the two tables alone or is one of the two writes.     *)
LEMMA DatabaseSteps ==
    ASSUME IInv, [Next]_vars
    PROVE  /\ now' \in Nat /\ now <= now'
           /\ \/ UNCHANGED <<raw, meas>>
              \/ /\ stage = "raw" /\ raw' = CapturedRaw
                 /\ meas' = meas
              \/ /\ stage = "meas" /\ FitsColumns(Row)
                 /\ raw' = raw /\ meas' = InsertMeasurement(meas, Row)
<1> USE DEF environment, process, memory, handler, database, broker
<1>0. now \in Nat
  BY BoundsAreNaturals DEF IInv, TypeOK
<1>1. CASE \E msg \in Messages : Publish(msg)
  BY <1>0, <1>1 DEF Publish
<1>2. CASE Tick
  BY <1>0, <1>2 DEF Tick
<1>3. CASE Broker
  BY <1>0, <1>3 DEF Broker, Send, TakeUnrouted, ConnectionLost, Reconnect, TakeSubscribe
<1>4. CASE Lifecycle
  BY <1>0, <1>4
     DEF Lifecycle, Boot, Connect, Subscribe, Subscribed, SubscribeFails,
         Crash, Unsubscribe, Exit, Die
<1>5. CASE Receive
  BY <1>0, <1>5 DEF Receive
<1>6. CASE Handle
  BY <1>0, <1>6
     DEF Handle, Reject, Duplicate, Claim, WriteRaw, WriteRawFails,
         WriteMeasurement, MeasurementRefused, WriteMeasurementFails, Ack
<1>7. CASE UNCHANGED vars
  BY <1>0, <1>7 DEF vars
<1> QED BY <1>1, <1>2, <1>3, <1>4, <1>5, <1>6, <1>7 DEF Next

(* The two tables: admitted raw records, and one behind every measurement. *)
StoreInv == RawIsAdmitted /\ MeasurementHasRaw

LEMMA InitStoreInv == Init => StoreInv
BY DEF Init, StoreInv, RawIsAdmitted, MeasurementHasRaw

LEMMA RawIsAdmittedStep ==
    ASSUME IInv, RawIsAdmitted, [Next]_vars
    PROVE  RawIsAdmitted'
<1> SUFFICES ASSUME NEW r \in raw'
             PROVE  /\ r.ingestedAt <= now'
                    /\ r.id = DedupKey(r.payload)
                    /\ r.topic = r.payload.transformerId
                    /\ r.transformerId = r.payload.transformerId
                    /\ Valid(r.payload, Registry, r.ingestedAt + MaxSkew)
  BY DEF RawIsAdmitted
<1>0. now \in Nat /\ now' \in Nat /\ now <= now'
  BY DatabaseSteps, BoundsAreNaturals DEF IInv, TypeOK
<1>1. CASE r \in raw
  <2>1. r.ingestedAt \in Nat
    BY <1>1 DEF IInv, TypeOK, RawRow
  <2> QED BY <1>0, <1>1, <2>1 DEF RawIsAdmitted
<1>2. CASE r \notin raw
  <2>1. stage = "raw" /\ r = RawRecord(current, now)
    BY <1>2, DatabaseSteps DEF CapturedRaw, InsertRaw
  <2>2. Admissible(current, Registry, now + MaxSkew)
    BY <2>1 DEF IInv, HandlerInv, Admitted
  <2> QED BY <1>0, <2>1, <2>2 DEF RawRecord, Admissible
<1> QED BY <1>1, <1>2

(* Where a measurement is written, its raw record is there already.        *)
LEMMA RawBehindMeasurement ==
    ASSUME IInv, RawIsAdmitted, stage = "meas"
    PROVE  /\ \E r \in raw : NaturalKey(r.payload) = NaturalKey(current.body)
           /\ RowKey(Row) = NaturalKey(current.body)
<1>1. PICK r \in raw : r.id = DedupKey(current.body)
  BY DEF IInv, HandlerInv, HasRaw, Key
<1>2. DedupKey(r.payload) = DedupKey(current.body)
  BY <1>1 DEF RawIsAdmitted
<1>3. NaturalKey(r.payload) = NaturalKey(current.body)
  BY <1>2 DEF DedupKey, NaturalKey
<1>4. RowKey(Row) = NaturalKey(current.body)
  BY MeasurementRowType DEF IInv, HandlerInv, Row
<1> QED BY <1>3, <1>4

LEMMA MeasurementHasRawStep ==
    ASSUME IInv, RawIsAdmitted, MeasurementHasRaw, [Next]_vars
    PROVE  MeasurementHasRaw'
<1> SUFFICES ASSUME NEW row \in meas'
             PROVE  \E r \in raw' : NaturalKey(r.payload) = RowKey(row)
  BY DEF MeasurementHasRaw
<1>1. raw \subseteq raw'
  BY DatabaseSteps, InsertRawKeeps DEF CapturedRaw
<1>2. CASE row \in meas
  BY <1>1, <1>2 DEF MeasurementHasRaw
<1>3. CASE row \notin meas
  <2>1. stage = "meas" /\ row = Row
    BY <1>3, DatabaseSteps DEF InsertMeasurement
  <2> QED BY <1>1, <2>1, RawBehindMeasurement
<1> QED BY <1>2, <1>3

LEMMA StoreInvStep == IInv /\ StoreInv /\ [Next]_vars => StoreInv'
BY RawIsAdmittedStep, MeasurementHasRawStep DEF StoreInv

LEMMA SpecStoreInv == Spec => []StoreInv
BY InitStoreInv, StoreInvStep, SpecIInv, PTL DEF Spec

(* A measurement never precedes its raw record, whatever crash, failed     *)
(* statement, redelivery or second payload under the same key comes        *)
(* between the two writes of handleMessage.                                *)
THEOREM SpecMeasurementHasRaw == Spec => []MeasurementHasRaw
<1>1. StoreInv => MeasurementHasRaw
  BY DEF StoreInv
<1> QED BY <1>1, SpecStoreInv, PTL

(* Nothing the validator or the topic check refuses is ever in the raw     *)
(* table.                                                                  *)
THEOREM SpecRawIsAdmitted == Spec => []RawIsAdmitted
<1>1. StoreInv => RawIsAdmitted
  BY DEF StoreInv
<1> QED BY <1>1, SpecStoreInv, PTL

(* No INSERT of the handler is ever refused by a foreign key.              *)
THEOREM SpecForeignKeyHolds == Spec => []ForeignKeyHolds
<1>1. IInv => ForeignKeyHolds
  BY DEF IInv, HandlerInv, SeedInv, Admitted, Admissible, Valid,
         ForeignKeyHolds
<1> QED BY <1>1, SpecIInv, PTL

-----------------------------------------------------------------------------
(* One process: what it has captured it remembers, and so the raw row of   *)
(* the key in its hands is its own.                                        *)
CapturedInv ==
    /\ \A r \in raw : r.id \in seen
    /\ stage = "raw" => ~HasRaw(raw, Key)
    /\ stage = "meas" => \E r \in raw : r.payload = current.body
    /\ \A row \in meas : \E r \in raw : row = MeasurementRow(Normalize(r.payload))

MemoryInv ==
    /\ proc = "stopping" => count["stops"] # 0
    /\ OneProcess => CapturedInv

LEMMA InitMemoryInv == Init => MemoryInv
BY DEF Init, MemoryInv, CapturedInv

(* What has happened once has happened: counts only grow.                  *)
LEMMA CountsGrow ==
    ASSUME IInv, [Next]_vars, NEW f \in Faults
    PROVE  count[f] \in Nat /\ count'[f] \in Nat /\ count[f] <= count'[f]
<1> USE DEF environment, process, memory, handler, broker, database
<1>0. count \in [Faults -> Nat]
  BY DEF IInv, TypeOK
<1>1. ASSUME NEW g \in Faults, count' = [count EXCEPT ![g] = @ + 1]
      PROVE  count'[f] \in Nat /\ count[f] <= count'[f]
  BY <1>0, <1>1
<1>2. {"publishes", "crashes", "stops", "failedStarts", "disconnects", "storeErrors"}
        \subseteq Faults
  BY DEF Faults
<1>3. \/ UNCHANGED count
      \/ \E g \in Faults : count' = [count EXCEPT ![g] = @ + 1]
  <2>1. CASE \E msg \in Messages : Publish(msg)
    BY <1>2, <2>1 DEF Publish, Happens
  <2>2. CASE Tick \/ Receive \/ UNCHANGED vars
    BY <2>2 DEF Tick, Receive, vars
  <2>3. CASE Broker
    BY <1>2, <2>3 DEF Broker, Send, TakeUnrouted, ConnectionLost, Reconnect, TakeSubscribe, Happens
  <2>4. CASE Lifecycle
    BY <1>2, <2>4 DEF Lifecycle, Boot, Connect, Subscribe, Subscribed, SubscribeFails,
                      Crash, Unsubscribe, Exit, Happens
  <2>5. CASE Handle
    BY <1>2, <2>5 DEF Handle, Reject, Duplicate, Claim, WriteRaw, WriteRawFails,
           WriteMeasurement, MeasurementRefused, WriteMeasurementFails, Ack, Happens
  <2> QED BY <2>1, <2>2, <2>3, <2>4, <2>5 DEF Next
<1> QED BY <1>0, <1>1, <1>3

(* As long as the process lives, only the handler touches the memory and   *)
(* the tables.                                                             *)
LEMMA OneProcessSteps ==
    ASSUME IInv, MemoryInv, [Next]_vars, OneProcess'
    PROVE  /\ OneProcess
           /\ UNCHANGED <<memory, stage, current, raw, meas>> \/ Receive \/ Handle
<1> USE DEF environment, process, memory, handler, broker, database
<1>1. OneProcess
  <2> SUFFICES ASSUME NEW f \in {"crashes", "stops", "failedStarts"} PROVE count[f] = 0
    BY DEF OneProcess
  <2>1. f \in Faults /\ count'[f] = 0
    BY DEF OneProcess, Faults
  <2> QED BY <2>1, CountsGrow
<1>2. count \in [Faults -> Nat] /\ {"crashes", "failedStarts"} \subseteq Faults
  BY DEF IInv, TypeOK, Faults
<1>3. ~Crash
  BY <1>1, <1>2 DEF Crash, Happens, OneProcess
<1>4. ~SubscribeFails
  BY <1>1, <1>2 DEF SubscribeFails, OneProcess
<1>5. ~Exit
  BY <1>1 DEF Exit, MemoryInv, OneProcess
<1>6. CASE \E msg \in Messages : Publish(msg)
  BY <1>1, <1>6 DEF Publish
<1>7. CASE Tick \/ UNCHANGED vars
  BY <1>1, <1>7 DEF Tick, vars
<1>8. CASE Broker
  BY <1>1, <1>8 DEF Broker, Send, TakeUnrouted, ConnectionLost, Reconnect, TakeSubscribe
<1>9. CASE Lifecycle
  BY <1>1, <1>3, <1>4, <1>5, <1>9
     DEF Lifecycle, Boot, Connect, Subscribe, Subscribed, Unsubscribe
<1> QED BY <1>1, <1>6, <1>7, <1>8, <1>9 DEF Next

LEMMA CapturedInvStep ==
    ASSUME IInv, CapturedInv, Receive \/ Handle
    PROVE  CapturedInv'
<1> USE DEF environment, process, memory, handler, broker, database
<1>0. stage # "idle" => current \in Messages
  BY DEF IInv, HandlerInv
<1>1. CASE Receive
  BY <1>1 DEF Receive, CapturedInv
<1>2. CASE Reject \/ Duplicate \/ MeasurementRefused \/ Ack
  BY <1>2 DEF Reject, Duplicate, MeasurementRefused, Ack, CapturedInv
<1>3. CASE Claim
  <2>1. ~HasRaw(raw, Key)
    BY <1>3 DEF Claim, CapturedInv, HasRaw
  <2>2. ~HasRaw(raw', Key') /\ stage' = "raw"
    BY <1>3, <2>1 DEF Claim, Key
  <2> QED BY <1>3, <2>2 DEF Claim, CapturedInv
<1>4. CASE WriteRaw \/ WriteRawFails
  <2> DEFINE row == RawRecord(current, now)
  <2>1. stage = "raw" /\ seen' = seen /\ meas' = meas /\ current' = current
    BY <1>4 DEF WriteRaw, WriteRawFails
  <2>2. /\ row.id = Key /\ row.payload = current.body
        /\ Key \in seen /\ ~HasRaw(raw, Key)
    BY <2>1 DEF RawRecord, Key, IInv, HandlerInv, CapturedInv
  <2>3. CapturedRaw = raw \cup {row}
    BY <2>2 DEF CapturedRaw, InsertRaw
  <2> HIDE DEF row
  <2>4. \/ raw' = raw /\ stage' = "ack"
        \/ raw' = raw \cup {row} /\ stage' \in {"ack", "meas"}
    BY <1>4, <2>3 DEF WriteRaw, WriteRawFails
  <2> QED BY <2>1, <2>2, <2>4 DEF CapturedInv
<1>5. CASE WriteMeasurement \/ WriteMeasurementFails
  <2>1. /\ seen' = seen /\ raw' = raw /\ stage' = "ack"
        /\ meas' = meas \/ meas' = meas \cup {Row}
    BY <1>5 DEF WriteMeasurement, WriteMeasurementFails, InsertMeasurement
  <2>2. \E r \in raw : Row = MeasurementRow(Normalize(r.payload))
    BY <1>5 DEF WriteMeasurement, WriteMeasurementFails, CapturedInv, Row
  <2> QED BY <2>1, <2>2 DEF CapturedInv
<1> QED BY <1>1, <1>2, <1>3, <1>4, <1>5 DEF Handle

LEMMA MemoryInvStep == IInv /\ MemoryInv /\ [Next]_vars => MemoryInv'
<1> SUFFICES ASSUME IInv, MemoryInv, [Next]_vars PROVE MemoryInv'
  OBVIOUS
<1>1. ASSUME OneProcess' PROVE CapturedInv'
  <2>1. CapturedInv
    BY <1>1, OneProcessSteps DEF MemoryInv
  <2>2. CASE UNCHANGED <<memory, stage, current, raw, meas>>
    BY <2>1, <2>2 DEF CapturedInv, Key, memory
  <2>3. CASE Receive \/ Handle
    BY <2>1, <2>3, CapturedInvStep
  <2> QED BY <1>1, <2>2, <2>3, OneProcessSteps
<1>2. ASSUME proc' = "stopping" PROVE count'["stops"] # 0
  <2>1. "stops" \in Faults /\ count \in [Faults -> Nat]
    BY DEF IInv, TypeOK, Faults
  <2>2. CASE proc = "stopping"
    <3>1. count["stops"] # 0
      BY <2>2 DEF MemoryInv
    <3> QED BY <2>1, <3>1, CountsGrow
  <2>3. CASE proc # "stopping"
    <3>1. Unsubscribe
      BY <1>2, <2>3
         DEF Next, Publish, Tick, Broker, Send, TakeUnrouted, ConnectionLost,
             Reconnect, TakeSubscribe, Lifecycle, Boot, Connect, Subscribe, Subscribed,
             SubscribeFails, Crash, Exit, Die, Receive, Handle, Reject, Duplicate,
             Claim, WriteRaw, WriteRawFails, WriteMeasurement, MeasurementRefused,
             WriteMeasurementFails, Ack, vars, process
    <3> QED BY <2>1, <3>1 DEF Unsubscribe, Happens
  <2> QED BY <2>2, <2>3
<1> QED BY <1>1, <1>2 DEF MemoryInv

(* As long as the process lives, two readings of one key are never mixed:  *)
(* for any messages, redeliveries and failing statements, a measurement is *)
(* computed from the payload of a raw row.                                 *)
THEOREM SpecReadingsAreNotMixed == Spec => []ReadingsAreNotMixed
<1>1. MemoryInv => ReadingsAreNotMixed
  BY DEF MemoryInv, CapturedInv, ReadingsAreNotMixed
<1> QED BY <1>1, InitMemoryInv, MemoryInvStep, SpecIInv, PTL DEF Spec

-----------------------------------------------------------------------------
(* The service implements the append-only ledger.                          *)
(* The ledger has its own instance of the contract's operators: they are   *)
(* the same ones.                                                          *)
LEMMA LedgerOperators ==
    ASSUME NEW msg, NEW h, NEW t, NEW k, NEW row, NEW m
    PROVE  /\ Ledger!Admissible(msg, Registry, h) = Admissible(msg, Registry, h)
           /\ Ledger!DedupKey(m) = DedupKey(m)
           /\ Ledger!NaturalKey(m) = NaturalKey(m)
           /\ Ledger!RawRecord(msg, t) = RawRecord(msg, t)
           /\ Ledger!HasRaw(raw, k) = HasRaw(raw, k)
           /\ Ledger!HasMeasurement(meas, k) = HasMeasurement(meas, k)
           /\ Ledger!RowKey(row) = RowKey(row)
           /\ Ledger!FitsColumns(row) <=> FitsColumns(row)
           /\ Ledger!MeasurementRow(Ledger!Normalize(m)) = MeasurementRow(Normalize(m))
<1>1. Ledger!Admissible(msg, Registry, h) = Admissible(msg, Registry, h)
  BY DEF Ledger!Admissible, Admissible, Ledger!NoTopic, NoTopic,
         Ledger!Valid, Valid, Ledger!Plausible, Plausible, Ledger!States, States,
         Ledger!SchemaVersion, SchemaVersion
<1>2. /\ Ledger!DedupKey(m) = DedupKey(m)
      /\ Ledger!NaturalKey(m) = NaturalKey(m)
      /\ Ledger!RawRecord(msg, t) = RawRecord(msg, t)
      /\ Ledger!RowKey(row) = RowKey(row)
  BY DEF Ledger!DedupKey, DedupKey, Ledger!NaturalKey, NaturalKey,
         Ledger!RawRecord, RawRecord, Ledger!RowKey, RowKey
<1>3. Ledger!HasRaw(raw, k) = HasRaw(raw, k)
  BY DEF Ledger!HasRaw, HasRaw
<1>4. Ledger!HasMeasurement(meas, k) = HasMeasurement(meas, k)
  BY DEF Ledger!HasMeasurement, HasMeasurement, Ledger!RowKey, RowKey
<1>5. Ledger!FitsColumns(row) <=> FitsColumns(row)
  <2>1. /\ Ledger!States = States
        /\ Ledger!WidestCurrent = WidestCurrent
        /\ Ledger!WidestVoltage = WidestVoltage
    BY DEF Ledger!States, States, Ledger!WidestCurrent, WidestCurrent,
           Ledger!WidestVoltage, WidestVoltage
  <2> QED BY <2>1 DEF Ledger!FitsColumns, FitsColumns
<1>6. Ledger!Normalize(m) = Normalize(m)
  BY DEF Ledger!Normalize, Normalize, Ledger!ClassifyState, ClassifyState
<1>7. \A n : Ledger!MeasurementRow(n) = MeasurementRow(n)
  BY DEF Ledger!MeasurementRow, MeasurementRow, Ledger!Hundredths, Hundredths
<1> QED BY <1>1, <1>2, <1>3, <1>4, <1>5, <1>6, <1>7

LEMMA LedgerStep ==
    IInv /\ StoreInv /\ [Next]_vars => [Ledger!Next]_<<raw, meas>>
<1> SUFFICES ASSUME IInv, StoreInv, [Next]_vars, ~UNCHANGED <<raw, meas>>
             PROVE  Ledger!Next
  OBVIOUS
<1>0. stage \in {"raw", "meas"} =>
        /\ current \in Messages /\ now \in 0 .. MaxNow
        /\ Admissible(current, Registry, now + MaxSkew)
  BY DEF IInv, TypeOK, HandlerInv, Admitted
<1>1. CASE stage = "raw" /\ raw' = CapturedRaw /\ meas' = meas
  <2>1. ~HasRaw(raw, DedupKey(current.body))
        /\ raw' = raw \cup {RawRecord(current, now)}
    BY <1>1 DEF CapturedRaw, InsertRaw, RawRecord
  <2>2. Ledger!Capture(current, now)
    BY <1>0, <1>1, <2>1, LedgerOperators DEF Ledger!Capture
  <2> QED BY <1>0, <1>1, <2>2 DEF Ledger!Next
<1>2. CASE stage = "meas" /\ FitsColumns(Row) /\ raw' = raw
           /\ meas' = InsertMeasurement(meas, Row)
  <2>1. ~HasMeasurement(meas, RowKey(Row)) /\ meas' = meas \cup {Row}
    BY <1>2 DEF InsertMeasurement
  <2>2. \E r \in raw : NaturalKey(r.payload) = NaturalKey(current.body)
    BY <1>2, RawBehindMeasurement DEF StoreInv
  <2>3. Ledger!Record(current, now)
    BY <1>0, <1>2, <2>1, <2>2, LedgerOperators DEF Ledger!Record, Row
  <2> QED BY <1>0, <1>2, <2>3 DEF Ledger!Next
<1> QED BY <1>1, <1>2, DatabaseSteps

(* Bronze is append-only, idempotent and raw-first, seen from the layers   *)
(* that read it: every behaviour of the service is one of BronzeLedger.    *)
THEOREM SpecLedger == Spec => LedgerSpec
<1>1. Init => Ledger!Init
  BY DEF Init, Ledger!Init
<1> QED
  BY <1>1, LedgerStep, SpecIInv, SpecStoreInv, PTL
     DEF Spec, LedgerSpec, Ledger!Spec, Ledger!lvars

-----------------------------------------------------------------------------
(* The counters.  CountersAgree is inductive once the set of remembered    *)
(* keys is known to be finite.                                             *)
CountInv == IsFiniteSet(seen) /\ CountersAgree

LEMMA InitCountInv == Init => CountInv
<1> SUFFICES ASSUME Init PROVE CountInv
  OBVIOUS
<1>1. IsFiniteSet(seen) /\ Cardinality(seen) = 0
  BY FS_EmptySet DEF Init
<1>2. \A c \in Counters : metrics[c] = 0
  BY DEF Init, ZeroMetrics
<1> QED BY <1>1, <1>2 DEF Init, CountInv, CountersAgree, Processed, Counters

(* A process that dies forgets its keys and its counters together.         *)
LEMMA DieCountInv == Die => CountInv'
<1> SUFFICES ASSUME Die PROVE CountInv'
  OBVIOUS
<1>1. IsFiniteSet(seen') /\ Cardinality(seen') = 0
  BY FS_EmptySet DEF Die
<1>2. \A c \in Counters : metrics'[c] = 0
  BY DEF Die, ZeroMetrics
<1> QED BY <1>1, <1>2 DEF Die, CountInv, CountersAgree, Processed, Counters

LEMMA HandleCountInv == IInv /\ CountInv /\ (Receive \/ Handle) => CountInv'
<1> SUFFICES ASSUME IInv, CountInv, Receive \/ Handle PROVE CountInv'
  OBVIOUS
<1> USE DEF CountInv, CountersAgree, Processed
<1>0. /\ metrics \in [Counters -> Nat]
      /\ IsFiniteSet(seen) /\ Cardinality(seen) \in Nat
      /\ {metrics["received"], metrics["accepted"], metrics["rejected"],
          metrics["duplicates"], metrics["storeErrors"]} \subseteq Nat
  BY FS_CardinalityType DEF IInv, TypeOK, Counters
<1>1. CASE Receive
  BY <1>0, <1>1 DEF Receive, Bump, Counters
<1>2. CASE Reject
  BY <1>0, <1>2 DEF Reject, Bump, Counters
<1>3. CASE Duplicate
  BY <1>0, <1>3 DEF Duplicate, Bump, Counters
<1>4. CASE Claim
  <2>1. IsFiniteSet(seen') /\ Cardinality(seen') = Cardinality(seen) + 1
    BY <1>0, <1>4, FS_AddElement DEF Claim
  <2> QED BY <1>0, <1>4, <2>1 DEF Claim
<1>5. CASE WriteRaw
  BY <1>0, <1>5 DEF WriteRaw, memory
<1>6. CASE WriteRawFails
  BY <1>0, <1>6 DEF WriteRawFails, Bump, Counters
<1>7. CASE WriteMeasurement
  BY <1>0, <1>7 DEF WriteMeasurement, Bump, Counters
<1>8. CASE MeasurementRefused
  BY <1>0, <1>8 DEF MeasurementRefused, Bump, Counters
<1>9. CASE WriteMeasurementFails
  BY <1>0, <1>9 DEF WriteMeasurementFails, Bump, Counters
<1>10. CASE Ack
  BY <1>0, <1>10 DEF Ack, memory
<1> QED
  BY <1>1, <1>2, <1>3, <1>4, <1>5, <1>6, <1>7, <1>8, <1>9, <1>10 DEF Handle

LEMMA NextCountInv == IInv /\ CountInv /\ [Next]_vars => CountInv'
<1> SUFFICES ASSUME IInv, CountInv, [Next]_vars PROVE CountInv'
  OBVIOUS
<1> USE DEF memory, handler
<1>1. ASSUME UNCHANGED <<seen, metrics, stage>> PROVE CountInv'
  BY <1>1 DEF CountInv, CountersAgree, Processed
<1>2. CASE \E msg \in Messages : Publish(msg)
  BY <1>1, <1>2 DEF Publish
<1>3. CASE Tick
  BY <1>1, <1>3 DEF Tick
<1>4. CASE Broker
  BY <1>1, <1>4 DEF Broker, Send, TakeUnrouted, ConnectionLost, Reconnect, TakeSubscribe
<1>5. CASE Lifecycle
  BY <1>1, <1>5, DieCountInv
     DEF Lifecycle, Boot, Connect, Subscribe, Subscribed, SubscribeFails,
         Crash, Unsubscribe, Exit
<1>6. CASE Receive \/ Handle
  BY <1>6, HandleCountInv
<1>7. CASE UNCHANGED vars
  BY <1>1, <1>7 DEF vars
<1> QED BY <1>2, <1>3, <1>4, <1>5, <1>6, <1>7 DEF Next

LEMMA SpecCountInv == Spec => []CountInv
BY InitCountInv, NextCountInv, SpecIInv, PTL DEF Spec

(* Every received message ends in exactly one outcome counter, and the     *)
(* remembered keys are those accepted, lost to a store error or being      *)
(* written: for any number of messages, redeliveries and restarts.         *)
THEOREM SpecCountersAgree == Spec => []CountersAgree
<1>1. CountInv => CountersAgree
  BY DEF CountInv
<1> QED BY <1>1, SpecCountInv, PTL

-----------------------------------------------------------------------------
(* The accepted counter.  Alone, AcceptedIsStored is not inductive: after  *)
(* a restart a redelivered sample may find both its rows stored, and the   *)
(* counter rises while the set of stored keys does not.  So the key in the *)
(* handler's hands is left out of the count.                               *)
Settled ==
    {k \in seen : StoredKey(k) /\ ~(stage \in {"raw", "meas"} /\ k = Key)}

AcceptedInv ==
    /\ IsFiniteSet(seen)
    /\ metrics["accepted"] <= Cardinality(Settled)

(* Rows are never taken away, so a stored key stays stored.                *)
LEMMA StoredKeyStays ==
    ASSUME IInv, [Next]_vars, NEW k, StoredKey(k)
    PROVE  StoredKey(k)'
<1>1. raw \subseteq raw' /\ meas \subseteq meas'
  BY DatabaseSteps, InsertRawKeeps DEF CapturedRaw, InsertMeasurement
<1> QED BY <1>1 DEF StoredKey, HasRaw, HasMeasurement

(* A larger finite set counts at least as much.                            *)
LEMMA SettledGrows ==
    ASSUME IInv, AcceptedInv, IsFiniteSet(seen'),
           Settled \subseteq Settled', metrics'["accepted"] = metrics["accepted"]
    PROVE  AcceptedInv'
<1>1. IsFiniteSet(Settled')
  BY FS_Subset DEF Settled
<1>2. /\ Cardinality(Settled) <= Cardinality(Settled')
      /\ Cardinality(Settled) \in Nat /\ Cardinality(Settled') \in Nat
  BY <1>1, FS_Subset, FS_CardinalityType
<1>3. metrics["accepted"] \in Nat
  BY DEF IInv, TypeOK, Counters
<1> QED BY <1>2, <1>3 DEF AcceptedInv

LEMMA InitAcceptedInv == Init => AcceptedInv
<1> SUFFICES ASSUME Init PROVE AcceptedInv
  OBVIOUS
<1>1. Settled = {} /\ metrics["accepted"] = 0
  BY DEF Init, Settled, ZeroMetrics, Counters
<1> QED BY <1>1, FS_EmptySet DEF Init, AcceptedInv

LEMMA DieAcceptedInv == Die => AcceptedInv'
<1> SUFFICES ASSUME Die PROVE AcceptedInv'
  OBVIOUS
<1>1. Settled' = {} /\ metrics'["accepted"] = 0
  BY DEF Die, Settled, ZeroMetrics, Counters
<1> QED BY <1>1, FS_EmptySet DEF Die, AcceptedInv

(* The measurement is the second of the two rows: with it the key is       *)
(* stored.                                                                 *)
LEMMA WriteMeasurementStores ==
    ASSUME IInv, WriteMeasurement
    PROVE  StoredKey(Key)'
<1> USE DEF WriteMeasurement
<1>1. HasRaw(raw', Key')
  BY DEF IInv, HandlerInv, Key
<1>2. HasMeasurement(meas', RowKey(Row))
  BY DEF InsertMeasurement, HasMeasurement
<1>3. RowKey(Row) = <<Key[1], Key[2].instant>>
  BY MeasurementRowType DEF IInv, HandlerInv, Row, Key, DedupKey, NaturalKey
<1> QED BY <1>1, <1>2, <1>3 DEF StoredKey, Key

(* The one step that counts an acceptance has just made its key stored.    *)
LEMMA WriteMeasurementAcceptedInv ==
    ASSUME IInv, AcceptedInv, WriteMeasurement
    PROVE  AcceptedInv'
<1> USE DEF WriteMeasurement, process, broker, environment
<1>1. [Next]_vars
  BY DEF Next, Handle
<1>2. Key \in seen /\ Key \notin Settled
  BY DEF IInv, HandlerInv, Settled
<1>3. StoredKey(Key)'
  BY WriteMeasurementStores
<1>4. Settled \cup {Key} \subseteq Settled'
  <2>1. Settled \subseteq Settled'
    BY <1>1, StoredKeyStays DEF Settled
  <2>2. Key' = Key
    BY DEF Key
  <2> QED BY <1>2, <1>3, <2>1, <2>2 DEF Settled
<1>5. IsFiniteSet(Settled) /\ IsFiniteSet(Settled')
  BY FS_Subset DEF Settled, AcceptedInv
<1>6. Cardinality(Settled \cup {Key}) = Cardinality(Settled) + 1
      /\ IsFiniteSet(Settled \cup {Key})
  BY <1>2, <1>5, FS_AddElement
<1>7. Cardinality(Settled) + 1 <= Cardinality(Settled')
  BY <1>4, <1>5, <1>6, FS_Subset
<1>8. metrics["accepted"] \in Nat /\ metrics'["accepted"] = metrics["accepted"] + 1
  BY DEF IInv, TypeOK, Bump, Counters
<1>9. Cardinality(Settled) \in Nat /\ Cardinality(Settled') \in Nat
  BY <1>5, FS_CardinalityType
<1> QED BY <1>7, <1>8, <1>9 DEF AcceptedInv

LEMMA NextAcceptedInv == IInv /\ AcceptedInv /\ [Next]_vars => AcceptedInv'
<1> SUFFICES ASSUME IInv, AcceptedInv, [Next]_vars PROVE AcceptedInv'
  OBVIOUS
<1> USE DEF memory, handler
<1>1. ASSUME UNCHANGED <<seen, metrics, stage, current>> PROVE AcceptedInv'
  <2>1. Settled \subseteq Settled'
    BY <1>1, StoredKeyStays DEF Settled, Key
  <2> QED BY <1>1, <2>1, SettledGrows DEF AcceptedInv
<1>2. CASE \E msg \in Messages : Publish(msg)
  BY <1>1, <1>2 DEF Publish
<1>3. CASE Tick
  BY <1>1, <1>3 DEF Tick
<1>4. CASE Broker
  BY <1>1, <1>4 DEF Broker, Send, TakeUnrouted, ConnectionLost, Reconnect, TakeSubscribe
<1>5. CASE Lifecycle
  BY <1>1, <1>5, DieAcceptedInv
     DEF Lifecycle, Boot, Connect, Subscribe, Subscribed, SubscribeFails,
         Crash, Unsubscribe, Exit
<1>6. CASE Handle /\ WriteMeasurement
  BY <1>6, WriteMeasurementAcceptedInv
<1>7. CASE Claim
  <2>1. IsFiniteSet(seen')
    BY <1>7, FS_AddElement DEF Claim, AcceptedInv
  <2>2. Settled \subseteq Settled'
    BY <1>7, StoredKeyStays DEF Claim, Settled, Key
  <2>3. metrics' = metrics
    BY <1>7 DEF Claim
  <2> QED BY <2>1, <2>2, <2>3, SettledGrows
<1>8. CASE Receive \/ (Handle /\ ~WriteMeasurement /\ ~Claim)
  <2>1. seen' = seen /\ metrics'["accepted"] = metrics["accepted"]
    BY <1>8
       DEF Receive, Handle, Reject, Duplicate, WriteRaw, WriteRawFails,
           MeasurementRefused, WriteMeasurementFails, Ack, Bump, Counters,
           IInv, TypeOK
  <2>2. stage' \in {"raw", "meas"} => stage \in {"raw", "meas"} /\ Key' = Key
    BY <1>8
       DEF Receive, Handle, Reject, Duplicate, WriteRaw, WriteRawFails,
           MeasurementRefused, WriteMeasurementFails, Ack, Key
  <2>3. Settled \subseteq Settled'
    BY <2>1, <2>2, StoredKeyStays DEF Settled
  <2> QED BY <2>1, <2>3, SettledGrows DEF AcceptedInv
<1>9. CASE UNCHANGED vars
  BY <1>1, <1>9 DEF vars
<1> QED
  BY <1>2, <1>3, <1>4, <1>5, <1>6, <1>7, <1>8, <1>9 DEF Next

(* What the process reports as accepted is in the database: its counter    *)
(* never exceeds the number of remembered keys with both rows stored.      *)
THEOREM SpecAcceptedIsStored == Spec => []AcceptedIsStored
<1>1. IInv /\ AcceptedInv => AcceptedIsStored
  <2> SUFFICES ASSUME IInv, AcceptedInv PROVE AcceptedIsStored
    OBVIOUS
  <2> DEFINE S == {k \in seen : StoredKey(k)}
  <2>1. IsFiniteSet(S) /\ Settled \subseteq S
    BY FS_Subset DEF AcceptedInv, Settled
  <2>2. /\ Cardinality(Settled) <= Cardinality(S)
        /\ Cardinality(Settled) \in Nat /\ Cardinality(S) \in Nat
    BY <2>1, FS_Subset, FS_CardinalityType
  <2>3. metrics["accepted"] \in Nat
    BY DEF IInv, TypeOK, Counters
  <2> QED BY <2>2, <2>3 DEF AcceptedInv, AcceptedIsStored
<1> QED
  BY <1>1, InitAcceptedInv, NextAcceptedInv, SpecIInv, PTL DEF Spec
-----------------------------------------------------------------------------
(* The session.  What is owed and not stored yet can only leave the        *)
(* session through the handler, so three things are followed: what a       *)
(* remembered key stands for, what a handler that has returned leaves      *)
(* behind, and where an owed message is.                                   *)
Occurs(msg, s) == \E i \in DOMAIN s : s[i] = msg

(* A message under key k that the service may admit and a CHECK constraint *)
(* refuses.                                                                *)
Refusable(k) ==
    \E m \in Messages :
        /\ DedupKey(m.body) = k
        /\ Admissible(m, Registry, MaxNow + MaxSkew)
        /\ ~FitsColumns(MeasurementRow(Normalize(m.body)))

SeenInv ==
    \A k \in seen :
        \/ StoredKey(k)
        \/ stage \in {"raw", "meas"} /\ k = Key
        \/ Refusable(k)

DoneInv == stage = "ack" /\ Storable(current) => StoredKey(Key)

QueueInv == Len(queue) <= count["publishes"]

KeptInv == SeenInv /\ DoneInv /\ QueueInv /\ HeldOrStored

LEMMA OccursConcat ==
    ASSUME NEW S, NEW s \in Seq(S), NEW t \in Seq(S), NEW msg
    PROVE  Occurs(msg, s \o t) <=> Occurs(msg, s) \/ Occurs(msg, t)
<1>1. /\ s \o t \in Seq(S) /\ Len(s \o t) = Len(s) + Len(t)
      /\ Len(s) \in Nat /\ Len(t) \in Nat
      /\ DOMAIN s = 1 .. Len(s) /\ DOMAIN t = 1 .. Len(t)
      /\ DOMAIN (s \o t) = 1 .. Len(s \o t)
  OBVIOUS
<1>2. \A i \in DOMAIN s : i \in DOMAIN (s \o t) /\ (s \o t)[i] = s[i]
  BY <1>1
<1>3. \A i \in DOMAIN t : /\ i + Len(s) \in DOMAIN (s \o t)
                         /\ (s \o t)[i + Len(s)] = t[i]
  BY <1>1
<1>4. ASSUME NEW i \in DOMAIN (s \o t), i \notin DOMAIN s
      PROVE  i - Len(s) \in DOMAIN t /\ (s \o t)[i] = t[i - Len(s)]
  BY <1>1, <1>4
<1> QED BY <1>2, <1>3, <1>4 DEF Occurs

LEMMA OccursAppend ==
    ASSUME NEW S, NEW s \in Seq(S), NEW m \in S, NEW msg
    PROVE  Occurs(msg, Append(s, m)) <=> Occurs(msg, s) \/ msg = m
<1>1. /\ Len(s) \in Nat /\ DOMAIN s = 1 .. Len(s)
      /\ DOMAIN Append(s, m) = 1 .. Len(s) + 1
      /\ Append(s, m)[Len(s) + 1] = m
      /\ \A i \in 1 .. Len(s) : Append(s, m)[i] = s[i]
  OBVIOUS
<1> QED BY <1>1 DEF Occurs

LEMMA OccursHeadTail ==
    ASSUME NEW S, NEW s \in Seq(S), s # <<>>, NEW msg
    PROVE  Occurs(msg, s) <=> msg = Head(s) \/ Occurs(msg, Tail(s))
<1>1. /\ Len(s) \in Nat /\ Len(s) >= 1 /\ DOMAIN s = 1 .. Len(s)
      /\ DOMAIN Tail(s) = 1 .. Len(s) - 1
      /\ Head(s) = s[1]
      /\ \A i \in 1 .. Len(s) - 1 : Tail(s)[i] = s[i + 1]
  OBVIOUS
<1>2. \A i \in 2 .. Len(s) : i - 1 \in DOMAIN Tail(s) /\ Tail(s)[i - 1] = s[i]
  BY <1>1
<1>3. ASSUME Occurs(msg, s) PROVE msg = Head(s) \/ Occurs(msg, Tail(s))
  <2>1. PICK i \in DOMAIN s : s[i] = msg
    BY <1>3 DEF Occurs
  <2>2. CASE i = 1
    BY <1>1, <2>1, <2>2
  <2>3. CASE i # 1
    <3>1. i - 1 \in DOMAIN Tail(s) /\ Tail(s)[i - 1] = msg
      BY <1>1, <1>2, <2>1, <2>3
    <3> QED BY <3>1 DEF Occurs
  <2> QED BY <2>2, <2>3
<1>4. ASSUME Occurs(msg, Tail(s)) PROVE Occurs(msg, s)
  <2>1. PICK i \in DOMAIN Tail(s) : Tail(s)[i] = msg
    BY <1>4 DEF Occurs
  <2>2. i + 1 \in DOMAIN s /\ s[i + 1] = msg
    BY <1>1, <2>1
  <2> QED BY <2>2 DEF Occurs
<1>5. ASSUME msg = Head(s) PROVE Occurs(msg, s)
  BY <1>1, <1>5 DEF Occurs
<1> QED BY <1>3, <1>4, <1>5

(* Where a message of the session can be, before a step and after it.      *)
Kept(msg) ==
    \/ Occurs(msg, queue) \/ Occurs(msg, unrouted)
    \/ linked /\ msg = current
    \/ Occurs(msg, inflight)

LEMMA HeldIsCurrent ==
    /\ IInv => Held \in Seq(Messages)
    /\ \A msg : Occurs(msg, Held) <=> linked /\ msg = current
BY DEF Held, IInv, HandlerInv, Occurs

LEMMA OccursUnacked ==
    ASSUME NEW u \in Seq(Messages), NEW h \in Seq(Messages),
           NEW i \in Seq(Messages), NEW msg
    PROVE  Occurs(msg, u \o h \o i)
             <=> Occurs(msg, u) \/ Occurs(msg, h) \/ Occurs(msg, i)
<1>1. u \o h \in Seq(Messages)
  OBVIOUS
<1>2. Occurs(msg, u \o h \o i) <=> Occurs(msg, u \o h) \/ Occurs(msg, i)
  BY <1>1, OccursConcat
<1>3. Occurs(msg, u \o h) <=> Occurs(msg, u) \/ Occurs(msg, h)
  BY OccursConcat
<1> QED BY <1>2, <1>3

LEMMA SessionParts ==
    ASSUME IInv, IInv', NEW msg
    PROVE  /\ InSession(msg) <=> Kept(msg)
           /\ InSession(msg)' <=> Kept(msg)'
<1>1. /\ unrouted \in Seq(Messages) /\ inflight \in Seq(Messages)
      /\ unrouted' \in Seq(Messages) /\ inflight' \in Seq(Messages)
  BY DEF IInv, TypeOK
<1>2. InSession(msg) <=> Kept(msg)
  <2>1. Occurs(msg, Unacked) <=> \/ Occurs(msg, unrouted) \/ Occurs(msg, Held)
                                \/ Occurs(msg, inflight)
    BY <1>1, HeldIsCurrent, OccursUnacked DEF Unacked
  <2> QED BY <2>1, HeldIsCurrent DEF InSession, Kept, Occurs
<1>3. InSession(msg)' <=> Kept(msg)'
  <2>1. Held' \in Seq(Messages)
    BY DEF Held, IInv, HandlerInv
  <2>2. Occurs(msg, Unacked') <=> \/ Occurs(msg, unrouted') \/ Occurs(msg, Held')
                                 \/ Occurs(msg, inflight')
    BY <1>1, <2>1, OccursUnacked DEF Unacked
  <2>3. Occurs(msg, Held') <=> linked' /\ msg = current'
    BY DEF Held, Occurs
  <2> QED BY <2>2, <2>3 DEF InSession, Kept, Occurs
<1> QED BY <1>2, <1>3

(* What a step does to the handler, with a database that answers.          *)
LEMMA HandlerSteps ==
    ASSUME IInv, [Next]_vars, MaxStoreErrors = 0
    PROVE  \/ UNCHANGED <<seen, stage, current>>
           \/ seen' = {} /\ stage' = "idle"
           \/ Receive
           \/ Reject \/ Duplicate \/ Claim \/ WriteRaw
           \/ WriteMeasurement \/ MeasurementRefused \/ Ack
<1> USE DEF memory, handler
<1>1. CASE \E msg \in Messages : Publish(msg)
  BY <1>1 DEF Publish
<1>2. CASE Tick
  BY <1>2 DEF Tick
<1>3. CASE Broker
  BY <1>3 DEF Broker, Send, TakeUnrouted, ConnectionLost, Reconnect, TakeSubscribe
<1>4. CASE Lifecycle
  BY <1>4 DEF Lifecycle, Boot, Connect, Subscribe, Subscribed, SubscribeFails,
              Crash, Unsubscribe, Exit, Die
<1>5. CASE Handle
  <2>1. ~ count["storeErrors"] < MaxStoreErrors
    BY DEF IInv, TypeOK, Faults
  <2>2. ~WriteRawFails /\ ~WriteMeasurementFails
    BY <2>1 DEF WriteRawFails, WriteMeasurementFails, Happens
  <2> QED BY <1>5, <2>2 DEF Handle
<1>6. CASE UNCHANGED vars
  BY <1>6 DEF vars
<1> QED BY <1>1, <1>2, <1>3, <1>4, <1>5, <1>6 DEF Next

(* A message the handler admitted is admissible at the end of the clock.   *)
LEMMA AdmittedAtTheEnd ==
    ASSUME IInv, stage \in {"raw", "meas"}
    PROVE  current \in Messages /\ Admissible(current, Registry, MaxNow + MaxSkew)
<1>1. current \in Messages /\ Admissible(current, Registry, now + MaxSkew)
  BY DEF IInv, HandlerInv, Admitted
<1>2. /\ now + MaxSkew \in Int /\ MaxNow + MaxSkew \in Int
      /\ now + MaxSkew <= MaxNow + MaxSkew
  BY BoundsAreNaturals DEF IInv, TypeOK
<1> QED BY <1>1, <1>2, AdmissibleLater

(* A remembered key is stored, being written, or that of a refusable row.  *)
LEMMA SeenInvStep ==
    ASSUME IInv, SeenInv, [Next]_vars, MaxStoreErrors = 0
    PROVE  SeenInv'
<1> SUFFICES ASSUME NEW k \in seen'
             PROVE  \/ StoredKey(k)'
                    \/ stage' \in {"raw", "meas"} /\ k = Key'
                    \/ Refusable(k)
  BY DEF SeenInv, Refusable
<1>1. ASSUME k \in seen, ~(stage \in {"raw", "meas"} /\ k = Key)
      PROVE  StoredKey(k)' \/ Refusable(k)
  BY <1>1, StoredKeyStays DEF SeenInv
<1>2. CASE UNCHANGED <<seen, stage, current>>
  BY <1>1, <1>2 DEF Key
<1>3. CASE seen' = {}
  BY <1>3
<1>4. CASE Receive \/ Reject \/ Duplicate \/ Ack
  BY <1>1, <1>4 DEF Receive, Reject, Duplicate, Ack, memory
<1>5. CASE Claim
  BY <1>1, <1>5 DEF Claim, Key
<1>6. CASE WriteRaw
  BY <1>1, <1>6 DEF WriteRaw, memory, Key
<1>7. CASE WriteMeasurement
  <2>1. seen' = seen /\ Key' = Key
    BY <1>7 DEF WriteMeasurement, Key
  <2> QED BY <1>1, <1>7, <2>1, WriteMeasurementStores DEF StoredKey
<1>8. CASE MeasurementRefused
  <2>1. seen' = seen
    BY <1>8 DEF MeasurementRefused
  <2>2. Refusable(Key)
    BY <1>8, AdmittedAtTheEnd DEF MeasurementRefused, Refusable, Key, Row
  <2> QED BY <1>1, <2>1, <2>2
<1> QED BY <1>2, <1>3, <1>4, <1>5, <1>6, <1>7, <1>8, HandlerSteps

(* A storable message is admitted at any instant and by any columns.       *)
LEMMA StorableFacts ==
    ASSUME IInv, NEW msg \in Messages, Storable(msg)
    PROVE  /\ Admissible(msg, Registry, now + MaxSkew)
           /\ FitsColumns(MeasurementRow(Normalize(msg.body)))
           /\ ~Refusable(DedupKey(msg.body))
<1>1. /\ now + MaxSkew \in Int /\ MaxNow + MaxSkew \in Int /\ MaxSkew \in Int
      /\ MaxSkew <= now + MaxSkew /\ MaxSkew <= MaxNow + MaxSkew
  BY BoundsAreNaturals DEF IInv, TypeOK
<1>2. /\ Admissible(msg, Registry, now + MaxSkew)
      /\ Admissible(msg, Registry, MaxNow + MaxSkew)
  BY <1>1, AdmissibleLater DEF Storable
<1> QED BY <1>2 DEF Storable, Refusable

(* When the handler returns from a storable message, both its rows are     *)
(* stored, by this delivery or by an earlier one.                          *)
LEMMA DoneInvStep ==
    ASSUME IInv, SeenInv, DoneInv, [Next]_vars, MaxStoreErrors = 0
    PROVE  DoneInv'
<1> SUFFICES ASSUME stage' = "ack", Storable(current')
             PROVE  StoredKey(Key)'
  BY DEF DoneInv, Storable
<1> USE DEF memory, handler, process, broker, environment
<1>0. StoredKey(Key) /\ current' = current => StoredKey(Key)'
  <2> SUFFICES ASSUME StoredKey(Key), current' = current PROVE StoredKey(Key)'
    OBVIOUS
  <2>1. Key' = Key
    BY DEF Key
  <2> DEFINE k == Key
  <2>2. StoredKey(k)
    OBVIOUS
  <2> QED BY <2>1, DatabaseSteps, InsertRawKeeps
             DEF CapturedRaw, InsertMeasurement, StoredKey, HasRaw, HasMeasurement
<1>1. CASE UNCHANGED <<seen, stage, current>>
  BY <1>0, <1>1 DEF DoneInv, Key
<1>2. CASE Receive \/ Claim \/ WriteRaw \/ Ack
  BY <1>2 DEF Receive, Claim, WriteRaw, Ack
<1>3. CASE Reject
  <2>1. current \in Messages /\ current' = current
    BY <1>3 DEF Reject, IInv, HandlerInv
  <2> QED BY <1>3, <2>1, StorableFacts DEF Reject, Admitted
<1>4. CASE Duplicate
  <2>1. current \in Messages /\ current' = current /\ Key \in seen
        /\ stage = "received"
    BY <1>4 DEF Duplicate, IInv, HandlerInv
  <2>2. ~Refusable(Key)
    BY <2>1, StorableFacts DEF Key
  <2> QED BY <1>0, <2>1, <2>2 DEF SeenInv
<1>5. CASE WriteMeasurement
  BY <1>5, WriteMeasurementStores
<1>6. CASE MeasurementRefused
  <2>1. current \in Messages /\ current' = current
    BY <1>6 DEF MeasurementRefused, IInv, HandlerInv
  <2> QED BY <1>6, <2>1, StorableFacts DEF MeasurementRefused, Row
<1> QED BY <1>1, <1>2, <1>3, <1>4, <1>5, <1>6, HandlerSteps

(* A message leaves the session only with the acknowledgement of its       *)
(* handler.                                                                *)
LEMMA KeptSteps ==
    ASSUME IInv, IInv', [Next]_vars, NEW msg, Kept(msg)
    PROVE  Kept(msg)' \/ (Ack /\ msg = current)
<1> USE DEF memory, handler, process, broker, environment
<1>0. /\ queue \in Seq(Messages) /\ inflight \in Seq(Messages)
      /\ unrouted \in Seq(Messages)
  BY DEF IInv, TypeOK
<1>1. CASE UNCHANGED <<queue, unrouted, inflight, linked, current>>
  BY <1>1 DEF Kept
<1>2. ASSUME NEW m \in Messages, Publish(m) PROVE Kept(msg)'
  <2>1. Occurs(msg, queue) => Occurs(msg, queue')
    BY <1>0, <1>2, OccursAppend DEF Publish
  <2> QED BY <1>2, <2>1 DEF Publish, Kept
<1>3. CASE Send
  <2>1. Occurs(msg, queue) => msg = Head(queue) \/ Occurs(msg, queue')
    BY <1>0, <1>3, OccursHeadTail DEF Send
  <2>2. /\ Occurs(msg, inflight) => Occurs(msg, inflight')
        /\ msg = Head(queue) => Occurs(msg, inflight')
    BY <1>0, <1>3, OccursAppend DEF Send
  <2> QED BY <1>3, <2>1, <2>2 DEF Send, Kept
<1>4. CASE TakeUnrouted
  <2>1. Occurs(msg, inflight) => msg = Head(inflight) \/ Occurs(msg, inflight')
    BY <1>0, <1>4, OccursHeadTail DEF TakeUnrouted
  <2>2. /\ Occurs(msg, unrouted) => Occurs(msg, unrouted')
        /\ msg = Head(inflight) => Occurs(msg, unrouted')
    BY <1>0, <1>4, OccursAppend DEF TakeUnrouted
  <2> QED BY <1>4, <2>1, <2>2 DEF TakeUnrouted, Kept
<1>5. CASE KeepUnacked /\ UNCHANGED queue
  <2>1. Occurs(msg, Unacked) <=> \/ Occurs(msg, unrouted) \/ Occurs(msg, Held)
                                \/ Occurs(msg, inflight)
    BY <1>0, HeldIsCurrent, OccursUnacked DEF Unacked
  <2> QED BY <1>5, <2>1, HeldIsCurrent DEF KeepUnacked, Kept
<1>6. CASE Receive
  <2>1. ~linked /\ linked'
    BY <1>6 DEF Receive, IInv, HandlerInv
  <2>2. Occurs(msg, inflight) => msg = current' \/ Occurs(msg, inflight')
    BY <1>0, <1>6, OccursHeadTail DEF Receive
  <2> QED BY <1>6, <2>1, <2>2 DEF Receive, Kept
<1>7. CASE Lifecycle
  BY <1>1, <1>5, <1>7
     DEF Lifecycle, Boot, Connect, Subscribe, Subscribed, SubscribeFails,
         Crash, Unsubscribe, Exit, Die
<1>8. CASE Handle
  <2>1. CASE Ack
    BY <1>8, <2>1 DEF Ack, Kept
  <2> QED BY <1>1, <1>8, <2>1
             DEF Handle, Reject, Duplicate, Claim, WriteRaw, WriteRawFails,
                 WriteMeasurement, MeasurementRefused, WriteMeasurementFails
<1>9. CASE Tick \/ Reconnect \/ TakeSubscribe \/ UNCHANGED vars
  BY <1>1, <1>9 DEF Tick, Reconnect, TakeSubscribe, vars
<1>10. CASE ConnectionLost
  BY <1>5, <1>10 DEF ConnectionLost
<1> QED
  BY <1>2, <1>3, <1>4, <1>6, <1>7, <1>8, <1>9, <1>10 DEF Next, Broker

(* The queue holds no more than was published, so that it is never full    *)
(* when it has room for every message.                                     *)
LEMMA QueueInvStep ==
    ASSUME IInv, QueueInv, [Next]_vars
    PROVE  QueueInv'
<1> USE DEF memory, handler, process, broker, environment
<1>0. /\ queue \in Seq(Messages) /\ Len(queue) \in Nat
      /\ count["publishes"] \in Nat /\ count \in [Faults -> Nat]
      /\ "publishes" \in Faults
  BY DEF IInv, TypeOK, Faults
<1>1. ASSUME UNCHANGED queue, count'["publishes"] = count["publishes"]
      PROVE  QueueInv'
  BY <1>1 DEF QueueInv
<1>2. ASSUME NEW m \in Messages, Publish(m) PROVE QueueInv'
  <2>1. Len(Append(queue, m)) = Len(queue) + 1
    BY <1>0
  <2>2. count'["publishes"] = count["publishes"] + 1
    BY <1>0, <1>2 DEF Publish, Happens
  <2> QED BY <1>0, <1>2, <2>1, <2>2 DEF Publish, QueueInv
<1>3. CASE Send
  <2>1. Len(Tail(queue)) <= Len(queue)
    BY <1>0, <1>3 DEF Send
  <2>2. Len(Tail(queue)) \in Nat
    BY <1>0, <1>3 DEF Send
  <2> QED BY <1>0, <1>3, <2>1, <2>2 DEF Send, QueueInv
<1>4. CASE Tick \/ TakeUnrouted \/ Reconnect \/ TakeSubscribe \/ Receive \/ UNCHANGED vars
  BY <1>1, <1>4 DEF Tick, TakeUnrouted, Reconnect, TakeSubscribe, Receive, vars
<1>5. CASE ConnectionLost
  BY <1>0, <1>1, <1>5 DEF ConnectionLost, Happens
<1>6. CASE Lifecycle
  BY <1>0, <1>1, <1>6
     DEF Lifecycle, Boot, Connect, Subscribe, Subscribed, SubscribeFails,
         Crash, Unsubscribe, Exit, Die, Happens
<1>7. CASE Handle
  BY <1>0, <1>1, <1>7
     DEF Handle, Reject, Duplicate, Claim, WriteRaw, WriteRawFails,
         WriteMeasurement, MeasurementRefused, WriteMeasurementFails, Ack, Happens
<1> QED
  BY <1>2, <1>3, <1>4, <1>5, <1>6, <1>7 DEF Next, Broker

(* What becomes owed is in the session: its queue has room.                *)
LEMMA OwedIsQueued ==
    ASSUME IInv, IInv', QueueInv, [Next]_vars, MaxPublishes <= MaxQueued,
           NEW msg \in owed', msg \notin owed
    PROVE  InSession(msg)'
<1>1. /\ Publish(msg) /\ subscribed /\ msg \in Messages
  BY DEF Next, Publish, Tick, Broker, Send, TakeUnrouted, ConnectionLost,
         Reconnect, TakeSubscribe, Lifecycle, Boot, Connect, Subscribe,
         Subscribed, SubscribeFails, Crash, Unsubscribe, Exit, Die, Receive,
         Handle, Reject, Duplicate, Claim, WriteRaw, WriteRawFails,
         WriteMeasurement, MeasurementRefused, WriteMeasurementFails, Ack, vars,
         broker
<1>2. Len(queue) < MaxQueued
  <2>1. /\ count["publishes"] < MaxPublishes /\ Len(queue) <= count["publishes"]
        /\ Len(queue) \in Nat /\ count["publishes"] \in Nat
    BY <1>1 DEF Publish, Happens, QueueInv, IInv, TypeOK, Faults
  <2> QED BY <2>1, BoundsAreNaturals
<1>3. Occurs(msg, queue')
  BY <1>1, <1>2, OccursAppend DEF Publish, IInv, TypeOK
<1> QED BY <1>3, SessionParts DEF Kept

LEMMA HeldOrStoredStep ==
    ASSUME IInv, IInv', KeptInv, [Next]_vars, MaxPublishes <= MaxQueued
    PROVE  HeldOrStored'
<1> SUFFICES ASSUME NEW msg \in owed', Storable(msg)
             PROVE  InSession(msg)' \/ StoredKey(DedupKey(msg.body))'
  BY DEF HeldOrStored, Storable
<1>1. CASE msg \in owed
  <2>1. CASE StoredKey(DedupKey(msg.body))
    BY <2>1, StoredKeyStays
  <2>2. CASE InSession(msg)
    <3>1. Kept(msg)' \/ (Ack /\ msg = current)
      BY <2>2, KeptSteps, SessionParts
    <3>2. CASE Ack /\ msg = current
      <4>1. StoredKey(DedupKey(msg.body))
        BY <3>2 DEF Ack, KeptInv, DoneInv, Key
      <4> QED BY <4>1, StoredKeyStays
    <3> QED BY <3>1, <3>2, SessionParts
  <2> QED BY <1>1, <2>1, <2>2 DEF KeptInv, HeldOrStored
<1>2. CASE msg \notin owed
  BY <1>2, OwedIsQueued DEF KeptInv
<1> QED BY <1>1, <1>2

LEMMA InitKeptInv == Init => KeptInv
<1> SUFFICES ASSUME Init PROVE KeptInv
  OBVIOUS
<1>1. Len(queue) = 0 /\ count["publishes"] = 0
  BY DEF Init, Faults
<1> QED BY <1>1 DEF Init, KeptInv, SeenInv, DoneInv, QueueInv, HeldOrStored

(* At least once: when the database answers and the queue of the session   *)
(* has room for what is published, a storable sample stays in the broker's *)
(* session until both its rows are stored, whatever is killed, stopped or  *)
(* disconnected in between.  Without the first hypothesis it is false: see *)
(* the run IngestionStoreError.                                            *)
THEOREM SpecHeldOrStored ==
    ASSUME MaxStoreErrors = 0, MaxPublishes <= MaxQueued
    PROVE  Spec => []HeldOrStored
<1>1. IInv /\ IInv' /\ KeptInv /\ [Next]_vars => KeptInv'
  BY SeenInvStep, DoneInvStep, QueueInvStep, HeldOrStoredStep DEF KeptInv
<1>2. KeptInv => HeldOrStored
  BY DEF KeptInv
<1> QED BY <1>1, <1>2, InitKeptInv, SpecIInv, PTL DEF Spec

-----------------------------------------------------------------------------
(* Losses.  A key that this process has taken up is stored, in the         *)
(* handler's hands, or shows in the store-error counter.                   *)
Traced(k) == StoredKey(k) \/ metrics["storeErrors"] > 0

TracedInv ==
    /\ \A k \in seen : Traced(k) \/ (stage \in {"raw", "meas"} /\ k = Key)
    /\ stage = "ack" /\ Admissible(current, Registry, MaxSkew) => Traced(Key)
    /\ \A msg \in owed :
          Admissible(msg, Registry, MaxSkew) =>
              InSession(msg) \/ Traced(DedupKey(msg.body))

LossInv == QueueInv /\ (OneProcess => TracedInv)

(* While the process lives, its counters only grow.                        *)
LEMMA CountersGrow ==
    ASSUME TypeOK, Next, proc' # "down"
    PROVE  \A c \in Counters : metrics'[c] >= metrics[c]
<1> USE DEF memory
<1>0. \A c \in Counters : metrics[c] \in Nat
  BY DEF TypeOK
<1>1. CASE \E msg \in Messages : Publish(msg)
  BY <1>0, <1>1 DEF Publish
<1>2. CASE Tick
  BY <1>0, <1>2 DEF Tick
<1>3. CASE Broker
  BY <1>0, <1>3 DEF Broker, Send, TakeUnrouted, ConnectionLost, Reconnect, TakeSubscribe
<1>4. CASE Lifecycle
  BY <1>0, <1>4
     DEF Lifecycle, Boot, Connect, Subscribe, Subscribed, SubscribeFails,
         Crash, Unsubscribe, Exit, Die
<1>5. CASE Receive \/ Handle
  <2>1. UNCHANGED metrics \/ \E c \in Counters : Bump(c)
    BY <1>5
       DEF Receive, Handle, Reject, Duplicate, Claim, WriteRaw, WriteRawFails,
           WriteMeasurement, MeasurementRefused, WriteMeasurementFails, Ack,
           Counters
  <2>2. ASSUME NEW c \in Counters, Bump(c)
        PROVE  \A d \in Counters : metrics'[d] >= metrics[d]
    <3>1. metrics' = [metrics EXCEPT ![c] = metrics[c] + 1]
      BY <2>2 DEF Bump
    <3>2. metrics \in [Counters -> Nat]
      BY DEF TypeOK
    <3> QED BY <1>0, <3>1, <3>2
  <2> QED BY <1>0, <2>1, <2>2
<1> QED BY <1>1, <1>2, <1>3, <1>4, <1>5 DEF Next

(* Neither a stored row nor a counted error is taken back while the        *)
(* process lives.                                                          *)
LEMMA TracedStays ==
    ASSUME IInv, MemoryInv, [Next]_vars, OneProcess', NEW k, Traced(k)
    PROVE  Traced(k)'
<1> USE DEF memory
<1>1. metrics["storeErrors"] \in Nat
  BY DEF IInv, TypeOK, Counters
<1>2. metrics["storeErrors"] > 0 => metrics'["storeErrors"] > 0
  <2>1. CASE UNCHANGED memory
    BY <2>1
  <2>2. CASE Receive \/ Handle
    <3>1. proc' # "down"
      BY <2>2
         DEF Receive, Handle, Reject, Duplicate, Claim, WriteRaw, WriteRawFails,
             WriteMeasurement, MeasurementRefused, WriteMeasurementFails, Ack,
             process, IInv, HandlerInv
    <3>2. metrics'["storeErrors"] >= metrics["storeErrors"]
          /\ metrics'["storeErrors"] \in Nat
      BY <2>2, <3>1, CountersGrow, NextIInv DEF Next, IInv, TypeOK, Counters
    <3> QED BY <1>1, <3>2
  <2> QED BY <2>1, <2>2, OneProcessSteps
<1>3. CASE StoredKey(k)
  <2>1. StoredKey(k)'
    BY <1>3, StoredKeyStays
  <2> QED BY <2>1 DEF Traced, StoredKey
<1> QED BY <1>2, <1>3 DEF Traced

(* A statement that fails is counted.                                      *)
LEMMA FailureIsCounted ==
    ASSUME IInv, WriteRawFails \/ MeasurementRefused \/ WriteMeasurementFails
    PROVE  metrics'["storeErrors"] > 0
<1>1. metrics \in [Counters -> Nat] /\ "storeErrors" \in Counters
  BY DEF IInv, TypeOK, Counters
<1>2. Bump("storeErrors")
  BY DEF WriteRawFails, MeasurementRefused, WriteMeasurementFails
<1> QED BY <1>1, <1>2 DEF Bump

LEMMA SeenTraced ==
    ASSUME IInv, MemoryInv, TracedInv, [Next]_vars, OneProcess',
           NEW k \in seen'
    PROVE  Traced(k)' \/ (stage' \in {"raw", "meas"} /\ k = Key')
<1> USE DEF memory
<1>1. ASSUME k \in seen, ~(stage \in {"raw", "meas"} /\ k = Key)
      PROVE  Traced(k)'
  BY <1>1, TracedStays DEF TracedInv
<1>2. CASE UNCHANGED <<memory, stage, current, raw, meas>>
  BY <1>1, <1>2 DEF Key
<1>3. CASE Receive \/ Reject \/ Duplicate \/ Ack
  BY <1>1, <1>3 DEF Receive, Reject, Duplicate, Ack
<1>4. CASE Claim
  BY <1>1, <1>4 DEF Claim, Key
<1>5. CASE WriteRaw
  BY <1>1, <1>5 DEF WriteRaw, Key
<1>6. CASE WriteRawFails \/ MeasurementRefused \/ WriteMeasurementFails
  BY <1>6, FailureIsCounted DEF Traced
<1>7. CASE WriteMeasurement
  <2>1. seen' = seen
    BY <1>7 DEF WriteMeasurement
  <2>2. CASE k = Key
    <3>1. Key' = Key
      BY <1>7 DEF WriteMeasurement, Key
    <3> QED BY <1>7, <2>2, <3>1, WriteMeasurementStores DEF StoredKey, Traced
  <2> QED BY <1>1, <2>1, <2>2
<1> QED BY <1>2, <1>3, <1>4, <1>5, <1>6, <1>7, OneProcessSteps DEF Handle

LEMMA DoneTraced ==
    ASSUME IInv, MemoryInv, TracedInv, [Next]_vars, OneProcess',
           stage' = "ack", Admissible(current', Registry, MaxSkew)
    PROVE  Traced(Key)'
<1> USE DEF memory
<1>0. ASSUME Traced(Key), current' = current PROVE Traced(Key)'
  <2>1. Key' = Key
    BY <1>0 DEF Key
  <2>2. \A k : Traced(k) => Traced(k)'
    BY TracedStays
  <2> QED BY <1>0, <2>1, <2>2 DEF Traced, StoredKey
<1>1. CASE UNCHANGED <<memory, stage, current, raw, meas>>
  BY <1>0, <1>1 DEF TracedInv
<1>2. CASE Receive \/ Claim \/ WriteRaw \/ Ack
  BY <1>2 DEF Receive, Claim, WriteRaw, Ack
<1>3. CASE Reject
  <2>1. current \in Messages /\ current' = current /\ ~Admitted
    BY <1>3 DEF Reject, IInv, HandlerInv
  <2>2. MaxSkew \in Int /\ now + MaxSkew \in Int /\ MaxSkew <= now + MaxSkew
    BY BoundsAreNaturals DEF IInv, TypeOK
  <2> QED BY <2>1, <2>2, AdmissibleLater DEF Admitted
<1>4. CASE Duplicate
  BY <1>0, <1>4 DEF Duplicate, TracedInv
<1>5. CASE WriteRawFails \/ MeasurementRefused \/ WriteMeasurementFails
  BY <1>5, FailureIsCounted DEF Traced
<1>6. CASE WriteMeasurement
  BY <1>6, WriteMeasurementStores DEF Traced
<1> QED BY <1>1, <1>2, <1>3, <1>4, <1>5, <1>6, OneProcessSteps DEF Handle

LEMMA OwedTraced ==
    ASSUME IInv, IInv', MemoryInv, QueueInv, TracedInv, [Next]_vars, OneProcess',
           MaxPublishes <= MaxQueued,
           NEW msg \in owed', Admissible(msg, Registry, MaxSkew)
    PROVE  InSession(msg)' \/ Traced(DedupKey(msg.body))'
<1>1. CASE msg \notin owed
  BY <1>1, OwedIsQueued
<1>2. CASE msg \in owed /\ Traced(DedupKey(msg.body))
  BY <1>2, TracedStays
<1>3. CASE msg \in owed /\ InSession(msg)
  <2>1. Kept(msg)' \/ (Ack /\ msg = current)
    BY <1>3, KeptSteps, SessionParts
  <2>2. CASE Ack /\ msg = current
    <3>1. Traced(DedupKey(msg.body))
      BY <2>2 DEF Ack, TracedInv, Key
    <3> QED BY <3>1, TracedStays
  <2> QED BY <2>1, <2>2, SessionParts
<1> QED BY <1>1, <1>2, <1>3 DEF TracedInv

(* One process loses nothing in silence: when the queue of the session has *)
(* room for what is published, an admissible sample published to the       *)
(* subscribed service is in the session, is stored, or the store-error     *)
(* counter has risen; for any number of failing statements, redeliveries,  *)
(* refused rows and lost connections.                                      *)
THEOREM SpecLossesAreCounted ==
    ASSUME MaxPublishes <= MaxQueued
    PROVE  Spec => []LossesAreCounted
<1>1. Init => LossInv
  BY InitKeptInv DEF Init, LossInv, KeptInv, TracedInv
<1>2. IInv /\ IInv' /\ MemoryInv /\ LossInv /\ [Next]_vars => LossInv'
  <2> SUFFICES ASSUME IInv, IInv', MemoryInv, LossInv, [Next]_vars, OneProcess'
               PROVE  TracedInv'
    BY QueueInvStep DEF LossInv
  <2>1. TracedInv /\ QueueInv
    BY OneProcessSteps DEF LossInv
  <2> QED BY <2>1, SeenTraced, DoneTraced, OwedTraced DEF TracedInv
<1>3. LossInv => LossesAreCounted
  BY DEF LossInv, TracedInv, Traced, LossesAreCounted
<1> QED BY <1>1, <1>2, <1>3, InitMemoryInv, MemoryInvStep, SpecIInv, PTL DEF Spec

-----------------------------------------------------------------------------
(* The metrics reporter's snapshots are coherent for any number of         *)
(* messages, snapshots, crashes and restarts.  While a snapshot is being   *)
(* taken, the counters already loaded only lag behind the live ones; since *)
(* received is loaded first, the deficit stays within the one message in   *)
(* the handler's hands.                                                    *)

(* The outcomes as the snapshot will see them at best: loaded values where *)
(* they have been loaded, live ones elsewhere.                             *)
Seen(i, c) == IF next > i THEN snap[c] ELSE metrics[c]

LoadedSoFar ==
    Seen(2, "accepted") + Seen(3, "rejected")
      + Seen(4, "duplicates") + Seen(5, "storeErrors")

SnapInv ==
    /\ MTypeOK
    /\ next > 1 => snap["received"] <= LoadedSoFar + 1
    /\ SnapshotIsCoherent

LEMMA CounterTypes ==
    ASSUME MTypeOK
    PROVE  /\ \A c \in Counters : metrics[c] \in Nat /\ snap[c] \in Nat
           /\ next \in 0 .. 5
           /\ "received" \in Counters /\ "accepted" \in Counters
           /\ "rejected" \in Counters /\ "duplicates" \in Counters
           /\ "storeErrors" \in Counters
BY DEF MTypeOK, TypeOK, Counters, LoadOrder

LEMMA InitSnapInv == MInit => SnapInv
<1> SUFFICES ASSUME MInit PROVE SnapInv
  OBVIOUS
<1>1. MTypeOK
  BY InitIInv DEF MInit, MTypeOK, IInv, ZeroMetrics, LoadOrder
<1>2. \A c \in Counters : snap[c] = 0
  BY DEF MInit, ZeroMetrics
<1> QED
  BY <1>1, <1>2 DEF MInit, SnapInv, SnapshotIsCoherent, SnapProcessed, Counters

LEMMA LoadCounterSnapInv ==
    ASSUME IInv, CountInv, SnapInv, LoadCounter
    PROVE  SnapInv'
<1>0. UNCHANGED vars /\ TypeOK /\ TypeOK'
  BY DEF LoadCounter, IInv, TypeOK, vars, environment, broker, process,
         memory, handler, database
<1>1. MTypeOK'
  <2>1. next' \in 0 .. 5 /\ LoadOrder[next] \in Counters
    BY CounterTypes DEF LoadCounter, LoadOrder, SnapInv
  <2>2. snap \in [Counters -> Nat] /\ metrics[LoadOrder[next]] \in Nat
    BY <2>1, CounterTypes DEF SnapInv, MTypeOK
  <2>3. snap' \in [Counters -> Nat]
    BY <2>1, <2>2 DEF LoadCounter
  <2> QED BY <1>0, <2>1, <2>3 DEF MTypeOK, LoadOrder
<1> USE CounterTypes
    DEF LoadCounter, SnapInv, LoadOrder, SnapshotIsCoherent, SnapProcessed,
        LoadedSoFar, Seen
<1>2. UNCHANGED metrics
  BY DEF vars, memory
<1>3. next \in 1 .. 5
  BY DEF MTypeOK
<1>4. CASE next = 1
  <2>1. snap' = [snap EXCEPT !["received"] = metrics["received"]] /\ next' = 2
    BY <1>4
  <2>2. metrics["received"] <= Processed + 1
    BY DEF CountInv, CountersAgree, Processed
  <2> QED BY <1>1, <1>2, <2>1, <2>2 DEF MTypeOK, Processed
<1>5. CASE next = 2
  <2>1. snap' = [snap EXCEPT !["accepted"] = metrics["accepted"]] /\ next' = 3
    BY <1>5
  <2> QED BY <1>1, <1>2, <1>5, <2>1 DEF MTypeOK
<1>6. CASE next = 3
  <2>1. snap' = [snap EXCEPT !["rejected"] = metrics["rejected"]] /\ next' = 4
    BY <1>6
  <2> QED BY <1>1, <1>2, <1>6, <2>1 DEF MTypeOK
<1>7. CASE next = 4
  <2>1. snap' = [snap EXCEPT !["duplicates"] = metrics["duplicates"]] /\ next' = 5
    BY <1>7
  <2> QED BY <1>1, <1>2, <1>7, <2>1 DEF MTypeOK
<1>8. CASE next = 5
  <2>1. snap' = [snap EXCEPT !["storeErrors"] = metrics["storeErrors"]] /\ next' = 0
    BY <1>8
  <2> QED BY <1>1, <1>2, <1>8, <2>1 DEF MTypeOK
<1> QED BY <1>3, <1>4, <1>5, <1>6, <1>7, <1>8

LEMMA ServiceStepSnapInv ==
    ASSUME IInv, SnapInv, ServiceStep
    PROVE  SnapInv'
<1>0. TypeOK'
  BY NextIInv DEF ServiceStep, IInv
<1>1. CASE proc' = "down"
  <2>1. \A c \in Counters : snap'[c] = 0
    BY <1>1 DEF ServiceStep, ZeroMetrics
  <2>2. MTypeOK'
    BY <1>0, <1>1 DEF ServiceStep, MTypeOK, ZeroMetrics, LoadOrder
  <2> QED
    BY <1>1, <2>1, <2>2
       DEF ServiceStep, SnapInv, SnapshotIsCoherent, SnapProcessed, Counters
<1>2. CASE proc' # "down"
  <2>1. UNCHANGED <<snap, next>>
    BY <1>2 DEF ServiceStep
  <2>2. MTypeOK'
    BY <1>0, <2>1 DEF SnapInv, MTypeOK
  <2>3. \A c \in Counters : metrics'[c] >= metrics[c] /\ metrics'[c] \in Nat
    BY <1>0, <1>2, CountersGrow DEF ServiceStep, SnapInv, MTypeOK, TypeOK
  <2>4. next > 1 => LoadedSoFar <= LoadedSoFar'
    BY <2>1, <2>3, CounterTypes DEF SnapInv, LoadedSoFar, Seen
  <2>5. LoadedSoFar \in Nat /\ LoadedSoFar' \in Nat
    BY <2>1, <2>3, CounterTypes DEF SnapInv, LoadedSoFar, Seen
  <2> QED
    BY <2>1, <2>2, <2>4, <2>5, CounterTypes
       DEF SnapInv, SnapshotIsCoherent, SnapProcessed
<1> QED BY <1>1, <1>2

LEMMA NextSnapInv == IInv /\ CountInv /\ SnapInv /\ [MNext]_mvars => SnapInv'
<1> SUFFICES ASSUME IInv, CountInv, SnapInv, [MNext]_mvars PROVE SnapInv'
  OBVIOUS
<1>1. CASE TickerFires
  <2>1. MTypeOK'
    BY <1>1
       DEF TickerFires, SnapInv, MTypeOK, TypeOK, LoadOrder, vars, environment,
           broker, process, memory, handler, database
  <2> QED BY <1>1, <2>1 DEF TickerFires, SnapInv, SnapshotIsCoherent
<1>2. CASE LoadCounter
  BY <1>2, LoadCounterSnapInv
<1>3. CASE ServiceStep
  BY <1>3, ServiceStepSnapInv
<1>4. CASE UNCHANGED mvars
  BY <1>4
     DEF mvars, SnapInv, MTypeOK, TypeOK, SnapshotIsCoherent, SnapProcessed,
         LoadedSoFar, Seen, vars, environment, broker, process, memory,
         handler, database
<1> QED BY <1>1, <1>2, <1>3, <1>4 DEF MNext

(* The reporter changes nothing the service sees: its behaviours are       *)
(* behaviours of the service.                                              *)
LEMMA ReporterIsTransparent == MSpec => Spec
<1>1. MInit => Init
  BY DEF MInit
<1>2. [MNext]_mvars => [Next]_vars
  BY DEF MNext, TickerFires, LoadCounter, ServiceStep, mvars
<1> QED BY <1>1, <1>2, PTL DEF MSpec, Spec

(* A logged snapshot never shows more than one received message without    *)
(* its outcome, although its five loads interleave with the handler.       *)
THEOREM SpecSnapshotIsCoherent == MSpec => []SnapshotIsCoherent
<1>1. SnapInv => SnapshotIsCoherent
  BY DEF SnapInv
<1> QED
  BY <1>1, InitSnapInv, NextSnapInv, ReporterIsTransparent, SpecIInv,
     SpecCountInv, PTL DEF MSpec

(* The loaded values are counter values and the position stays within the  *)
(* five loads.                                                             *)
THEOREM SpecMTypeOK == MSpec => []MTypeOK
<1>1. SnapInv => MTypeOK
  BY DEF SnapInv
<1> QED
  BY <1>1, InitSnapInv, NextSnapInv, ReporterIsTransparent, SpecIInv,
     SpecCountInv, PTL DEF MSpec
=============================================================================
