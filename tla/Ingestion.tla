----------------------------- MODULE Ingestion -----------------------------
(***************************************************************************)
(* The ingestion service (cmd/ingestion, internal/ingestion) between the   *)
(* MQTT broker and the bronze tables in PostgreSQL.                        *)
(*                                                                         *)
(* Actors that interleave: publishers, the broker with the persistent      *)
(* session it keeps for the client id "ingestion", the connection that may *)
(* be lost, the process that is booted, stopped and killed, the handler    *)
(* goroutine that takes one message at a time, the database that may       *)
(* refuse a statement, and the clock.                                      *)
(*                                                                         *)
(* The broker and the MQTT client library are outside the repository: they *)
(* are modelled from how ingestor.go configures and calls them (QoS 1,     *)
(* CleanSession(false), AutoReconnect, default ordered delivery, no        *)
(* default handler).                                                       *)
(***************************************************************************)
EXTENDS BronzeTables, Sequences, FiniteSets

CONSTANTS Ids,             \* identifiers a payload or a topic can carry
          Registry,        \* the transformers the fleet CSV registers
          Messages,        \* the messages that can be published
          NoMessage,       \* the handler holds no message
          MaxSkew,         \* -max-skew: how far in the future a timestamp may be
          MaxInflight,     \* the broker's window of unacknowledged messages
          MaxQueued,       \* the broker's bound on messages queued for the session
          MaxNow,          \* bound: the last instant of the clock
          MaxPublishes,    \* bound: messages published
          MaxCrashes,      \* bound: process kills
          MaxStops,        \* bound: graceful shutdowns
          MaxDisconnects,  \* bound: connections lost
          MaxStoreErrors   \* bound: statements that fail, a constraint of the row apart

ASSUME MessagesAreMessages ==
    /\ Registry \subseteq Ids
    /\ NoTopic \notin Ids
    /\ Messages \subseteq Message(Ids)
    /\ NoMessage \notin Messages

ASSUME BoundsAreNaturals ==
    /\ MaxSkew \in Nat /\ MaxInflight \in Nat /\ MaxQueued \in Nat
    /\ MaxNow \in Nat /\ MaxPublishes \in Nat /\ MaxCrashes \in Nat
    /\ MaxStops \in Nat /\ MaxDisconnects \in Nat /\ MaxStoreErrors \in Nat

VARIABLES
    \* the environment
    now,           \* the clock the validator reads
    count,         \* how many publishes and faults have happened
    \* the broker
    subscribed,    \* the session holds the telemetry subscription
    queue,         \* messages of the session not sent yet
    inflight,      \* messages sent (or to be sent again) and not taken by the client
    unrouted,      \* messages the client took while no route matched: never acknowledged
    owed,          \* history: messages published while the session was subscribed
    \* the process
    proc,          \* where main() is
    conn,          \* the client has a connection
    route,         \* the client's router knows handleMessage
    seen,          \* Ingestor.seen
    metrics,       \* Ingestor.metrics
    stage,         \* where handleMessage is
    current,       \* the message it is handling
    linked,        \* its acknowledgement can still reach the broker
    \* the database
    transformers,  \* ids in the transformers table (foreign-key target)
    raw,           \* rows of raw_telemetry
    meas           \* rows of measurements

broker == <<subscribed, queue, inflight, unrouted, owed>>
process == <<proc, conn, route>>
memory == <<seen, metrics>>
handler == <<stage, current, linked>>
database == <<transformers, raw, meas>>
environment == <<now, count>>
vars == <<environment, broker, process, memory, handler, database>>

-----------------------------------------------------------------------------
(* The life of main(): the store is opened and seeded, the client          *)
(* connects, Run registers the route and subscribes, and serves until      *)
(* SIGTERM makes it unsubscribe and disconnect.                            *)
ProcStates == {"down", "seeded", "connected", "subscribing", "running", "stopping"}

(* handleMessage: received (counted, not yet judged), raw (key claimed,    *)
(* WriteRaw next), meas (WriteMeasurement next), ack (returned; the client *)
(* library acknowledges).                                                  *)
Stages == {"idle", "received", "raw", "meas", "ack"}

Faults == {"publishes", "crashes", "stops", "failedStarts", "disconnects",
           "storeErrors"}

Counters == {"received", "accepted", "rejected", "duplicates", "storeErrors"}

ZeroMetrics == [c \in Counters |-> 0]

Bump(c) == metrics' = [metrics EXCEPT ![c] = @ + 1]

Happens(f, bound) ==
    /\ count[f] < bound
    /\ count' = [count EXCEPT ![f] = @ + 1]

(* The message in the handler's hands, while its delivery is still open at *)
(* the broker.                                                             *)
Held == IF linked THEN <<current>> ELSE <<>>

(* The unacknowledged messages of the session, in the order they were      *)
(* first sent: what the broker sends again on the next connection.         *)
Unacked == unrouted \o Held \o inflight

Init ==
    /\ now = 0
    /\ count = [f \in Faults |-> 0]
    /\ subscribed = FALSE
    /\ queue = <<>> /\ inflight = <<>> /\ unrouted = <<>>
    /\ owed = {}
    /\ proc = "down"
    /\ conn = FALSE
    /\ route = FALSE
    /\ seen = {}
    /\ metrics = ZeroMetrics
    /\ stage = "idle"
    /\ current = NoMessage
    /\ linked = FALSE
    /\ transformers = {}
    /\ raw = {}
    /\ meas = {}

-----------------------------------------------------------------------------
(* Environment: publishers and the clock.                                  *)

(* A publisher's QoS 1 publish is acknowledged by the broker whether or    *)
(* not the session is subscribed; without a subscription, or with a full   *)
(* queue, the message is not kept for the service.                         *)
Publish(msg) ==
    /\ Happens("publishes", MaxPublishes)
    /\ queue' = IF subscribed /\ Len(queue) < MaxQueued
                THEN Append(queue, msg) ELSE queue
    /\ owed' = IF subscribed THEN owed \cup {msg} ELSE owed
    /\ UNCHANGED <<now, subscribed, inflight, unrouted,
                   process, memory, handler, database>>

Tick ==
    /\ now < MaxNow
    /\ now' = now + 1
    /\ UNCHANGED <<count, broker, process, memory, handler, database>>

-----------------------------------------------------------------------------
(* The broker and the connection.                                          *)

(* The broker sends the next queued message when the window has room.      *)
Send ==
    /\ conn
    /\ queue # <<>>
    /\ Len(Unacked) < MaxInflight
    /\ inflight' = Append(inflight, Head(queue))
    /\ queue' = Tail(queue)
    /\ UNCHANGED <<environment, subscribed, unrouted, owed,
                   process, memory, handler, database>>

(* Mutant of KeepUnacked: SetCleanSession(true), the session is dropped    *)
(* with its connection.                                                    *)
KeepNothing == inflight' = <<>> /\ unrouted' = <<>>

(* Whatever was sent and not acknowledged stays in the session; the        *)
(* handler, if it is running, will acknowledge in vain.                    *)
KeepUnacked ==
    /\ inflight' = Unacked
    /\ unrouted' = <<>>

ConnectionLost ==
    /\ conn
    /\ Happens("disconnects", MaxDisconnects)
    /\ conn' = FALSE
    /\ KeepUnacked
    /\ linked' = FALSE
    /\ UNCHANGED <<now, subscribed, queue, owed, proc, route, memory,
                   stage, current, database>>

(* Mutant of Reconnect: SetAutoReconnect(false).                           *)
NoReconnect == FALSE

(* The client library reconnects by itself once its workers, the running   *)
(* handler included, are done.  Routes survive; Run is not told.           *)
Reconnect ==
    /\ ~conn
    /\ proc \in {"connected", "running"}
    /\ stage = "idle"
    /\ conn' = TRUE
    /\ UNCHANGED <<environment, broker, proc, route, memory, handler, database>>

(* A message for which no route matches is taken off the connection and    *)
(* never acknowledged.                                                     *)
TakeUnrouted ==
    /\ conn /\ ~route
    /\ stage = "idle"
    /\ inflight # <<>>
    /\ unrouted' = Append(unrouted, Head(inflight))
    /\ inflight' = Tail(inflight)
    /\ UNCHANGED <<environment, subscribed, queue, owed,
                   process, memory, handler, database>>

(* The broker takes SUBSCRIBE into the session; the SUBACK is still on its *)
(* way, and the connection may be lost before it arrives.                  *)
TakeSubscribe ==
    /\ proc = "subscribing" /\ conn
    /\ ~subscribed
    /\ subscribed' = TRUE
    /\ UNCHANGED <<environment, queue, inflight, unrouted, owed,
                   process, memory, handler, database>>

-----------------------------------------------------------------------------
(* The process: main() and Ingestor.Run.                                   *)

(* Mutant of Boot: the fleet is not upserted.                              *)
BootUnseeded ==
    /\ proc = "down"
    /\ proc' = "seeded"
    /\ UNCHANGED <<environment, broker, conn, route, memory, handler, database>>

(* main() opens the store, migrates, upserts the fleet and builds a fresh  *)
(* Ingestor.  A failing step exits before any of this shows: no action.    *)
Boot ==
    /\ proc = "down"
    /\ proc' = "seeded"
    /\ transformers' = transformers \cup Registry
    /\ UNCHANGED <<environment, broker, conn, route, memory, handler, raw, meas>>

(* Ingestor.Connect: the session is present from now on, and the broker    *)
(* may send before Run has registered the route.                           *)
Connect ==
    /\ proc = "seeded"
    /\ proc' = "connected"
    /\ conn' = TRUE
    /\ UNCHANGED <<environment, broker, route, memory, handler, database>>

(* Run calls Subscribe, which registers handleMessage and sends SUBSCRIBE. *)
Subscribe ==
    /\ proc = "connected"
    /\ conn
    /\ proc' = "subscribing"
    /\ route' = TRUE
    /\ UNCHANGED <<environment, broker, conn, memory, handler, database>>

(* SUBACK: the token is done and Run blocks on ctx.Done().                 *)
Subscribed ==
    /\ proc = "subscribing"
    /\ conn /\ subscribed
    /\ proc' = "running"
    /\ UNCHANGED <<environment, broker, conn, route, memory, handler, database>>

(* The process is gone: its memory, its connection and a handler in the    *)
(* middle of a message with it.                                            *)
Die ==
    /\ proc' = "down" /\ conn' = FALSE /\ route' = FALSE
    /\ seen' = {} /\ metrics' = ZeroMetrics
    /\ stage' = "idle" /\ current' = NoMessage /\ linked' = FALSE
    /\ KeepUnacked
    /\ UNCHANGED <<queue, owed, database>>

(* The connection is down when Run subscribes, or lost before SUBACK has   *)
(* arrived: the token ends with an error, Run returns it and main exits,   *)
(* whether or not the broker has taken the subscription.                   *)
SubscribeFails ==
    /\ proc \in {"connected", "subscribing"}
    /\ ~conn
    /\ Die
    /\ count' = [count EXCEPT !["failedStarts"] = @ + 1]
    /\ UNCHANGED <<now, subscribed>>

Crash ==
    /\ proc # "down"
    /\ Happens("crashes", MaxCrashes)
    /\ Die
    /\ UNCHANGED <<now, subscribed>>

(* SIGTERM: Run unsubscribes, which needs the connection.  The broker may  *)
(* take UNSUBSCRIBE and the connection be lost before UNSUBACK: the same   *)
(* as losing it after this step, the token's error being only logged.      *)
Unsubscribe ==
    /\ proc = "running"
    /\ Happens("stops", MaxStops)
    /\ proc' = "stopping"
    /\ subscribed' = (subscribed /\ ~conn)
    /\ route' = (route /\ ~conn)
    /\ UNCHANGED <<now, queue, inflight, unrouted, owed,
                   conn, memory, handler, database>>

(* Disconnect(250) waits a quarter of a second, for nobody in particular;  *)
(* then main returns.                                                      *)
Exit ==
    /\ proc = "stopping"
    /\ Die
    /\ UNCHANGED <<environment, subscribed>>

-----------------------------------------------------------------------------
(* The handler: Ingestor.handleMessage, one message at a time.             *)

Receive ==
    /\ conn /\ route
    /\ stage = "idle"
    /\ inflight # <<>>
    /\ stage' = "received"
    /\ current' = Head(inflight)
    /\ linked' = TRUE
    /\ inflight' = Tail(inflight)
    /\ Bump("received")
    /\ UNCHANGED <<environment, subscribed, queue, unrouted, owed,
                   process, seen, database>>

Admitted == Admissible(current, Registry, now + MaxSkew)

(* Mutant of Key: the key is built from the parsed time, not the string.   *)
KeyOfInstant ==
    <<current.body.transformerId,
      [current.body.timestamp EXCEPT !.spelling = "parsed"]>>

Key == DedupKey(current.body)

Reject ==
    /\ stage = "received"
    /\ ~Admitted
    /\ stage' = "ack"
    /\ Bump("rejected")
    /\ UNCHANGED <<environment, broker, process, seen, current, linked, database>>

(* Mutant of Duplicate: the early return skips the counter.                *)
DuplicateUncounted ==
    /\ stage = "received"
    /\ Admitted
    /\ Key \in seen
    /\ stage' = "ack"
    /\ UNCHANGED <<environment, broker, process, memory, current, linked, database>>

Duplicate ==
    /\ stage = "received"
    /\ Admitted
    /\ Key \in seen
    /\ stage' = "ack"
    /\ Bump("duplicates")
    /\ UNCHANGED <<environment, broker, process, seen, current, linked, database>>

(* LoadOrStore claims the key before anything is written.                  *)
Claim ==
    /\ stage = "received"
    /\ Admitted
    /\ Key \notin seen
    /\ stage' = "raw"
    /\ seen' = seen \cup {Key}
    /\ UNCHANGED <<environment, broker, process, metrics, current, linked, database>>

CapturedRaw == InsertRaw(raw, RawRecord(current, now))

WriteRaw ==
    /\ stage = "raw"
    /\ stage' = "meas"
    /\ raw' = CapturedRaw
    /\ UNCHANGED <<environment, broker, process, memory, current, linked,
                   transformers, meas>>

(* Mutant of WriteRawFails: the return is missing.                         *)
WriteRawFailsAndGoesOn ==
    /\ stage = "raw"
    /\ Happens("storeErrors", MaxStoreErrors)
    /\ stage' = "meas"
    /\ raw' \in {raw, CapturedRaw}
    /\ Bump("storeErrors")
    /\ UNCHANGED <<now, broker, process, seen, current, linked, transformers, meas>>

(* The statement fails: refused (for no fault of the row, or for a payload *)
(* that jsonb does not take), or committed and its answer lost.  The       *)
(* handler returns and the message is acknowledged all the same.           *)
WriteRawFails ==
    /\ stage = "raw"
    /\ Happens("storeErrors", MaxStoreErrors)
    /\ stage' = "ack"
    /\ raw' \in {raw, CapturedRaw}
    /\ Bump("storeErrors")
    /\ UNCHANGED <<now, broker, process, seen, current, linked, transformers, meas>>

Row == MeasurementRow(Normalize(current.body))

WriteMeasurement ==
    /\ stage = "meas"
    /\ FitsColumns(Row)
    /\ stage' = "ack"
    /\ meas' = InsertMeasurement(meas, Row)
    /\ Bump("accepted")
    /\ UNCHANGED <<environment, broker, process, seen, current, linked,
                   transformers, raw>>

(* A CHECK constraint refuses a measurement the validator admitted.        *)
MeasurementRefused ==
    /\ stage = "meas"
    /\ ~FitsColumns(Row)
    /\ stage' = "ack"
    /\ Bump("storeErrors")
    /\ UNCHANGED <<environment, broker, process, seen, current, linked, database>>

(* Mutant of WriteMeasurementFails: the error is not looked at.            *)
WriteMeasurementFailsUnseen ==
    /\ stage = "meas"
    /\ FitsColumns(Row)
    /\ Happens("storeErrors", MaxStoreErrors)
    /\ stage' = "ack"
    /\ meas' \in {meas, InsertMeasurement(meas, Row)}
    /\ Bump("accepted")
    /\ UNCHANGED <<now, broker, process, seen, current, linked, transformers, raw>>

(* Mutant of WriteMeasurementFails: the key is given back, so that the     *)
(* sample can be tried again.                                              *)
WriteMeasurementFailsReleased ==
    /\ stage = "meas"
    /\ FitsColumns(Row)
    /\ Happens("storeErrors", MaxStoreErrors)
    /\ stage' = "ack"
    /\ meas' \in {meas, InsertMeasurement(meas, Row)}
    /\ Bump("storeErrors")
    /\ seen' = seen \ {Key}
    /\ UNCHANGED <<now, broker, process, current, linked, transformers, raw>>

(* As for the raw row; a timestamp that timestamptz does not take is one   *)
(* of the reasons, though the payload beside it has been stored.           *)
WriteMeasurementFails ==
    /\ stage = "meas"
    /\ FitsColumns(Row)
    /\ Happens("storeErrors", MaxStoreErrors)
    /\ stage' = "ack"
    /\ meas' \in {meas, InsertMeasurement(meas, Row)}
    /\ Bump("storeErrors")
    /\ UNCHANGED <<now, broker, process, seen, current, linked, transformers, raw>>

(* The client library acknowledges when the handler has returned, whatever *)
(* it did; the broker forgets the message if the delivery is still open.   *)
Ack ==
    /\ stage = "ack"
    /\ stage' = "idle"
    /\ current' = NoMessage
    /\ linked' = FALSE
    /\ UNCHANGED <<environment, broker, process, memory, database>>

-----------------------------------------------------------------------------
Broker == Send \/ TakeUnrouted \/ ConnectionLost \/ Reconnect \/ TakeSubscribe

Handle ==
    \/ Reject \/ Duplicate \/ Claim
    \/ WriteRaw \/ WriteRawFails
    \/ WriteMeasurement \/ MeasurementRefused \/ WriteMeasurementFails
    \/ Ack

Lifecycle ==
    \/ Boot \/ Connect \/ Subscribe \/ Subscribed
    \/ SubscribeFails \/ Crash \/ Unsubscribe \/ Exit

Next ==
    \/ \E msg \in Messages : Publish(msg)
    \/ Tick
    \/ Broker
    \/ Lifecycle
    \/ Receive
    \/ Handle

Spec == Init /\ [][Next]_vars

(* The broker sends when it can, the library reconnects and dispatches, a  *)
(* running handler gets on (every statement of it returns), and a process  *)
(* that is down is started again (restart: unless-stopped) and gets to its *)
(* subscription.  Nothing is assumed of publishers, faults or operators.   *)
Fairness ==
    /\ WF_vars(Send) /\ WF_vars(TakeUnrouted) /\ WF_vars(Reconnect)
    /\ WF_vars(TakeSubscribe)
    /\ WF_vars(Receive) /\ WF_vars(Handle)
    /\ WF_vars(Boot) /\ WF_vars(Connect) /\ WF_vars(Subscribe)
    /\ WF_vars(Subscribed) /\ WF_vars(SubscribeFails) /\ WF_vars(Exit)

FairSpec == Spec /\ Fairness
-----------------------------------------------------------------------------
(* Types: every variable holds what the code's declarations allow.         *)
TypeOK ==
    /\ now \in 0 .. MaxNow
    /\ count \in [Faults -> Nat]
    /\ subscribed \in BOOLEAN
    /\ queue \in Seq(Messages)
    /\ inflight \in Seq(Messages)
    /\ unrouted \in Seq(Messages)
    /\ owed \subseteq Messages
    /\ proc \in ProcStates
    /\ conn \in BOOLEAN
    /\ route \in BOOLEAN
    /\ seen \subseteq Ids \X Timestamp
    /\ metrics \in [Counters -> Nat]
    /\ stage \in Stages
    /\ current \in Messages \cup {NoMessage}
    /\ linked \in BOOLEAN
    /\ transformers \subseteq Ids
    /\ raw \subseteq RawRow(Ids)
    /\ meas \subseteq MeasRow(Ids)

(* The provenance record of a measurement is there before the measurement  *)
(* is, whatever crash, failed statement or redelivery came between the two *)
(* writes of handleMessage: every measurement has a raw record of the same *)
(* transformer and instant.                                                *)
MeasurementHasRaw ==
    \A row \in meas : \E r \in raw : NaturalKey(r.payload) = RowKey(row)

(* Only what Validate and the topic check admitted reaches the raw table,  *)
(* under the key of its own payload and judged by the clock of its own     *)
(* arrival.                                                                *)
RawIsAdmitted ==
    \A r \in raw :
        /\ r.ingestedAt <= now
        /\ r.id = DedupKey(r.payload)
        /\ r.topic = r.payload.transformerId
        /\ r.transformerId = r.payload.transformerId
        /\ Valid(r.payload, Registry, r.ingestedAt + MaxSkew)

(* One process has lived all the while: none was killed, stopped or exited *)
(* because its connection was lost before SUBACK.                          *)
OneProcess == \A f \in {"crashes", "stops", "failedStarts"} : count[f] = 0

(* Raw row and measurement are not one transaction, and a key may come     *)
(* with several readings (a second run of the simulator).  As long as the  *)
(* process lives, handleMessage still never mixes two of them, although    *)
(* statements fail and messages are sent again: every measurement is       *)
(* computed from the payload of a raw row.  It is the key that is claimed  *)
(* first and never given back that sees to this; with the process it is    *)
(* forgotten, and the next one may write the measurement of another        *)
(* reading behind the raw row.                                             *)
ReadingsAreNotMixed ==
    OneProcess =>
        \A row \in meas : \E r \in raw : row = MeasurementRow(Normalize(r.payload))

(* The transformer rows the two INSERTs refer to are committed before the  *)
(* first message can be claimed, so the foreign keys never refuse one.     *)
ForeignKeyHolds ==
    stage \in {"raw", "meas"} => current.body.transformerId \in transformers

Processed ==
    metrics["accepted"] + metrics["rejected"]
      + metrics["duplicates"] + metrics["storeErrors"]

(* Every received message is counted in exactly one outcome when its       *)
(* handler returns, and the keys the process remembers are the ones it     *)
(* accepted, lost to a store error, or is writing.                         *)
CountersAgree ==
    /\ metrics["received"] =
          Processed + (IF stage \in {"received", "raw", "meas"} THEN 1 ELSE 0)
    /\ Cardinality(seen) =
          metrics["accepted"] + metrics["storeErrors"]
            + (IF stage \in {"raw", "meas"} THEN 1 ELSE 0)

(* A sample's key has its raw record, and its instant its measurement.     *)
StoredKey(k) ==
    /\ HasRaw(raw, k)
    /\ HasMeasurement(meas, <<k[1], k[2].instant>>)

(* What the accepted counter claims is in the database: it never exceeds   *)
(* the number of remembered keys whose two rows are stored.                *)
AcceptedIsStored ==
    metrics["accepted"] <= Cardinality({k \in seen : StoredKey(k)})

(* A sample that the service admits whenever it arrives and whose key no   *)
(* refused row can take: the key of a row that a CHECK constraint refuses  *)
(* stays claimed, and whatever follows under it is a duplicate.            *)
Storable(msg) ==
    /\ Admissible(msg, Registry, MaxSkew)
    /\ \A m \in Messages :
          DedupKey(m.body) = DedupKey(msg.body)
            /\ Admissible(m, Registry, MaxNow + MaxSkew)
              => FitsColumns(MeasurementRow(Normalize(m.body)))

InSession(msg) ==
    \/ \E i \in DOMAIN queue : queue[i] = msg
    \/ \E i \in DOMAIN Unacked : Unacked[i] = msg

(* At-least-once with a database at the end: a storable sample published   *)
(* to the subscribed service stays in the broker's session until both its  *)
(* rows are stored; a crash or a lost connection between any two steps     *)
(* leaves no gap.                                                          *)
HeldOrStored ==
    \A msg \in owed :
        Storable(msg) => InSession(msg) \/ StoredKey(DedupKey(msg.body))

(* The ledger of one process's losses: a sample that the service admits    *)
(* and that is neither in the session nor stored was lost to a statement   *)
(* that failed, and the store-error counter says so: no path of the        *)
(* handler, no redelivery and no lost connection loses one in silence.     *)
LossesAreCounted ==
    OneProcess =>
        \A msg \in owed :
            Admissible(msg, Registry, MaxSkew) =>
                \/ InSession(msg) \/ StoredKey(DedupKey(msg.body))
                \/ metrics["storeErrors"] > 0

(* ... and it does get stored in the end.                                  *)
OwedIsStored ==
    \A msg \in Messages :
        (msg \in owed /\ Storable(msg)) ~> StoredKey(DedupKey(msg.body))

(* The one way for the service not to get there, whatever kills, lost      *)
(* connections and failed starts it has been through: the client took a    *)
(* message between Connect and Subscribe, and sits on it for good.         *)
StoredUnlessStuck == <>[](unrouted # <<>>) \/ OwedIsStored

(* The service implements the append-only ledger the other layers rely on. *)
Ledger == INSTANCE BronzeLedger WITH Times <- 0 .. MaxNow
LedgerSpec == Ledger!Spec
=============================================================================
