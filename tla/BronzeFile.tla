----------------------------- MODULE BronzeFile -----------------------------
(***************************************************************************)
(* The JSONL bronze sink (ingestion.JSONLStore) as the handler feeds it:   *)
(* one line for the raw record, then one for the normalized measurement,   *)
(* appended to a file that outlives the process.  The file knows neither   *)
(* keys nor CHECK constraints.  A disk that fills up in the middle of a    *)
(* line leaves a fragment, ends what this process writes, and the first    *)
(* line of the next process is glued to the fragment.                      *)
(***************************************************************************)
EXTENDS BronzeTables, Sequences

CONSTANTS Ids,           \* identifiers a payload or a topic can carry
          Registry,      \* the transformers the fleet CSV registers
          Messages,      \* the messages the broker can deliver
          NoMessage,     \* the handler holds no message
          MaxSkew,       \* how far ahead of the clock a timestamp may be
          Times,         \* the instants at which a message can arrive
          MaxClaims,     \* bound: messages the handler starts to write
          MaxShortWrites,\* bound: lines the disk did not take whole
          MaxRestarts    \* bound: restarts of the JSONL ingestion service

ASSUME FileMessagesAreMessages ==
    /\ Registry \subseteq Ids
    /\ NoTopic \notin Ids
    /\ Messages \subseteq Message(Ids)
    /\ NoMessage \notin Messages
    /\ Times \subseteq Nat

VARIABLES file,       \* the complete lines of data/bronze.jsonl
          fragment,   \* the file ends in the middle of a line
          broken,     \* json.Encoder keeps its first error and writes no more
          held,       \* the message the handler is writing, or NoMessage
          heldAt,     \* when it arrived
          writing,    \* which line of it is next: "raw", "measurement", or "idle"
          remembered, \* Ingestor.seen
          tally       \* how many claims, short writes and restarts there were

sink == <<file, fragment, broken, held, heldAt, writing, remembered, tally>>

(* A line is a raw record (it has a "payload" field), a measurement, or    *)
(* something that is not JSON.                                             *)
Line == [kind : {"raw", "measurement"}, msg : Messages, at : Times]
Garbled == [kind |-> "garbled"]

(* Mutant of LineOf: the two lines are written in the other order.         *)
LineOfOther(kind) ==
    [kind |-> IF kind = "raw" THEN "measurement" ELSE "raw", msg |-> held, at |-> heldAt]

LineOf(kind) == [kind |-> kind, msg |-> held, at |-> heldAt]

(* Encode writes the line and its newline at the end of the file, after    *)
(* whatever is there.                                                      *)
Grown(line) == Append(file, IF fragment THEN Garbled ELSE line)

FileInit ==
    /\ file = <<>>
    /\ fragment = FALSE
    /\ broken = FALSE
    /\ held = NoMessage
    /\ heldAt \in Times
    /\ writing = "idle"
    /\ remembered = {}
    /\ tally = [claims |-> 0, shortWrites |-> 0, restarts |-> 0]

(* Mutant of TakeMessage: the previous message stays in the handler.       *)
TakeMessageStale(msg, t) ==
    /\ writing = "idle"
    /\ tally.claims < MaxClaims
    /\ Admissible(msg, Registry, t + MaxSkew)
    /\ DedupKey(msg.body) \notin remembered
    /\ remembered' = remembered \cup {DedupKey(msg.body)}
    /\ writing' = "raw"
    /\ tally' = [tally EXCEPT !.claims = @ + 1]
    /\ UNCHANGED <<file, fragment, broken, held, heldAt>>

(* handleMessage up to its first write: an admitted message with a key the *)
(* process does not remember.                                              *)
TakeMessage(msg, t) ==
    /\ writing = "idle"
    /\ tally.claims < MaxClaims
    /\ Admissible(msg, Registry, t + MaxSkew)
    /\ DedupKey(msg.body) \notin remembered
    /\ remembered' = remembered \cup {DedupKey(msg.body)}
    /\ held' = msg /\ heldAt' = t
    /\ writing' = "raw"
    /\ tally' = [tally EXCEPT !.claims = @ + 1]
    /\ UNCHANGED <<file, fragment, broken>>

AppendRaw ==
    /\ writing = "raw" /\ ~broken
    /\ file' = Grown(LineOf("raw"))
    /\ fragment' = FALSE
    /\ writing' = "measurement"
    /\ UNCHANGED <<broken, held, heldAt, remembered, tally>>

AppendMeasurement ==
    /\ writing = "measurement" /\ ~broken
    /\ file' = Grown(LineOf("measurement"))
    /\ fragment' = FALSE
    /\ writing' = "idle"
    /\ UNCHANGED <<broken, held, heldAt, remembered, tally>>

(* The write fails, with or without some bytes of the line in the file;    *)
(* the handler counts a store error and returns.                           *)
AppendFails ==
    /\ writing # "idle" /\ ~broken
    /\ tally.shortWrites < MaxShortWrites
    /\ fragment' \in {fragment, TRUE}
    /\ broken' = TRUE
    /\ writing' = "idle"
    /\ tally' = [tally EXCEPT !.shortWrites = @ + 1]
    /\ UNCHANGED <<file, held, heldAt, remembered>>

(* From then on every line of this process fails, and nothing is written.  *)
AppendRefused ==
    /\ writing # "idle" /\ broken
    /\ writing' = "idle"
    /\ UNCHANGED <<file, fragment, broken, held, heldAt, remembered, tally>>

(* The process is restarted, between two lines or between two messages:    *)
(* the keys are forgotten, the file stays.                                 *)
RestartSink ==
    /\ tally.restarts < MaxRestarts
    /\ writing' = "idle"
    /\ remembered' = {}
    /\ broken' = FALSE
    /\ tally' = [tally EXCEPT !.restarts = @ + 1]
    /\ UNCHANGED <<file, fragment, held, heldAt>>

SinkStep ==
    \/ \E msg \in Messages, t \in Times : TakeMessage(msg, t)
    \/ AppendRaw \/ AppendMeasurement \/ AppendFails \/ AppendRefused
    \/ RestartSink

-----------------------------------------------------------------------------
SinkTypeOK ==
    /\ file \in Seq(Line \cup {Garbled})
    /\ fragment \in BOOLEAN /\ broken \in BOOLEAN
    /\ held \in Messages \cup {NoMessage}
    /\ heldAt \in Times
    /\ writing \in {"raw", "measurement", "idle"}
    /\ remembered \subseteq Ids \X Timestamp
    /\ tally \in [claims : Nat, shortWrites : Nat, restarts : Nat]

(* Whatever failed write, restart or interleaving shaped the file, the     *)
(* line before a measurement is the raw record of the same message, or was *)
(* until a fragment was glued to it: no reader that stops at a bad line    *)
(* meets a measurement without its provenance.                             *)
RawLineFirst ==
    \A i \in DOMAIN file :
        file[i].kind = "measurement" =>
            /\ i > 1
            /\ file[i - 1] \in {[file[i] EXCEPT !.kind = "raw"], Garbled}
=============================================================================
