-------------------------------- MODULE Api --------------------------------
(***************************************************************************)
(* The REST API (internal/api, internal/store/query.go, analytics.go).     *)
(* Requests run concurrently; a handler is a short program of statements,  *)
(* each with its own snapshot of the tables, and between two of them       *)
(* another request, ingestion or the dbt job may write.  A statement may   *)
(* fail: the database is gone or has not been migrated yet, or the client  *)
(* has hung up.                                                            *)
(*                                                                         *)
(* Identifiers are numbers, in the order of their text.  A listed row is   *)
(* its key: the id of a transformer, the instant of a measurement.  The    *)
(* events table has no writer and is empty.                                *)
(***************************************************************************)
EXTENDS Integers, Sequences, FiniteSets

CONSTANTS Ids,           \* what the pattern TR-\d{3} admits as identifiers
          Designs,       \* designs Transformer.Validate accepts
          Absent,        \* stands for a row that is not there
          Fleets,        \* the fleet CSVs ingestion can be started with
          Instants,      \* instants a measurement can have
          Samples,       \* the <<id, instant>> that can be measured
          Windows,       \* the instants a from/to pair selects
          Asked,         \* values of the limit parameter (0: none)
          DefaultPageLimit, MaxPageLimit,
          Clients,
          Uses,          \* the operations a client uses
          MaxRequests,   \* bound: requests, the pages of a walk included
          MaxStarts,     \* bound: times ingestion is started
          MaxErrors      \* bound: statements and ML calls that fail

Paged == {"list", "telemetry", "events"}
Ops == Paged \cup {"get", "create", "statistics", "similar", "health"}

(* MaxPageLimit is 1000, and so is the number of ids TR-000 to TR-999.     *)
ASSUME ApiAssumption ==
    /\ Ids \subseteq Nat /\ Instants \subseteq Nat
    /\ Absent \notin Designs
    /\ Fleets \subseteq [Ids -> Designs \cup {Absent}]
    /\ Samples \subseteq Ids \X Instants
    /\ Windows \subseteq SUBSET Instants
    /\ Asked \subseteq Int
    /\ Uses \in [Clients -> SUBSET Ops]
    /\ MaxPageLimit \in Nat /\ DefaultPageLimit \in 1 .. MaxPageLimit
    /\ IsFiniteSet(Ids) /\ Cardinality(Ids) <= MaxPageLimit
    /\ {MaxRequests, MaxStarts, MaxErrors} \subseteq Nat

VARIABLES
    transformers,  \* the transformers table: the design of an id, or Absent
    measurements,  \* the measurements table: the instants of an id
    registry,      \* the fleet of the running ingestion service
    gold,          \* whether dbt has built fact_transformer_measurement
    request,       \* of each client, the request being handled
    reply,         \* of each client, the last answer
    created,       \* designs of an id answered with 201, until a fleet replaces them
    requests, starts, errors \* counters behind the bounds

tables == <<transformers, measurements, registry, gold>>
vars == <<tables, request, reply, created, requests, starts, errors>>

-----------------------------------------------------------------------------
(* What a POST may carry.  "oversized" passes Transformer.Validate and is  *)
(* refused by the table: a year beyond 2100, a power that rounds to zero.  *)
Bodies == Designs \cup {"malformed", "invalid", "oversized"}

(* The NOT NULL and CHECK constraints and the widths of transformers.      *)
TableAccepts(body) == body \in Designs

(* Mutant of Steps: a list reads its page before it counts.                *)
StepsPageFirst(op) ==
    CASE op = "list"       -> <<"page", "count">>
      [] op = "telemetry"  -> <<"lookup", "page", "count">>
      [] op = "events"     -> <<"lookup", "page">>
      [] op = "get"        -> <<"lookup">>
      [] op = "create"     -> <<"decode", "insert">>
      [] op = "statistics" -> <<"lookup", "aggregate", "gold">>
      [] op = "similar"    -> <<"lookup", "candidates", "ml">>
      [] op = "health"     -> <<"ping">>

(* The statements of each handler, in their order.                         *)
Steps(op) ==
    CASE op = "list"       -> <<"count", "page">>
      [] op = "telemetry"  -> <<"lookup", "count", "page">>
      [] op = "events"     -> <<"lookup", "page">>
      [] op = "get"        -> <<"lookup">>
      [] op = "create"     -> <<"decode", "insert">>
      [] op = "statistics" -> <<"lookup", "aggregate", "gold">>
      [] op = "similar"    -> <<"lookup", "candidates", "ml">>
      [] op = "health"     -> <<"ping">>

(* Mutant of PageLimit: the cap is forgotten.                              *)
PageLimitUncapped(asked) == IF asked > 0 THEN asked ELSE DefaultPageLimit

(* pageParams: a limit that is no positive number is the default, and none *)
(* exceeds the cap.                                                        *)
PageLimit(asked) ==
    LET n == IF asked > 0 THEN asked ELSE DefaultPageLimit
    IN  IF n > MaxPageLimit THEN MaxPageLimit ELSE n

Registered == {i \in Ids : transformers[i] # Absent}

(* The rows a paged request ranges over, as the tables stand.              *)
Rows(q) ==
    CASE q.op = "list"      -> Registered
      [] q.op = "telemetry" -> measurements[q.id] \cap q.window
      [] OTHER              -> {}

(* Transformers are listed by id, measurements newest first.               *)
Before(q, x, y) == IF q.op = "list" THEN x < y ELSE x > y

(* Mutant of Page: OFFSET counts from one.                                 *)
PageFromOne(q) ==
    {x \in Rows(q) :
        LET position == Cardinality({y \in Rows(q) : Before(q, y, x)})
        IN  q.offset < position /\ position <= q.offset + q.limit}

(* ORDER BY ... LIMIT limit OFFSET offset                                  *)
Page(q) ==
    {x \in Rows(q) :
        LET position == Cardinality({y \in Rows(q) : Before(q, y, x)})
        IN  q.offset <= position /\ position < q.offset + q.limit}

(* Mutant of Candidates: the default limit instead of the largest.         *)
CandidatesOfFirstPage(q) ==
    {i \in Registered : Cardinality({j \in Registered : j < i}) < DefaultPageLimit}
        \ {q.id}

(* handleSimilar: the first thousand transformers, without the target.     *)
Candidates(q) ==
    {i \in Registered : Cardinality({j \in Registered : j < i}) < MaxPageLimit}
        \ {q.id}

-----------------------------------------------------------------------------
Idle(c) == request[c].todo = <<>>
At(c, step) == ~Idle(c) /\ Head(request[c].todo) = step

(* The handler goes on to its next statement; after the last it answers.   *)
Proceed(c, q) ==
    /\ request' = [request EXCEPT ![c] = [q EXCEPT !.todo = Tail(@)]]
    /\ reply' = [reply EXCEPT ![c] = IF Len(q.todo) = 1 THEN 200 ELSE 0]

(* It answers early; the statements that are left are not executed.        *)
Answer(c, status) ==
    /\ request' = [request EXCEPT ![c].todo = <<>>, ![c].found = {}]
    /\ reply' = [reply EXCEPT ![c] = status]

NoRequest ==
    [op |-> "health", id |-> CHOOSE i \in Ids : TRUE, body |-> "malformed",
     window |-> {}, limit |-> 1, offset |-> 0, todo |-> <<>>,
     total |-> 0,       \* what the count returned
     found |-> {},      \* rows of the page, or candidates
     seen |-> {},       \* rows of the earlier pages of this walk
     base |-> {},       \* rows that were there when the walk began
     known |-> {},      \* transformers that were there when it arrived
     inGold |-> FALSE,  \* whether the fact table was there when it arrived
     failed |-> FALSE]  \* whether a statement of it failed

Init ==
    /\ transformers = [i \in Ids |-> Absent]
    /\ measurements = [i \in Ids |-> {}]
    /\ registry = {} /\ gold = FALSE
    /\ request = [c \in Clients |-> NoRequest]
    /\ reply = [c \in Clients |-> 0]
    /\ created = [i \in Ids |-> {}]
    /\ requests = 0 /\ starts = 0 /\ errors = 0

-----------------------------------------------------------------------------
(* What a client can send; a walk over a paged route starts at offset 0.   *)
(* Parameters an operation does not read keep their place in NoRequest.    *)
Addressed(id) ==
    {[NoRequest EXCEPT !.op = op, !.id = id] :
        op \in {"get", "events", "statistics", "similar"}}
    \cup {[NoRequest EXCEPT !.op = "create", !.id = id, !.body = body] : body \in Bodies}
    \cup UNION {{[NoRequest EXCEPT !.op = "telemetry", !.id = id, !.window = window,
                                    !.limit = PageLimit(asked)] : asked \in Asked} :
                   window \in Windows}

Requests ==
    {[NoRequest EXCEPT !.op = "list", !.limit = PageLimit(asked)] : asked \in Asked}
    \cup {[NoRequest EXCEPT !.op = "health"]}
    \cup UNION {Addressed(id) : id \in Ids}

Arrive(c, q) ==
    /\ Idle(c) /\ requests < MaxRequests /\ q.op \in Uses[c]
    /\ requests' = requests + 1
    /\ request' = [request EXCEPT ![c] =
                     [q EXCEPT !.todo = Steps(q.op), !.base = Rows(q),
                               !.known = IF Head(Steps(q.op)) = "lookup" THEN Registered ELSE {},
                               !.inGold = q.op = "statistics" /\ gold]]
    /\ reply' = [reply EXCEPT ![c] = 0]
    /\ UNCHANGED <<tables, created, starts, errors>>

(* The next page of a walk, until a page comes back empty.                 *)
ArriveNext(c) ==
    LET q == request[c] IN
    /\ Idle(c) /\ requests < MaxRequests
    /\ reply[c] = 200 /\ q.op \in Paged /\ q.found # {}
    /\ requests' = requests + 1
    /\ request' = [request EXCEPT ![c] =
                     [q EXCEPT !.offset = @ + Cardinality(q.found),
                               !.seen = @ \cup q.found, !.found = {},
                               !.todo = Steps(q.op),
                               !.known = IF q.op = "list" THEN {} ELSE Registered]]
    /\ reply' = [reply EXCEPT ![c] = 0]
    /\ UNCHANGED <<tables, created, starts, errors>>

Lookup(c) ==
    /\ At(c, "lookup")
    /\ IF request[c].id \in Registered THEN Proceed(c, request[c]) ELSE Answer(c, 404)
    /\ UNCHANGED <<tables, created, requests, starts, errors>>

Count(c) ==
    /\ At(c, "count")
    /\ Proceed(c, [request[c] EXCEPT !.total = Cardinality(Rows(request[c]))])
    /\ UNCHANGED <<tables, created, requests, starts, errors>>

ReadPage(c) ==
    /\ At(c, "page")
    /\ Proceed(c, [request[c] EXCEPT !.found = Page(request[c])])
    /\ UNCHANGED <<tables, created, requests, starts, errors>>

Ping(c) ==
    /\ At(c, "ping")
    /\ Proceed(c, request[c])
    /\ UNCHANGED <<tables, created, requests, starts, errors>>

(* Mutant of Aggregate: no early return for a transformer without samples. *)
AggregateAlways(c) ==
    /\ At(c, "aggregate")
    /\ Proceed(c, request[c])
    /\ UNCHANGED <<tables, created, requests, starts, errors>>

(* Without measurements the answer is all zeros and gold is not asked.     *)
Aggregate(c) ==
    /\ At(c, "aggregate")
    /\ IF measurements[request[c].id] = {} THEN Answer(c, 200) ELSE Proceed(c, request[c])
    /\ UNCHANGED <<tables, created, requests, starts, errors>>

(* The stress average comes from a table that dbt creates.                 *)
ReadGold(c) ==
    /\ At(c, "gold")
    /\ IF gold THEN Proceed(c, request[c]) ELSE Answer(c, 500)
    /\ UNCHANGED <<tables, created, requests, starts, errors>>

ListCandidates(c) ==
    /\ At(c, "candidates")
    /\ Proceed(c, [request[c] EXCEPT !.found = Candidates(request[c])])
    /\ UNCHANGED <<tables, created, requests, starts, errors>>

(* The ML service fits its scaler to the candidates and has nothing to fit *)
(* when there are none: it answers 400.                                    *)
SimilarityAnswers(candidates) == candidates # {}

(* Anything but 200 from the ML service is "unavailable" to the handler.   *)
CallML(c) ==
    /\ At(c, "ml")
    /\ IF SimilarityAnswers(request[c].found)
       THEN Proceed(c, request[c])
       ELSE Answer(c, 503)
    /\ UNCHANGED <<tables, created, requests, starts, errors>>

(* json.Decode, then Transformer.Validate.                                 *)
Decode(c) ==
    /\ At(c, "decode")
    /\ CASE request[c].body = "malformed" -> Answer(c, 400)
         [] request[c].body = "invalid"   -> Answer(c, 422)
         [] OTHER                         -> Proceed(c, request[c])
    /\ UNCHANGED <<tables, created, requests, starts, errors>>

(* Mutant of Insert: the upsert of UpsertTransformers is used.             *)
InsertOver(c) ==
    LET q == request[c] IN
    /\ At(c, "insert") /\ TableAccepts(q.body)
    /\ Answer(c, 201)
    /\ transformers' = [transformers EXCEPT ![q.id] = q.body]
    /\ created' = [created EXCEPT ![q.id] = @ \cup {q.body}]
    /\ UNCHANGED <<measurements, registry, gold, requests, starts, errors>>

(* INSERT INTO transformers: the CHECK constraints come first, then a      *)
(* duplicate id is a conflict.  A body stands for the row it becomes: two  *)
(* designs that numeric(.., 2) rounds to one row are one here, and that    *)
(* the 201 echoes the design as it was before the rounding is left out.    *)
Insert(c) ==
    LET q == request[c]
        stored == TableAccepts(q.body) /\ q.id \notin Registered
    IN
    /\ At(c, "insert")
    /\ Answer(c, CASE ~TableAccepts(q.body) -> 500 [] stored -> 201 [] OTHER -> 409)
    /\ transformers' = IF stored THEN [transformers EXCEPT ![q.id] = q.body]
                                 ELSE transformers
    /\ created' = IF stored THEN [created EXCEPT ![q.id] = @ \cup {q.body}]
                            ELSE created
    /\ UNCHANGED <<measurements, registry, gold, requests, starts, errors>>

(* A failing lookup is "not found" to three of the handlers.               *)
LookupFailure(op) == IF op \in {"telemetry", "events", "statistics"} THEN 404 ELSE 500

(* A statement fails, or the ML service does not answer.  An INSERT whose  *)
(* answer is lost may have been committed.                                 *)
StepFails(c) ==
    LET q == request[c]
        status == CASE At(c, "lookup")            -> LookupFailure(q.op)
                    [] At(c, "ml") \/ At(c, "ping") -> 503
                    [] OTHER                      -> 500
    IN
    /\ ~Idle(c) /\ ~At(c, "decode")
    /\ errors < MaxErrors
    /\ errors' = errors + 1
    /\ request' = [request EXCEPT ![c].todo = <<>>, ![c].found = {}, ![c].failed = TRUE]
    /\ reply' = [reply EXCEPT ![c] = status]
    /\ \/ UNCHANGED transformers
       \/ /\ At(c, "insert") /\ q.id \notin Registered /\ TableAccepts(q.body)
          /\ transformers' = [transformers EXCEPT ![q.id] = q.body]
    /\ UNCHANGED <<measurements, registry, gold, created, requests, starts>>

-----------------------------------------------------------------------------
(* Ingestion starts: its fleet is upserted in one transaction, over what   *)
(* the API may have registered.                                            *)
StartIngestion(fleet) ==
    /\ starts < MaxStarts
    /\ starts' = starts + 1
    /\ registry' = {i \in Ids : fleet[i] # Absent}
    /\ transformers' = [i \in Ids |->
                          IF i \in registry' THEN fleet[i] ELSE transformers[i]]
    /\ created' = [i \in Ids |-> IF i \in registry' THEN {} ELSE created[i]]
    /\ UNCHANGED <<measurements, gold, request, reply, requests, errors>>

(* A measurement of the fleet is written, late ones too.                   *)
Ingest(i, t) ==
    /\ i \in registry /\ t \notin measurements[i]
    /\ measurements' = [measurements EXCEPT ![i] = @ \cup {t}]
    /\ UNCHANGED <<transformers, registry, gold, request, reply, created, requests, starts, errors>>

(* The first dbt job creates the fact table.                               *)
BuildGold ==
    /\ ~gold /\ gold' = TRUE
    /\ UNCHANGED <<transformers, measurements, registry, request, reply, created,
                   requests, starts, errors>>

Handle(c) ==
    \/ Lookup(c) \/ Count(c) \/ ReadPage(c) \/ Ping(c) \/ Aggregate(c)
    \/ ReadGold(c) \/ ListCandidates(c) \/ CallML(c) \/ Decode(c) \/ Insert(c)

Next ==
    \/ \E c \in Clients :
         \/ \E q \in Requests : Arrive(c, q)
         \/ ArriveNext(c)
         \/ Handle(c)
         \/ StepFails(c)
    \/ \E fleet \in Fleets : StartIngestion(fleet)
    \/ \E sample \in Samples : Ingest(sample[1], sample[2])
    \/ BuildGold

Spec == Init /\ [][Next]_vars

-----------------------------------------------------------------------------
(* The tables hold what their columns allow, a handler is somewhere in its *)
(* list of statements, and what it found lies within the page it asked for.*)
ApiTypeOK ==
    /\ transformers \in [Ids -> Designs \cup {Absent}]
    /\ measurements \in [Ids -> SUBSET Instants]
    /\ created \in [Ids -> SUBSET Designs] /\ registry \subseteq Registered
    /\ \A i \in Ids : measurements[i] # {} => i \in Registered
    /\ \A c \in Clients :
         LET q == request[c] IN
         /\ \E k \in 1 .. 4 : q.todo = SubSeq(Steps(q.op), k, Len(Steps(q.op)))
         /\ reply[c] \in {0, 200, 201, 400, 404, 409, 422, 500, 503}
         /\ ~Idle(c) => reply[c] = 0
         /\ q.op \in Paged => Cardinality(q.found) <= q.limit
         /\ q.limit \in 1 .. MaxPageLimit

(* A client that walks GET /transformers or .../telemetry page by page     *)
(* until an empty page has seen every row that was there when it began,    *)
(* whatever was inserted meanwhile, late samples included: rows shift to   *)
(* later pages only (query.go: ORDER BY ... LIMIT ... OFFSET).             *)
WalkMissesNothing ==
    \A c \in Clients :
        LET q == request[c] IN
        (q.op \in Paged /\ reply[c] = 200 /\ q.found = {}) => q.base \subseteq q.seen

(* The total of a list is read before its page (transformers.go:48,54;     *)
(* measurements.go:22,28): a page that is not full reaches the total, so   *)
(* that a client that stops at a short page has not been told of more.     *)
ShortPageReachesTotal ==
    \A c \in Clients :
        LET q == request[c] IN
        (q.op \in {"list", "telemetry"} /\ reply[c] = 200 /\ Cardinality(q.found) < q.limit)
            => q.offset + Cardinality(q.found) >= q.total

(* A design POST /transformers has answered with 201 is the one that is    *)
(* stored, however requests race, fail after the commit or are repeated,   *)
(* until ingestion is started with a fleet that has its own design for it. *)
CreatedDesignStands ==
    \A i \in Ids : \A design \in created[i] : transformers[i] = design

(* The ML service is offered every other design that was registered when   *)
(* the request arrived, and not the target: the limit of 1000 cuts nothing *)
(* off, because the pattern of the ids admits no more.                     *)
CandidatesAreComplete ==
    \A c \in Clients :
        At(c, "ml") => /\ request[c].known \ {request[c].id} \subseteq request[c].found
                       /\ request[c].id \notin request[c].found

(* A 500 or 503 has a cause: a statement or the ML service failed, the     *)
(* table refused a design the validation had let through, the statistics   *)
(* of a transformer with samples were asked for before dbt had built gold, *)
(* or a transformer was to be compared when no other was registered.       *)
ServerErrorsHaveACause ==
    \A c \in Clients :
        LET q == request[c] IN
        reply[c] \in {500, 503} =>
            \/ q.failed
            \/ q.body = "oversized"
            \/ q.op = "statistics" /\ ~q.inGold /\ measurements[q.id] # {}
            \/ q.op = "similar" /\ q.known \subseteq {q.id}
=============================================================================
