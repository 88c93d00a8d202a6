----------------------------- MODULE ApiProofs -----------------------------
(***************************************************************************)
(* The properties of the REST API for any ids, designs, fleets and         *)
(* clients.  RegistryInv: a registration that was confirmed stands,        *)
(* because INSERT finds its id free.  RequestInv: the candidates for the   *)
(* ML service are complete, because transformers never disappear and there *)
(* are no more ids than rows in the largest page.  AnswerInv: the pages of *)
(* a walk, the total of a list and the cause of a server error, because    *)
(* rows are only added and a statement is reached only through those       *)
(* before it.                                                              *)
(***************************************************************************)
EXTENDS Api, FiniteSetTheorems, SequenceTheorems, TLAPS

DesignsTyped ==
    /\ transformers \in [Ids -> Designs \cup {Absent}]
    /\ created \in [Ids -> SUBSET Designs]

RegistryInv == DesignsTyped /\ CreatedDesignStands

-----------------------------------------------------------------------------
LEMMA RegistryInvInit == Init => RegistryInv
BY DEF Init, RegistryInv, DesignsTyped, CreatedDesignStands

(* What a step may do to the designs.                                      *)
Registers(c) ==
    LET q == request[c] IN
    /\ q.body \in Designs /\ q.id \notin Registered
    /\ transformers' = [transformers EXCEPT ![q.id] = q.body]
    /\ \/ created' = [created EXCEPT ![q.id] = @ \cup {q.body}]
       \/ created' = created

LEMMA DesignSteps ==
    ASSUME [Next]_vars
    PROVE  \/ UNCHANGED <<transformers, created>>
           \/ \E c \in Clients : Registers(c)
           \/ \E fleet \in Fleets : StartIngestion(fleet)
<1>1. ASSUME NEW c \in Clients, NEW q \in Requests, Arrive(c, q)
      PROVE  UNCHANGED <<transformers, created>>
  BY <1>1 DEF Arrive, tables
<1>2. ASSUME NEW c \in Clients, ArriveNext(c)
      PROVE  UNCHANGED <<transformers, created>>
  BY <1>2 DEF ArriveNext, tables
<1>3. ASSUME NEW c \in Clients, Handle(c)
      PROVE  UNCHANGED <<transformers, created>> \/ Registers(c)
  <2>1. CASE Insert(c)
    BY <2>1 DEF Insert, Registers, TableAccepts
  <2>2. CASE ~Insert(c)
    BY <1>3, <2>2
       DEF Handle, Lookup, Count, ReadPage, Ping, Aggregate, ReadGold, ListCandidates,
           CallML, Decode, tables
  <2> QED BY <2>1, <2>2
<1>4. ASSUME NEW c \in Clients, StepFails(c)
      PROVE  UNCHANGED <<transformers, created>> \/ Registers(c)
  BY <1>4 DEF StepFails, Registers, TableAccepts
<1>5. ASSUME NEW i, NEW t, Ingest(i, t) PROVE UNCHANGED <<transformers, created>>
  BY <1>5 DEF Ingest
<1>6. CASE BuildGold \/ UNCHANGED vars
  BY <1>6 DEF BuildGold, vars, tables
<1> QED BY <1>1, <1>2, <1>3, <1>4, <1>5, <1>6 DEF Next

LEMMA RegistersKeeps ==
    ASSUME RegistryInv, NEW c \in Clients, Registers(c)
    PROVE  RegistryInv' /\ Registered \subseteq Registered'
<1> DEFINE q == request[c]
<1>1. DesignsTyped'
  <2>1. transformers' \in [Ids -> Designs \cup {Absent}]
    BY DEF RegistryInv, DesignsTyped, Registers
  <2>2. created' \in [Ids -> SUBSET Designs]
    <3>1. CASE created' = created
      BY <3>1 DEF RegistryInv, DesignsTyped
    <3>2. CASE created' = [created EXCEPT ![q.id] = @ \cup {q.body}]
      <4>1. q.id \in Ids => created[q.id] \cup {q.body} \in SUBSET Designs
        BY DEF RegistryInv, DesignsTyped, Registers
      <4> HIDE DEF q
      <4> QED BY <3>2, <4>1 DEF RegistryInv, DesignsTyped
    <3> QED BY <3>1, <3>2 DEF Registers
  <2> QED BY <2>1, <2>2 DEF DesignsTyped
<1>2. ASSUME NEW i \in Ids, i = q.id PROVE created[i] = {}
  <2>1. transformers[i] = Absent
    BY <1>2 DEF Registers, Registered
  <2>2. \A design \in created[i] : transformers[i] = design /\ design \in Designs
    BY DEF RegistryInv, DesignsTyped, CreatedDesignStands
  <2> QED BY <2>1, <2>2, ApiAssumption
<1>3. CreatedDesignStands'
  <2> SUFFICES ASSUME NEW i \in Ids, NEW design \in created'[i]
               PROVE  transformers'[i] = design
    BY DEF CreatedDesignStands
  <2>1. CASE i = q.id
    BY <1>2, <2>1 DEF Registers, RegistryInv, DesignsTyped
  <2>2. CASE i # q.id
    <3>1. design \in created[i] /\ transformers'[i] = transformers[i]
      BY <2>2 DEF Registers, RegistryInv, DesignsTyped
    <3> QED BY <3>1 DEF RegistryInv, CreatedDesignStands
  <2> QED BY <2>1, <2>2
<1>4. Registered \subseteq Registered'
  BY ApiAssumption DEF Registered, Registers, RegistryInv, DesignsTyped
<1> QED BY <1>1, <1>3, <1>4 DEF RegistryInv

LEMMA IngestionKeeps ==
    ASSUME RegistryInv, NEW fleet \in Fleets, StartIngestion(fleet)
    PROVE  RegistryInv' /\ Registered \subseteq Registered'
<1>1. /\ registry' = {i \in Ids : fleet[i] # Absent}
      /\ transformers' = [i \in Ids |-> IF i \in registry' THEN fleet[i] ELSE transformers[i]]
      /\ created' = [i \in Ids |-> IF i \in registry' THEN {} ELSE created[i]]
      /\ fleet \in [Ids -> Designs \cup {Absent}]
  BY ApiAssumption DEF StartIngestion
<1>2. DesignsTyped'
  BY <1>1 DEF RegistryInv, DesignsTyped
<1>3. CreatedDesignStands'
  BY <1>1 DEF RegistryInv, CreatedDesignStands
<1>4. Registered \subseteq Registered'
  BY <1>1 DEF Registered
<1> QED BY <1>2, <1>3, <1>4 DEF RegistryInv

(* Designs are replaced, never removed.                                    *)
LEMMA RegistryInvNext ==
    ASSUME RegistryInv, [Next]_vars
    PROVE  RegistryInv' /\ Registered \subseteq Registered'
<1>1. CASE UNCHANGED <<transformers, created>>
  BY <1>1 DEF RegistryInv, DesignsTyped, CreatedDesignStands, Registered
<1> QED BY <1>1, DesignSteps, RegistersKeeps, IngestionKeeps

(* A design answered with 201 is the stored one, whatever races, fails     *)
(* after its commit or is repeated (CreateTransformer), until a fleet with *)
(* its own design for the id is loaded.                                    *)
THEOREM ConfirmedDesignStands == Spec => []CreatedDesignStands
<1>1. RegistryInv => CreatedDesignStands
  BY DEF RegistryInv
<1> QED BY <1>1, RegistryInvInit, RegistryInvNext, PTL DEF Spec

-----------------------------------------------------------------------------
(* The candidates.  What the proof needs of a request: it is a record of   *)
(* NoRequest's fields; only a similarity request has the two statements in *)
(* question, and it has them in their order.                               *)
Shaped(q) ==
    q \in [op : Ops, id : {q.id}, body : {q.body}, window : {q.window}, limit : {q.limit},
           offset : {q.offset}, todo : {q.todo}, total : {q.total}, found : {q.found},
           seen : {q.seen}, base : {q.base}, known : {q.known}, inGold : {q.inGold},
           failed : {q.failed}]

InOrder(q) ==
    IF q.op = "similar"
    THEN q.todo \in {<<>>, <<"lookup", "candidates", "ml">>, <<"candidates", "ml">>, <<"ml">>}
    ELSE q.todo \in Seq({"lookup", "count", "page", "decode", "insert", "aggregate", "gold", "ping"})

Complete(q) ==
    q.todo = <<"ml">> => q.known \ {q.id} \subseteq q.found /\ q.id \notin q.found

RequestInv ==
    /\ request = [c \in Clients |-> request[c]]
    /\ \A c \in Clients :
         LET q == request[c] IN
         Shaped(q) /\ InOrder(q) /\ q.known \subseteq Registered
           /\ (q.op = "similar" => Complete(q))

(* As many ids as the largest page: nobody is beyond the first page.       *)
LEMMA NobodyCutOff == \A q : Candidates(q) = Registered \ {q.id}
<1> SUFFICES ASSUME NEW q, NEW i \in Registered
             PROVE  Cardinality({j \in Registered : j < i}) < MaxPageLimit
  BY DEF Candidates
<1> DEFINE below == {j \in Registered : j < i}
<1>1. IsFiniteSet(Ids) /\ i \in Ids /\ i \in Nat /\ Cardinality(Ids) <= MaxPageLimit
  BY ApiAssumption DEF Registered
<1>2. below \subseteq Ids \ {i}
  BY <1>1, ApiAssumption DEF Registered
<1>3. IsFiniteSet(Ids \ {i}) /\ Cardinality(Ids \ {i}) = Cardinality(Ids) - 1
  BY <1>1, FS_RemoveElement
<1>4. Cardinality(below) <= Cardinality(Ids \ {i}) /\ Cardinality(below) \in Nat
  BY <1>2, <1>3, FS_Subset, FS_CardinalityType
<1>5. Cardinality(Ids) \in Nat /\ MaxPageLimit \in Int
  BY <1>1, FS_CardinalityType, ApiAssumption
<1> QED BY <1>1, <1>3, <1>4, <1>5

LEMMA NoRequestShaped ==
    /\ Shaped(NoRequest) /\ InOrder(NoRequest)
    /\ NoRequest.known = {} /\ NoRequest.op = "health" /\ NoRequest.todo = <<>>
BY DEF Shaped, InOrder, NoRequest, Ops, Paged

LEMMA RequestInvInit == Init => RequestInv
BY NoRequestShaped DEF Init, RequestInv

(* One request changes, to one that fits; designs are never removed.       *)
LEMMA OneRequest ==
    ASSUME RequestInv, Registered \subseteq Registered', NEW c \in Clients, NEW q,
           request' = [request EXCEPT ![c] = q],
           Shaped(q), InOrder(q), q.known \subseteq Registered',
           q.op = "similar" => Complete(q)
    PROVE  RequestInv'
<1>1. request' = [d \in Clients |-> request'[d]]
  BY DEF RequestInv
<1>2. \A d \in Clients : request'[d] = IF d = c THEN q ELSE request[d]
  BY DEF RequestInv
<1>3. ASSUME NEW d \in Clients
      PROVE  LET r == request'[d] IN
             Shaped(r) /\ InOrder(r) /\ r.known \subseteq Registered'
               /\ (r.op = "similar" => Complete(r))
  BY <1>2 DEF RequestInv
<1> QED BY <1>1, <1>3 DEF RequestInv, Shaped, InOrder, Complete

(* A request whose remaining statements are dropped.                       *)
LEMMA Dropped ==
    ASSUME NEW q, Shaped(q),
           NEW r, \/ r = [q EXCEPT !.todo = <<>>, !.found = {}]
                  \/ r = [q EXCEPT !.todo = <<>>, !.found = {}, !.failed = TRUE]
    PROVE  /\ Shaped(r) /\ InOrder(r) /\ r.known = q.known /\ Complete(r)
<1>1. Shaped(r) /\ r.known = q.known /\ r.todo = <<>>
  <2>1. CASE r = [q EXCEPT !.todo = <<>>, !.found = {}]
    BY <2>1 DEF Shaped
  <2>2. CASE r = [q EXCEPT !.todo = <<>>, !.found = {}, !.failed = TRUE]
    BY <2>2 DEF Shaped
  <2> QED BY <2>1, <2>2
<1> QED BY <1>1 DEF InOrder, Complete

(* A request that goes on to its next statement.                           *)
LEMMA Advanced ==
    ASSUME NEW q, Shaped(q), InOrder(q), q.todo # <<>>,
           NEW r, r = [q EXCEPT !.todo = Tail(@)]
    PROVE  /\ Shaped(r) /\ InOrder(r)
           /\ r.op = q.op /\ r.id = q.id /\ r.known = q.known /\ r.found = q.found
           /\ r.op = "similar" /\ r.todo = <<"ml">> => Head(q.todo) = "candidates"
<1>1. /\ Shaped(r) /\ r.op = q.op /\ r.id = q.id /\ r.known = q.known /\ r.found = q.found
      /\ r.todo = Tail(q.todo)
  BY DEF Shaped
<1>2. CASE q.op = "similar"
  <2>1. q.todo \in {<<"lookup", "candidates", "ml">>, <<"candidates", "ml">>, <<"ml">>}
    BY <1>2 DEF InOrder
  <2>2. CASE q.todo = <<"lookup", "candidates", "ml">>
    <3>1. Tail(q.todo) = <<"candidates", "ml">>
      BY <2>2
    <3>2. r.todo # <<"ml">>
      <4>1. Len(<<"candidates", "ml">>) = 2 /\ Len(<<"ml">>) = 1
        OBVIOUS
      <4> QED BY <4>1, <3>1, <1>1
    <3> QED BY <1>1, <1>2, <3>1, <3>2 DEF InOrder
  <2>3. CASE q.todo = <<"candidates", "ml">>
    <3>1. Tail(q.todo) = <<"ml">> /\ Head(q.todo) = "candidates"
      BY <2>3
    <3> QED BY <1>1, <1>2, <3>1 DEF InOrder
  <2>4. CASE q.todo = <<"ml">>
    <3>1. Tail(q.todo) = <<>>
      BY <2>4
    <3>2. r.todo # <<"ml">>
      BY <3>1, <1>1
    <3> QED BY <1>1, <1>2, <3>1, <3>2 DEF InOrder
  <2> QED BY <2>1, <2>2, <2>3, <2>4
<1>3. CASE q.op # "similar"
  BY <1>1, <1>3 DEF InOrder
<1> QED BY <1>2, <1>3

LEMMA Gone ==
    ASSUME RequestInv, Registered \subseteq Registered', NEW c \in Clients,
           \/ request' = [request EXCEPT ![c].todo = <<>>, ![c].found = {}]
           \/ request' = [request EXCEPT ![c].todo = <<>>, ![c].found = {}, ![c].failed = TRUE]
    PROVE  RequestInv'
<1> DEFINE q == request[c]
<1>1. Shaped(q) /\ InOrder(q) /\ q.known \subseteq Registered
  BY DEF RequestInv
<1>2. PICK r : /\ request' = [request EXCEPT ![c] = r]
               /\ \/ r = [q EXCEPT !.todo = <<>>, !.found = {}]
                  \/ r = [q EXCEPT !.todo = <<>>, !.found = {}, !.failed = TRUE]
  <2>1. CASE request' = [request EXCEPT ![c].todo = <<>>, ![c].found = {}]
    <3>1. request' = [request EXCEPT ![c] = [q EXCEPT !.todo = <<>>, !.found = {}]]
      BY <2>1 DEF RequestInv
    <3> QED BY <3>1
  <2>2. CASE request' = [request EXCEPT ![c].todo = <<>>, ![c].found = {}, ![c].failed = TRUE]
    <3>1. request' = [request EXCEPT ![c] = [q EXCEPT !.todo = <<>>, !.found = {}, !.failed = TRUE]]
      BY <2>2 DEF RequestInv
    <3> QED BY <3>1
  <2> QED BY <2>1, <2>2
<1> HIDE DEF q
<1>3. Shaped(r) /\ InOrder(r) /\ r.known = q.known /\ Complete(r)
  BY <1>1, <1>2, Dropped
<1> QED BY <1>1, <1>2, <1>3, OneRequest

LEMMA GoesOn ==
    ASSUME RequestInv, Registered \subseteq Registered', NEW c \in Clients, ~Idle(c),
           NEW q, Proceed(c, q), Shaped(q),
           q.op = request[c].op, q.todo = request[c].todo,
           q.known = request[c].known,
           Head(q.todo) = "candidates" => q.known \ {q.id} \subseteq q.found /\ q.id \notin q.found
    PROVE  RequestInv'
<1> DEFINE r == [q EXCEPT !.todo = Tail(@)]
<1>1. request' = [request EXCEPT ![c] = r]
  BY DEF Proceed
<1>2. InOrder(q) /\ q.known \subseteq Registered /\ q.todo # <<>>
  BY DEF RequestInv, InOrder, Idle
<1>3. /\ Shaped(r) /\ InOrder(r)
      /\ r.op = q.op /\ r.id = q.id /\ r.known = q.known /\ r.found = q.found
      /\ r.op = "similar" /\ r.todo = <<"ml">> => Head(q.todo) = "candidates"
  BY <1>2, Advanced
<1> HIDE DEF r
<1>4. r.op = "similar" => Complete(r)
  BY <1>3 DEF Complete
<1> QED BY <1>1, <1>2, <1>3, <1>4, OneRequest

(* What a handler does to its request.                                     *)
LEMMA HandlerKeeps ==
    ASSUME RequestInv, Registered \subseteq Registered', NEW c \in Clients, Handle(c)
    PROVE  RequestInv'
<1> DEFINE q == request[c]
<1>1. Shaped(q) /\ q.known \subseteq Registered
  BY DEF RequestInv
<1>2. ASSUME NEW status, Answer(c, status) PROVE RequestInv'
  BY <1>2, Gone DEF Answer
<1>3. ASSUME ~Idle(c), Head(q.todo) # "candidates", Proceed(c, q) PROVE RequestInv'
  BY <1>1, <1>3, GoesOn
<1>4. ASSUME NEW total, ~Idle(c), Head(q.todo) # "candidates",
             Proceed(c, [q EXCEPT !.total = total])
      PROVE  RequestInv'
  <2> DEFINE r == [q EXCEPT !.total = total]
  <2>1. Shaped(r) /\ r.op = q.op /\ r.todo = q.todo /\ r.known = q.known
    BY <1>1 DEF Shaped
  <2> HIDE DEF r
  <2> QED BY <1>4, <2>1, GoesOn DEF r
<1>5. ASSUME NEW found, ~Idle(c), Proceed(c, [q EXCEPT !.found = found]),
             Head(q.todo) = "candidates" => q.known \ {q.id} \subseteq found /\ q.id \notin found
      PROVE  RequestInv'
  <2> DEFINE r == [q EXCEPT !.found = found]
  <2>1. /\ Shaped(r) /\ r.op = q.op /\ r.todo = q.todo /\ r.known = q.known
        /\ r.id = q.id /\ r.found = found
    BY <1>1 DEF Shaped
  <2> HIDE DEF r
  <2>2. Head(r.todo) = "candidates" => r.known \ {r.id} \subseteq r.found /\ r.id \notin r.found
    BY <1>5, <2>1
  <2> HIDE DEF q
  <2> QED BY <1>5, <2>1, <2>2, GoesOn DEF r, q
<1>6. CASE Lookup(c)
  BY <1>2, <1>3, <1>6 DEF Lookup, At
<1>7. CASE Count(c)
  BY <1>4, <1>7 DEF Count, At
<1>8. CASE ReadPage(c)
  BY <1>5, <1>8 DEF ReadPage, At
<1>9. CASE Ping(c) \/ CallML(c)
  BY <1>2, <1>3, <1>9 DEF Ping, CallML, At
<1>10. CASE Aggregate(c) \/ ReadGold(c)
  BY <1>2, <1>3, <1>10 DEF Aggregate, ReadGold, At
<1>11. CASE ListCandidates(c)
  <2>1. ~Idle(c) /\ Proceed(c, [q EXCEPT !.found = Candidates(q)])
    BY <1>11 DEF ListCandidates, At
  <2>2. q.known \ {q.id} \subseteq Candidates(q) /\ q.id \notin Candidates(q)
    <3>1. Candidates(q) = Registered \ {q.id}
      BY NobodyCutOff
    <3> HIDE DEF q
    <3> QED BY <1>1, <3>1
  <2> QED BY <1>5, <2>1, <2>2
<1>12. CASE Decode(c)
  BY <1>2, <1>3, <1>12 DEF Decode, At
<1>13. CASE Insert(c)
  BY <1>2, <1>13 DEF Insert
<1> QED BY <1>6, <1>7, <1>8, <1>9, <1>10, <1>11, <1>12, <1>13 DEF Handle

LEMMA AddressedShaped ==
    ASSUME NEW id, NEW q \in Addressed(id)
    PROVE  Shaped(q) /\ q.op \in Ops
<1>1. CASE q \in {[NoRequest EXCEPT !.op = op, !.id = id] :
                    op \in {"get", "events", "statistics", "similar"}}
  <2>1. PICK op \in {"get", "events", "statistics", "similar"} :
               q = [NoRequest EXCEPT !.op = op, !.id = id]
    BY <1>1
  <2> QED BY <2>1, NoRequestShaped DEF Shaped, Ops, Paged
<1>2. CASE q \in {[NoRequest EXCEPT !.op = "create", !.id = id, !.body = body] : body \in Bodies}
  <2>1. PICK body \in Bodies : q = [NoRequest EXCEPT !.op = "create", !.id = id, !.body = body]
    BY <1>2
  <2> QED BY <2>1, NoRequestShaped DEF Shaped, Ops, Paged
<1>3. CASE q \in UNION {{[NoRequest EXCEPT !.op = "telemetry", !.id = id, !.window = window,
                                             !.limit = PageLimit(asked)] : asked \in Asked} :
                          window \in Windows}
  <2>1. PICK window \in Windows :
               q \in {[NoRequest EXCEPT !.op = "telemetry", !.id = id, !.window = window,
                                        !.limit = PageLimit(asked)] : asked \in Asked}
    BY <1>3
  <2>2. PICK asked \in Asked :
               q = [NoRequest EXCEPT !.op = "telemetry", !.id = id, !.window = window,
                                     !.limit = PageLimit(asked)]
    BY <2>1
  <2> QED BY <2>2, NoRequestShaped DEF Shaped, Ops, Paged
<1> QED BY <1>1, <1>2, <1>3 DEF Addressed

LEMMA RequestsShaped ==
    ASSUME NEW q \in Requests
    PROVE  Shaped(q) /\ q.op \in Ops
<1>1. CASE q \in {[NoRequest EXCEPT !.op = "list", !.limit = PageLimit(asked)] : asked \in Asked}
  <2>1. PICK asked \in Asked : q = [NoRequest EXCEPT !.op = "list", !.limit = PageLimit(asked)]
    BY <1>1
  <2> QED BY <2>1, NoRequestShaped DEF Shaped, Ops, Paged
<1>2. CASE q = [NoRequest EXCEPT !.op = "health"]
  BY <1>2, NoRequestShaped DEF Shaped, Ops, Paged
<1>3. CASE q \in UNION {Addressed(id) : id \in Ids}
  BY <1>3, AddressedShaped
<1> QED BY <1>1, <1>2, <1>3 DEF Requests

LEMMA StepsInOrder ==
    ASSUME NEW q, q.op \in Ops, q.todo = Steps(q.op)
    PROVE  InOrder(q) /\ q.todo # <<"ml">>
<1>1. CASE q.op = "similar"
  <2>1. Len(<<"lookup", "candidates", "ml">>) = 3 /\ Len(<<"ml">>) = 1
    OBVIOUS
  <2> QED BY <1>1, <2>1 DEF InOrder, Steps
<1>2. CASE q.op = "list"
  BY <1>2 DEF InOrder, Steps
<1>3. CASE q.op = "telemetry"
  BY <1>3 DEF InOrder, Steps
<1>4. CASE q.op = "events"
  BY <1>4 DEF InOrder, Steps
<1>5. CASE q.op = "get"
  BY <1>5 DEF InOrder, Steps
<1>6. CASE q.op = "create"
  BY <1>6 DEF InOrder, Steps
<1>7. CASE q.op = "statistics"
  BY <1>7 DEF InOrder, Steps
<1>8. CASE q.op = "health"
  BY <1>8 DEF InOrder, Steps
<1> QED BY <1>1, <1>2, <1>3, <1>4, <1>5, <1>6, <1>7, <1>8 DEF Ops, Paged

LEMMA ArrivalKeeps ==
    ASSUME RequestInv, Registered \subseteq Registered', NEW c \in Clients,
           ArriveNext(c) \/ \E q \in Requests : Arrive(c, q)
    PROVE  RequestInv'
<1>1. ASSUME NEW r, request' = [request EXCEPT ![c] = r], Shaped(r), r.op \in Ops,
             r.todo = Steps(r.op), r.known \subseteq Registered
      PROVE  RequestInv'
  <2>1. InOrder(r) /\ Complete(r)
    BY <1>1, StepsInOrder DEF Complete
  <2> QED BY <1>1, <2>1, OneRequest
<1>2. ASSUME NEW q \in Requests, Arrive(c, q) PROVE RequestInv'
  <2> DEFINE known == IF Head(Steps(q.op)) = "lookup" THEN Registered ELSE {}
             inGold == q.op = "statistics" /\ gold
             r == [q EXCEPT !.todo = Steps(q.op), !.base = Rows(q), !.known = known,
                            !.inGold = inGold]
  <2>1. Shaped(q) /\ q.op \in Ops
    BY RequestsShaped
  <2>2. known \subseteq Registered
    OBVIOUS
  <2>3. request' = [request EXCEPT ![c] = r]
    BY <1>2 DEF Arrive
  <2> HIDE DEF known, inGold
  <2>4. Shaped(r) /\ r.op = q.op /\ r.todo = Steps(q.op) /\ r.known = known
    BY <2>1 DEF Shaped
  <2> HIDE DEF r
  <2> QED BY <1>1, <2>1, <2>2, <2>3, <2>4
<1>3. CASE ArriveNext(c)
  <2> DEFINE q == request[c]
             offset == q.offset + Cardinality(q.found)
             seen == q.seen \cup q.found
             known == IF q.op = "list" THEN {} ELSE Registered
             r == [q EXCEPT !.offset = offset, !.seen = seen, !.found = {},
                            !.todo = Steps(q.op), !.known = known]
  <2>1. Shaped(q)
    BY DEF RequestInv
  <2>2. q.op \in Ops /\ known \subseteq Registered
    BY <1>3 DEF ArriveNext, Ops
  <2>3. request' = [request EXCEPT ![c] = r]
    <3>1. [q EXCEPT !.offset = @ + Cardinality(q.found), !.seen = @ \cup q.found, !.found = {},
                    !.todo = Steps(q.op), !.known = known] = r
      BY <2>1 DEF Shaped
    <3> QED BY <1>3, <3>1 DEF ArriveNext
  <2> HIDE DEF q, known, offset, seen
  <2>4. Shaped(r) /\ r.op = q.op /\ r.todo = Steps(q.op) /\ r.known = known
    BY <2>1 DEF Shaped
  <2> HIDE DEF r
  <2> QED BY <1>1, <2>2, <2>3, <2>4
<1> QED BY <1>2, <1>3

LEMMA RequestInvNext ==
    ASSUME RegistryInv, RequestInv, [Next]_vars
    PROVE  RequestInv'
<1>1. Registered \subseteq Registered'
  BY RegistryInvNext
<1>2. CASE UNCHANGED request
  BY <1>1, <1>2 DEF RequestInv, Shaped, InOrder, Complete
<1>3. ASSUME NEW c \in Clients, ArriveNext(c) \/ \E q \in Requests : Arrive(c, q)
      PROVE  RequestInv'
  BY <1>1, <1>3, ArrivalKeeps
<1>4. ASSUME NEW c \in Clients, Handle(c) PROVE RequestInv'
  BY <1>1, <1>4, HandlerKeeps
<1>5. ASSUME NEW c \in Clients, StepFails(c) PROVE RequestInv'
  BY <1>1, <1>5, Gone DEF StepFails
<1>6. CASE \/ \E fleet \in Fleets : StartIngestion(fleet)
           \/ \E sample \in Samples : Ingest(sample[1], sample[2])
           \/ BuildGold \/ UNCHANGED vars
  BY <1>2, <1>6 DEF StartIngestion, Ingest, BuildGold, vars
<1> QED BY <1>3, <1>4, <1>5, <1>6 DEF Next

LEMMA RequestInvImplies == RequestInv => CandidatesAreComplete
<1> SUFFICES ASSUME RequestInv, NEW c \in Clients, At(c, "ml")
             PROVE  /\ request[c].known \ {request[c].id} \subseteq request[c].found
                    /\ request[c].id \notin request[c].found
  BY DEF CandidatesAreComplete
<1> DEFINE q == request[c]
<1>1. InOrder(q) /\ (q.op = "similar" => Complete(q)) /\ q.todo # <<>> /\ Head(q.todo) = "ml"
  BY DEF RequestInv, At, Idle
<1> HIDE DEF q
<1>2. q.op = "similar"
  BY <1>1 DEF InOrder
<1>3. q.todo = <<"ml">>
  BY <1>1, <1>2 DEF InOrder
<1> QED BY <1>1, <1>2, <1>3 DEF Complete, q

(* Nobody who was registered when a similarity request arrived is left out *)
(* of what the ML service is offered, although registrations and fleets    *)
(* come in between and the list is one page (handleSimilar).               *)
THEOREM NobodyIsLeftOut == Spec => []CandidatesAreComplete
<1>1. Init => RegistryInv /\ RequestInv
  BY RegistryInvInit, RequestInvInit
<1>2. RegistryInv /\ RequestInv /\ [Next]_vars => (RegistryInv /\ RequestInv)'
  BY RegistryInvNext, RequestInvNext
<1> QED BY <1>1, <1>2, RequestInvImplies, PTL DEF Spec

-----------------------------------------------------------------------------
(* Pages and answers.  Rows are only ever added, so a row moves to later   *)
(* pages and the count of a list stays a lower bound; what is left of a    *)
(* walk lies at or behind its offset.  The statements of a handler are     *)
(* followed through its list, whatever place it has reached.               *)
Statuses == {0, 200, 201, 400, 404, 409, 422, 500, 503}

InPlace(q) == \E k \in 1 .. 4 : q.todo = SubSeq(Steps(q.op), k, Len(Steps(q.op)))

AtStep(q, step) == q.todo # <<>> /\ Head(q.todo) = step

StepNames == {"lookup", "count", "page", "decode", "insert", "aggregate", "gold",
              "candidates", "ml", "ping"}

(* What stands where in the lists of statements.                           *)
LEMMA StepTable ==
    ASSUME NEW op \in Ops
    PROVE  LET S == Steps(op) IN
           /\ S \in Seq(StepNames) /\ Len(S) \in 1 .. 3
           /\ S[1] \notin {"page", "insert", "gold", "ml"}
           /\ \A k \in 1 .. Len(S) :
                /\ S[k] = "page" => op \in Paged /\ k = Len(S)
                /\ S[k] = "count" => op \in {"list", "telemetry"} /\ k + 1 = Len(S)
                /\ S[k] \in {"aggregate", "gold"} => op = "statistics"
                /\ S[k] \in {"candidates", "ml"} => op = "similar"
                /\ S[k] \in {"decode", "insert"} => op = "create"
                /\ k = Len(S) /\ op \in Paged => S[k] = "page"
           /\ \A k \in 1 .. Len(S) : k + 1 \in 1 .. Len(S) =>
                /\ S[k + 1] = "page" /\ op \in {"list", "telemetry"} => S[k] = "count"
                /\ S[k + 1] = "insert" => S[k] = "decode"
                /\ S[k + 1] = "gold" => S[k] = "aggregate"
                /\ S[k + 1] = "ml" => S[k] = "candidates"
<1> DEFINE S == Steps(op)
<1> SUFFICES /\ S \in Seq(StepNames) /\ Len(S) \in 1 .. 3
             /\ S[1] \notin {"page", "insert", "gold", "ml"}
             /\ \A k \in 1 .. Len(S) :
                  /\ S[k] = "page" => op \in Paged /\ k = Len(S)
                  /\ S[k] = "count" => op \in {"list", "telemetry"} /\ k + 1 = Len(S)
                  /\ S[k] \in {"aggregate", "gold"} => op = "statistics"
                  /\ S[k] \in {"candidates", "ml"} => op = "similar"
                  /\ S[k] \in {"decode", "insert"} => op = "create"
                  /\ k = Len(S) /\ op \in Paged => S[k] = "page"
             /\ \A k \in 1 .. Len(S) : k + 1 \in 1 .. Len(S) =>
                  /\ S[k + 1] = "page" /\ op \in {"list", "telemetry"} => S[k] = "count"
                  /\ S[k + 1] = "insert" => S[k] = "decode"
                  /\ S[k + 1] = "gold" => S[k] = "aggregate"
                  /\ S[k + 1] = "ml" => S[k] = "candidates"
  OBVIOUS
<1> HIDE DEF S
<1>1. CASE op = "list"
  <2>1. S = <<"count", "page">>
    BY <1>1 DEF S, Steps
  <2>2. <<"count", "page">> \in Seq(StepNames) /\ Len(<<"count", "page">>) = 2
    BY DEF StepNames
  <2>3. S[1] = "count" /\ S[2] = "page"
    BY <2>1
  <2> QED BY <1>1, <2>1, <2>2, <2>3 DEF Paged
<1>2. CASE op = "telemetry"
  <2>1. S = <<"lookup", "count", "page">>
    BY <1>2 DEF S, Steps
  <2>2. <<"lookup", "count", "page">> \in Seq(StepNames) /\ Len(<<"lookup", "count", "page">>) = 3
    BY DEF StepNames
  <2>3. S[1] = "lookup" /\ S[2] = "count" /\ S[3] = "page"
    BY <2>1
  <2> QED BY <1>2, <2>1, <2>2, <2>3 DEF Paged
<1>3. CASE op = "events"
  <2>1. S = <<"lookup", "page">>
    BY <1>3 DEF S, Steps
  <2>2. <<"lookup", "page">> \in Seq(StepNames) /\ Len(<<"lookup", "page">>) = 2
    BY DEF StepNames
  <2>3. S[1] = "lookup" /\ S[2] = "page"
    BY <2>1
  <2> QED BY <1>3, <2>1, <2>2, <2>3 DEF Paged
<1>4. CASE op = "get"
  <2>1. S = <<"lookup">>
    BY <1>4 DEF S, Steps
  <2>2. <<"lookup">> \in Seq(StepNames) /\ Len(<<"lookup">>) = 1
    BY DEF StepNames
  <2>3. S[1] = "lookup"
    BY <2>1
  <2> QED BY <1>4, <2>1, <2>2, <2>3 DEF Paged
<1>5. CASE op = "create"
  <2>1. S = <<"decode", "insert">>
    BY <1>5 DEF S, Steps
  <2>2. <<"decode", "insert">> \in Seq(StepNames) /\ Len(<<"decode", "insert">>) = 2
    BY DEF StepNames
  <2>3. S[1] = "decode" /\ S[2] = "insert"
    BY <2>1
  <2> QED BY <1>5, <2>1, <2>2, <2>3 DEF Paged
<1>6. CASE op = "statistics"
  <2>1. S = <<"lookup", "aggregate", "gold">>
    BY <1>6 DEF S, Steps
  <2>2. <<"lookup", "aggregate", "gold">> \in Seq(StepNames) /\ Len(<<"lookup", "aggregate", "gold">>) = 3
    BY DEF StepNames
  <2>3. S[1] = "lookup" /\ S[2] = "aggregate" /\ S[3] = "gold"
    BY <2>1
  <2> QED BY <1>6, <2>1, <2>2, <2>3 DEF Paged
<1>7. CASE op = "similar"
  <2>1. S = <<"lookup", "candidates", "ml">>
    BY <1>7 DEF S, Steps
  <2>2. <<"lookup", "candidates", "ml">> \in Seq(StepNames) /\ Len(<<"lookup", "candidates", "ml">>) = 3
    BY DEF StepNames
  <2>3. S[1] = "lookup" /\ S[2] = "candidates" /\ S[3] = "ml"
    BY <2>1
  <2> QED BY <1>7, <2>1, <2>2, <2>3 DEF Paged
<1>8. CASE op = "health"
  <2>1. S = <<"ping">>
    BY <1>8 DEF S, Steps
  <2>2. <<"ping">> \in Seq(StepNames) /\ Len(<<"ping">>) = 1
    BY DEF StepNames
  <2>3. S[1] = "ping"
    BY <2>1
  <2> QED BY <1>8, <2>1, <2>2, <2>3 DEF Paged
<1> QED BY <1>1, <1>2, <1>3, <1>4, <1>5, <1>6, <1>7, <1>8 DEF Ops, Paged

(* The list from the k-th statement on.                                    *)
LEMMA RestOfSteps ==
    ASSUME NEW S \in Seq(StepNames), Len(S) \in 1 .. 3, NEW k \in 1 .. 4
    PROVE  LET rest == SubSeq(S, k, Len(S)) IN
           /\ rest \in Seq(StepNames)
           /\ k > Len(S) <=> rest = <<>>
           /\ k \in 1 .. Len(S) =>
                /\ Head(rest) = S[k] /\ Tail(rest) = SubSeq(S, k + 1, Len(S))
                /\ Len(rest) = 1 <=> k = Len(S)
<1> DEFINE rest == SubSeq(S, k, Len(S))
<1>1. /\ rest \in Seq(StepNames)
      /\ Len(rest) = IF k <= Len(S) THEN Len(S) - k + 1 ELSE 0
      /\ \A i \in 1 .. Len(rest) : rest[i] = S[k + i - 1]
  <2>1. \A i \in k .. Len(S) : S[i] \in StepNames
    BY ElementOfSeq
  <2>2. Len(S) \in Int /\ k \in Int
    OBVIOUS
  <2> QED BY <2>1, <2>2, SubSeqProperties
<1>2. k > Len(S) <=> rest = <<>>
  <2> HIDE DEF rest
  <2>1. rest = <<>> <=> Len(rest) = 0
    BY <1>1
  <2> QED BY <1>1, <2>1
<1>3. ASSUME k \in 1 .. Len(S)
      PROVE  /\ Head(rest) = S[k] /\ Tail(rest) = SubSeq(S, k + 1, Len(S))
             /\ Len(rest) = 1 <=> k = Len(S)
  <2>1. Head(rest) = S[k] /\ Tail(rest) = SubSeq(S, k + 1, Len(S))
    BY <1>3, HeadTailOfSubSeq
  <2> HIDE DEF rest
  <2> QED BY <1>1, <1>3, <2>1
<1> QED BY <1>1, <1>2, <1>3

(* A handler that has a statement left goes on to the next of its list.    *)
LEMMA NextInPlace ==
    ASSUME NEW q, q.op \in Ops, InPlace(q), q.todo # <<>>
    PROVE  LET x    == Head(q.todo)
               rest == Tail(q.todo)
           IN
           /\ q.todo \in Seq(StepNames)
           /\ \E k \in 1 .. 4 : rest = SubSeq(Steps(q.op), k, Len(Steps(q.op)))
           /\ Len(q.todo) = 1 <=> rest = <<>>
           /\ x = "page" => q.op \in Paged /\ rest = <<>>
           /\ x = "count" => q.op \in {"list", "telemetry"} /\ rest # <<>>
           /\ x \in {"aggregate", "gold"} => q.op = "statistics"
           /\ x \in {"candidates", "ml"} => q.op = "similar"
           /\ x \in {"decode", "insert"} => q.op = "create"
           /\ rest = <<>> /\ q.op \in Paged => x = "page"
           /\ rest # <<>> =>
                /\ Head(rest) = "page" /\ q.op \in {"list", "telemetry"} => x = "count"
                /\ Head(rest) = "insert" => x = "decode"
                /\ Head(rest) = "gold" => x = "aggregate"
                /\ Head(rest) = "ml" => x = "candidates"
<1> DEFINE S == Steps(q.op)
<1>1. PICK k \in 1 .. 4 : q.todo = SubSeq(S, k, Len(S))
  BY DEF InPlace
<1>2. S \in Seq(StepNames) /\ Len(S) \in 1 .. 3
  BY StepTable
<1>12. Len(S) \in 1 .. 3
  BY <1>2
<1> HIDE DEF S
<1>3. k \in 1 .. Len(S)
  BY <1>1, <1>2, RestOfSteps
<1>4. /\ q.todo \in Seq(StepNames) /\ Head(q.todo) = S[k]
      /\ Tail(q.todo) = SubSeq(S, k + 1, Len(S))
      /\ Len(q.todo) = 1 <=> k = Len(S)
  BY <1>1, <1>2, <1>3, RestOfSteps
<1>5. k + 1 \in 1 .. 4
  <2> DEFINE n == Len(S)
  <2>1. n \in 1 .. 3 /\ k \in 1 .. n
    BY <1>3, <1>12
  <2> HIDE DEF n
  <2> QED BY <2>1
<1>6. /\ Tail(q.todo) = <<>> <=> k = Len(S)
      /\ Tail(q.todo) # <<>> => k + 1 \in 1 .. Len(S) /\ Head(Tail(q.todo)) = S[k + 1]
  <2>1. Tail(q.todo) = <<>> <=> k + 1 > Len(S)
    BY <1>2, <1>4, <1>5, RestOfSteps
  <2>2. k + 1 \in 1 .. Len(S) => Head(Tail(q.todo)) = S[k + 1]
    BY <1>2, <1>4, <1>5, RestOfSteps
  <2> QED BY <1>2, <1>3, <2>1, <2>2
<1>7. /\ S[k] = "page" => q.op \in Paged /\ k = Len(S)
      /\ S[k] = "count" => q.op \in {"list", "telemetry"} /\ k + 1 = Len(S)
      /\ S[k] \in {"aggregate", "gold"} => q.op = "statistics"
      /\ S[k] \in {"candidates", "ml"} => q.op = "similar"
      /\ S[k] \in {"decode", "insert"} => q.op = "create"
      /\ k = Len(S) /\ q.op \in Paged => S[k] = "page"
  BY <1>3, StepTable DEF S
<1>8. k + 1 \in 1 .. Len(S) =>
        /\ S[k + 1] = "page" /\ q.op \in {"list", "telemetry"} => S[k] = "count"
        /\ S[k + 1] = "insert" => S[k] = "decode"
        /\ S[k + 1] = "gold" => S[k] = "aggregate"
        /\ S[k + 1] = "ml" => S[k] = "candidates"
  BY <1>3, StepTable DEF S
<1>9. \E j \in 1 .. 4 : Tail(q.todo) = SubSeq(S, j, Len(S))
  <2> USE <1>5
  <2> WITNESS k + 1 \in 1 .. 4
  <2> QED BY <1>4
<1>10. Len(q.todo) = 1 <=> Tail(q.todo) = <<>>
  BY <1>4, <1>6
<1>11. Head(q.todo) = "count" => Tail(q.todo) # <<>>
  BY <1>4, <1>6, <1>7, <1>12
<1> QED BY <1>4, <1>6, <1>7, <1>8, <1>9, <1>10, <1>11 DEF S

(* The whole list, and nothing of it.                                      *)
LEMMA EndsInPlace ==
    ASSUME NEW op \in Ops
    PROVE  LET S == Steps(op) IN
           /\ S # <<>> /\ Head(S) \notin {"page", "insert", "gold", "ml"}
           /\ \E k \in 1 .. 4 : S = SubSeq(S, k, Len(S))
           /\ \E k \in 1 .. 4 : <<>> = SubSeq(S, k, Len(S))
<1> DEFINE S == Steps(op)
<1>1. S \in Seq(StepNames) /\ Len(S) \in 1 .. 3
  BY StepTable
<1>7. Len(S) \in 1 .. 3
  BY <1>1
<1>6. S[1] \notin {"page", "insert", "gold", "ml"}
  BY StepTable
<1> HIDE DEF S
<1>2. S = SubSeq(S, 1, Len(S))
  BY <1>1, SubSeqFull
<1>3. S # <<>> /\ Head(S) = S[1]
  BY <1>1
<1>4. <<>> = SubSeq(S, 4, Len(S))
  <2>1. 4 > Len(S) /\ 4 \in 1 .. 4
    <3> DEFINE n == Len(S)
    <3>1. n \in 1 .. 3
      BY <1>7
    <3> HIDE DEF n
    <3>2. 4 > n
      BY <3>1
    <3> QED BY <3>2 DEF n
  <2> QED BY <1>1, <2>1, RestOfSteps
<1>5. 1 \in 1 .. 4 /\ 4 \in 1 .. 4
  OBVIOUS
<1> QED BY <1>2, <1>3, <1>4, <1>5, <1>6 DEF S

(* A request has what its operation reads, and no answer before its last   *)
(* statement.                                                              *)
Formed(q, status) ==
    /\ InPlace(q) /\ status \in Statuses
    /\ q.todo # <<>> => status = 0
    /\ q.limit \in 1 .. MaxPageLimit /\ q.offset \in Nat
    /\ q.op \notin {"list", "health"} => q.id \in Ids
    /\ q.op = "create" => q.body \in Bodies
    /\ q.inGold => gold

Position(q, x) == Cardinality({y \in Rows(q) : Before(q, y, x)})

(* What a walk has not seen of the rows it began with is still ahead.      *)
Walking(q, status) ==
    q.op \in Paged =>
        /\ q.base \subseteq Rows(q)
        /\ IsFiniteSet(q.found) /\ Cardinality(q.found) <= q.limit
        /\ q.todo # <<>> => q.found = {}
        /\ \A x \in q.base \ (q.seen \cup q.found) :
              q.offset + Cardinality(q.found) <= Position(q, x)
        /\ status = 200 /\ q.found = {} => q.base \subseteq q.seen

(* The count was true when it was read and is not too high since.          *)
Counted(q, status) ==
    q.op \in {"list", "telemetry"} =>
        /\ q.total \in Nat
        /\ AtStep(q, "page") => q.total <= Cardinality(Rows(q))
        /\ status = 200 /\ Cardinality(q.found) < q.limit =>
              q.offset + Cardinality(q.found) >= q.total

Cause(q) ==
    \/ q.failed
    \/ q.body = "oversized"
    \/ q.op = "statistics" /\ ~q.inGold /\ measurements[q.id] # {}
    \/ q.op = "similar" /\ q.known \subseteq {q.id}

(* What a later statement owes to the one before it.                       *)
Caused(q, status) ==
    /\ AtStep(q, "insert") => q.body \notin {"malformed", "invalid"}
    /\ AtStep(q, "gold") => measurements[q.id] # {}
    /\ AtStep(q, "ml") => q.known \ {q.id} \subseteq q.found
    /\ status \in {500, 503} => Cause(q)

Good(q, status) ==
    /\ q.op \in Ops
    /\ Formed(q, status) /\ Walking(q, status) /\ Counted(q, status) /\ Caused(q, status)

TableInv ==
    /\ measurements \in [Ids -> SUBSET Instants] /\ registry \subseteq Registered
    /\ \A i \in Ids : IsFiniteSet(measurements[i])
    /\ \A i \in Ids : measurements[i] # {} => i \in Registered

AnswerInv ==
    /\ TableInv
    /\ reply = [c \in Clients |-> reply[c]]
    /\ \A c \in Clients : \A q, status :
         q = request[c] /\ status = reply[c] => Good(q, status)

-----------------------------------------------------------------------------
(* The tables only grow.                                                   *)
Grows ==
    /\ Registered \subseteq Registered'
    /\ \A i \in Ids : measurements[i] \subseteq measurements'[i]
    /\ gold => gold'

LEMMA TablesGrow ==
    ASSUME RegistryInv, TableInv, [Next]_vars
    PROVE  TableInv' /\ Grows
<1>1. Registered \subseteq Registered'
  BY RegistryInvNext
<1>2. CASE UNCHANGED <<measurements, registry>>
  <2>1. TableInv'
    BY <1>1, <1>2 DEF TableInv, Registered
  <2>2. gold => gold'
    BY DEF Next, Arrive, ArriveNext, Handle, Lookup, Count, ReadPage, Ping, Aggregate,
           ReadGold, ListCandidates, CallML, Decode, Insert, StepFails, StartIngestion,
           Ingest, BuildGold, vars, tables
  <2> QED BY <1>1, <1>2, <2>1, <2>2 DEF Grows
<1>3. ASSUME NEW fleet \in Fleets, StartIngestion(fleet) PROVE TableInv' /\ Grows
  <2>1. registry' \subseteq Registered'
    BY <1>3 DEF StartIngestion, Registered
  <2> QED BY <1>1, <1>3, <2>1 DEF StartIngestion, TableInv, Registered, Grows
<1>4. ASSUME NEW sample \in Samples, Ingest(sample[1], sample[2]) PROVE TableInv' /\ Grows
  <2> DEFINE i == sample[1]
             t == sample[2]
  <2>1. i \in Ids /\ t \in Instants /\ i \in Registered
    BY <1>4, ApiAssumption DEF Ingest, TableInv, Registered
  <2>2. measurements' = [measurements EXCEPT ![i] = @ \cup {t}]
    BY <1>4 DEF Ingest
  <2> HIDE DEF i, t
  <2>3. IsFiniteSet(measurements[i] \cup {t})
    BY <2>1, FS_AddElement DEF TableInv
  <2>4. \A j \in Ids : measurements'[j] = IF j = i THEN measurements[i] \cup {t}
                                                  ELSE measurements[j]
    BY <2>2 DEF TableInv
  <2>5. measurements' \in [Ids -> SUBSET Instants]
    BY <2>1, <2>2 DEF TableInv
  <2>6. \A j \in Ids : IsFiniteSet(measurements'[j])
    BY <2>3, <2>4 DEF TableInv
  <2>7. \A j \in Ids : measurements[j] \subseteq measurements'[j]
    BY <2>4
  <2>8. UNCHANGED <<transformers, registry, gold>>
    BY <1>4 DEF Ingest
  <2>9. TableInv'
    BY <2>1, <2>4, <2>5, <2>6, <2>8 DEF TableInv, Registered
  <2> QED BY <1>1, <2>7, <2>8, <2>9 DEF Grows
<1>5. \/ UNCHANGED <<measurements, registry>>
      \/ \E fleet \in Fleets : StartIngestion(fleet)
      \/ \E sample \in Samples : Ingest(sample[1], sample[2])
  <2>1. ASSUME NEW c \in Clients, NEW q \in Requests, Arrive(c, q)
        PROVE  UNCHANGED <<measurements, registry>>
    BY <2>1 DEF Arrive, tables
  <2>2. ASSUME NEW c \in Clients, ArriveNext(c) PROVE UNCHANGED <<measurements, registry>>
    BY <2>2 DEF ArriveNext, tables
  <2>3. ASSUME NEW c \in Clients, Handle(c) PROVE UNCHANGED <<measurements, registry>>
    BY <2>3 DEF Handle, Lookup, Count, ReadPage, Ping, Aggregate, ReadGold, ListCandidates,
                CallML, Decode, Insert, tables
  <2>4. ASSUME NEW c \in Clients, StepFails(c) PROVE UNCHANGED <<measurements, registry>>
    BY <2>4 DEF StepFails
  <2>5. CASE BuildGold \/ UNCHANGED vars
    BY <2>5 DEF BuildGold, vars, tables
  <2> QED BY <2>1, <2>2, <2>3, <2>4, <2>5 DEF Next
<1> QED BY <1>2, <1>3, <1>4, <1>5

LEMMA RowsAreFinite ==
    ASSUME TableInv, NEW q, q.op \notin {"list", "health"} => q.id \in Ids
    PROVE  IsFiniteSet(Rows(q)) /\ Rows(q) \subseteq Nat
<1>1. CASE q.op = "list"
  <2>1. Rows(q) = Registered /\ Registered \subseteq Ids
    BY <1>1 DEF Rows, Registered
  <2> QED BY <2>1, ApiAssumption, FS_Subset
<1>2. CASE q.op = "telemetry"
  <2>1. Rows(q) = measurements[q.id] \cap q.window /\ q.id \in Ids
    BY <1>2 DEF Rows
  <2>2. IsFiniteSet(measurements[q.id]) /\ measurements[q.id] \subseteq Nat
    BY <2>1, ApiAssumption DEF TableInv
  <2> QED BY <2>1, <2>2, FS_Subset
<1>3. CASE q.op \notin {"list", "telemetry"}
  BY <1>3, FS_EmptySet DEF Rows
<1> QED BY <1>1, <1>2, <1>3

(* The same of the tables after a step, and rows stay where they are or    *)
(* move back.                                                              *)
LEMMA RowsGrow ==
    ASSUME TableInv, TableInv', Grows, NEW q, q.op \notin {"list", "health"} => q.id \in Ids
    PROVE  /\ Rows(q) \subseteq Rows(q)'
           /\ Cardinality(Rows(q)) <= Cardinality(Rows(q)')
           /\ Cardinality(Rows(q)) \in Nat /\ Cardinality(Rows(q)') \in Nat
           /\ \A x : /\ Position(q, x) <= Position(q, x)'
                     /\ Position(q, x) \in Nat /\ Position(q, x)' \in Nat
<1>1. Rows(q) \subseteq Rows(q)'
  <2>1. CASE q.op = "list"
    BY <2>1 DEF Rows, Grows
  <2>2. CASE q.op = "telemetry"
    BY <2>2 DEF Rows, Grows
  <2>3. CASE q.op \notin {"list", "telemetry"}
    BY <2>3 DEF Rows
  <2> QED BY <2>1, <2>2, <2>3
<1>2. IsFiniteSet(Rows(q)')
  <2>1. CASE q.op = "list"
    <3>1. Rows(q)' = Registered' /\ Registered' \subseteq Ids
      BY <2>1 DEF Rows, Registered
    <3> QED BY <3>1, ApiAssumption, FS_Subset
  <2>2. CASE q.op = "telemetry"
    <3>1. Rows(q)' \subseteq measurements'[q.id] /\ IsFiniteSet(measurements'[q.id])
      BY <2>2 DEF Rows, TableInv
    <3> QED BY <3>1, FS_Subset
  <2>3. CASE q.op \notin {"list", "telemetry"}
    BY <2>3, FS_EmptySet DEF Rows
  <2> QED BY <2>1, <2>2, <2>3
<1> DEFINE R == Rows(q)
           T == Rows(q)'
<1>3. R \subseteq T /\ IsFiniteSet(T)
  BY <1>1, <1>2
<1>4. ASSUME NEW x
      PROVE  /\ Position(q, x) <= Position(q, x)'
             /\ Position(q, x) \in Nat /\ Position(q, x)' \in Nat
  <2> DEFINE A == {y \in R : Before(q, y, x)}
             B == {y \in T : Before(q, y, x)}
  <2>1. Position(q, x) = Cardinality(A) /\ Position(q, x)' = Cardinality(B)
    BY DEF Position, Before
  <2>2. B \subseteq T /\ A \subseteq B
    BY <1>3
  <2> HIDE DEF A, B, R, T
  <2>3. IsFiniteSet(B)
    BY <1>3, <2>2, FS_Subset
  <2>4. IsFiniteSet(A) /\ Cardinality(A) <= Cardinality(B)
    BY <2>2, <2>3, FS_Subset
  <2> QED BY <2>1, <2>3, <2>4, FS_CardinalityType
<1> HIDE DEF R, T
<1>5. IsFiniteSet(R) /\ Cardinality(R) <= Cardinality(T)
  BY <1>3, FS_Subset
<1>6. Cardinality(R) \in Nat /\ Cardinality(T) \in Nat
  BY <1>3, <1>5, FS_CardinalityType
<1> QED BY <1>1, <1>4, <1>5, <1>6 DEF R, T

LEMMA GoodKept ==
    ASSUME TableInv, TableInv', Grows, NEW q, NEW status, Good(q, status)
    PROVE  Good(q, status)'
<1>1. /\ Rows(q) \subseteq Rows(q)'
      /\ Cardinality(Rows(q)) <= Cardinality(Rows(q)')
      /\ Cardinality(Rows(q)) \in Nat /\ Cardinality(Rows(q)') \in Nat
      /\ \A x : /\ Position(q, x) <= Position(q, x)'
                /\ Position(q, x) \in Nat /\ Position(q, x)' \in Nat
  BY RowsGrow DEF Good, Formed
<1>2. Formed(q, status)'
  BY DEF Good, Formed, InPlace, Grows
<1>3. Walking(q, status)'
  <2> SUFFICES ASSUME q.op \in Paged
               PROVE  /\ q.base \subseteq Rows(q)'
                      /\ \A x \in q.base \ (q.seen \cup q.found) :
                            q.offset + Cardinality(q.found) <= Position(q, x)'
    BY DEF Good, Walking
  <2>1. q.base \subseteq Rows(q)'
    BY <1>1 DEF Good, Walking
  <2>2. Cardinality(q.found) \in Nat /\ q.offset \in Nat
    BY FS_CardinalityType DEF Good, Walking, Formed
  <2>3. ASSUME NEW x \in q.base \ (q.seen \cup q.found)
        PROVE  q.offset + Cardinality(q.found) <= Position(q, x)'
    <3>1. q.offset + Cardinality(q.found) <= Position(q, x)
      BY <2>3 DEF Good, Walking
    <3> QED BY <1>1, <2>2, <3>1
  <2> QED BY <2>1, <2>3
<1>4. Counted(q, status)'
  <2>1. q.op \in {"list", "telemetry"} /\ AtStep(q, "page") => q.total <= Cardinality(Rows(q)')
    BY <1>1 DEF Good, Counted
  <2> QED BY <2>1 DEF Good, Counted, AtStep
<1>5. Caused(q, status)'
  <2>1. AtStep(q, "gold") => q.id \in Ids /\ measurements[q.id] # {}
    BY NextInPlace DEF Good, Formed, Caused, AtStep
  <2>2. AtStep(q, "gold") => measurements'[q.id] # {}
    BY <2>1 DEF Grows
  <2>3. Cause(q) => Cause(q)'
    BY DEF Cause, Grows, Good, Formed
  <2> QED BY <2>2, <2>3 DEF Good, Caused, AtStep
<1> QED BY <1>2, <1>3, <1>4, <1>5 DEF Good

(* One request changes, to one that is good as the tables stood.           *)
LEMMA OneAnswer ==
    ASSUME RequestInv, AnswerInv, TableInv', Grows, NEW c \in Clients, NEW r, NEW status,
           request' = [request EXCEPT ![c] = r], reply' = [reply EXCEPT ![c] = status],
           Good(r, status)
    PROVE  AnswerInv'
<1>1. \A q, s : Good(q, s) => Good(q, s)'
  BY GoodKept DEF AnswerInv
<1>2. \A d \in Clients :
        /\ request'[d] = IF d = c THEN r ELSE request[d]
        /\ reply'[d] = IF d = c THEN status ELSE reply[d]
  BY DEF RequestInv, AnswerInv
<1>3. reply' = [d \in Clients |-> reply'[d]]
  BY DEF AnswerInv
<1>4. ASSUME NEW d \in Clients, NEW q, NEW s, q = request'[d], s = reply'[d]
      PROVE  Good(q, s)'
  <2>1. CASE d = c
    BY <1>1, <1>2, <1>4, <2>1
  <2>2. CASE d # c
    <3>1. Good(q, s)
      BY <1>2, <1>4, <2>2 DEF AnswerInv
    <3> QED BY <1>1, <3>1
  <2> QED BY <2>1, <2>2
<1> QED BY <1>3, <1>4 DEF AnswerInv

-----------------------------------------------------------------------------
(* Pages.  The positions of the rows are 0, 1, 2, ... without a gap: a row *)
(* comes after all that come before it, and there are no more positions    *)
(* than rows.                                                              *)
LEMMA BeforeIsOrder ==
    ASSUME NEW q, NEW x \in Nat, NEW y \in Nat, NEW z \in Nat
    PROVE  /\ ~Before(q, x, x)
           /\ x # y => Before(q, x, y) \/ Before(q, y, x)
           /\ Before(q, x, y) /\ Before(q, y, z) => Before(q, x, z)
BY DEF Before

LEMMA PositionsHaveNoGap ==
    ASSUME NEW q, IsFiniteSet(Rows(q)), Rows(q) \subseteq Nat
    PROVE  LET R == Rows(q)
               n == Cardinality(R)
           IN  [x \in R |-> Position(q, x)] \in Bijection(R, 0 .. n - 1)
<1> DEFINE R == Rows(q)
           n == Cardinality(R)
           p == [x \in R |-> Position(q, x)]
           Below(x) == {y \in R : Before(q, y, x)}
<1>1. n \in Nat
  BY FS_CardinalityType
<1>2. \A x : Position(q, x) = Cardinality(Below(x)) /\ Below(x) \subseteq R
  BY DEF Position
<1>3. \A x \in R : x \notin Below(x)
  BY BeforeIsOrder
<1>4. \A x, y \in R : Before(q, x, y) => Below(x) \cup {x} \subseteq Below(y)
  BY BeforeIsOrder
<1>5. IsFiniteSet(R) /\ R \subseteq Nat
  OBVIOUS
<1>6. \A x, y \in R : x # y => Before(q, x, y) \/ Before(q, y, x)
  BY BeforeIsOrder
<1> HIDE DEF Below, R
<1>7. \A x : IsFiniteSet(Below(x)) /\ Cardinality(Below(x)) \in Nat
  BY <1>2, <1>5, FS_Subset, FS_CardinalityType
<1>8. ASSUME NEW x \in R PROVE Position(q, x) \in 0 .. n - 1
  <2>1. Below(x) \subseteq R \ {x}
    BY <1>2, <1>3
  <2>2. IsFiniteSet(R \ {x}) /\ Cardinality(R \ {x}) = n - 1
    BY <1>5, FS_RemoveElement
  <2>3. Cardinality(Below(x)) <= n - 1
    BY <2>1, <2>2, FS_Subset
  <2> QED BY <1>1, <1>2, <1>7, <2>3
<1>9. ASSUME NEW x \in R, NEW y \in R, Before(q, x, y)
      PROVE  Position(q, x) < Position(q, y)
  <2>1. Cardinality(Below(x) \cup {x}) = Cardinality(Below(x)) + 1
    BY <1>3, <1>7, FS_AddElement
  <2>2. Cardinality(Below(x) \cup {x}) <= Cardinality(Below(y))
    BY <1>4, <1>7, <1>9, FS_Subset
  <2> QED BY <1>2, <1>7, <2>1, <2>2
<1>10. p \in Injection(R, 0 .. n - 1)
  <2>1. p \in [R -> 0 .. n - 1]
    BY <1>8
  <2>2. ASSUME NEW x \in R, NEW y \in R, x # y PROVE p[x] # p[y]
    <3>1. Position(q, x) \in Int /\ Position(q, y) \in Int
      BY <1>8
    <3>2. Position(q, x) < Position(q, y) \/ Position(q, y) < Position(q, x)
      BY <1>6, <1>9, <2>2
    <3> QED BY <3>1, <3>2
  <2>3. p \in [R -> 0 .. n - 1] /\ \A x, y \in R : p[x] = p[y] => x = y
    BY <2>1, <2>2
  <2> HIDE DEF p, n
  <2> QED BY <2>3 DEF Injection, IsInjective
<1>11. IsFiniteSet(0 .. n - 1) /\ Cardinality(0 .. n - 1) = n
  BY <1>1, FS_Interval
<1> HIDE DEF p
<1>12. p \in Surjection(R, 0 .. n - 1)
  BY <1>10, <1>11, FS_Injection
<1> QED BY <1>10, <1>12 DEF Bijection, p, R

(* A page is not larger than its limit, one that is not full reaches the   *)
(* last row, and an empty one is beyond it.                                *)
LEMMA PageCuts ==
    ASSUME NEW q, IsFiniteSet(Rows(q)), Rows(q) \subseteq Nat,
           q.limit \in 1 .. MaxPageLimit, q.offset \in Nat
    PROVE  LET size == Cardinality(Page(q)) IN
           /\ IsFiniteSet(Page(q)) /\ Page(q) \subseteq Rows(q)
           /\ size \in Nat /\ size <= q.limit
           /\ size < q.limit => Cardinality(Rows(q)) <= q.offset + size
           /\ \A x \in Rows(q) \ Page(q) :
                q.offset <= Position(q, x) => q.offset + size <= Position(q, x)
           /\ Page(q) = {} => \A x \in Rows(q) : ~(q.offset <= Position(q, x))
<1> DEFINE R == Rows(q)
           n == Cardinality(R)
           end == IF q.offset + q.limit < n THEN q.offset + q.limit ELSE n
           slots == q.offset .. end - 1
           p == [x \in R |-> Position(q, x)]
           g == [x \in Page(q) |-> Position(q, x)]
<1>1. Page(q) = {x \in R : q.offset <= Position(q, x) /\ Position(q, x) < q.offset + q.limit}
  BY DEF Page, Position
<1>2. IsFiniteSet(Page(q)) /\ Page(q) \subseteq R
  BY <1>1, FS_Subset
<1>3. n \in Nat /\ q.limit \in Nat /\ q.limit >= 1 /\ q.offset \in Nat
  BY FS_CardinalityType, ApiAssumption
<1>4. p \in Bijection(R, 0 .. n - 1)
  BY PositionsHaveNoGap
<1> HIDE DEF R, n
<1>5. \A x \in R : Position(q, x) \in 0 .. n - 1
  <2>1. p \in [R -> 0 .. n - 1]
    BY <1>4 DEF Bijection, Surjection
  <2> QED BY <2>1
<1>6. \A x \in R : x \in Page(q) <=> Position(q, x) \in slots
  BY <1>1, <1>3, <1>5
<1>7. g \in Surjection(Page(q), slots)
  <2>1. \A k \in slots : k \in 0 .. n - 1
    BY <1>3
  <2>2. \A k \in 0 .. n - 1 : \E x \in R : p[x] = k
    BY <1>4 DEF Bijection, Surjection
  <2>3. \A k \in slots : \E x \in Page(q) : g[x] = k
    BY <1>2, <1>6, <2>1, <2>2
  <2>4. g \in [Page(q) -> slots]
    BY <1>2, <1>6
  <2> HIDE DEF g, slots
  <2> QED BY <2>3, <2>4 DEF Surjection
<1>8. g \in Injection(Page(q), slots)
  <2>1. \A x, y \in R : p[x] = p[y] => x = y
    BY <1>4 DEF Bijection, Injection, IsInjective
  <2>2. \A x, y \in Page(q) : g[x] = g[y] => x = y
    BY <1>2, <2>1
  <2>3. g \in [Page(q) -> slots]
    BY <1>2, <1>6
  <2> HIDE DEF g, slots
  <2> QED BY <2>2, <2>3 DEF Injection, IsInjective
<1>9. IsFiniteSet(slots) /\ Cardinality(slots) = IF q.offset > end - 1 THEN 0 ELSE end - q.offset
  <2>1. q.offset \in Int /\ end - 1 \in Int
    BY <1>3
  <2>2. IsFiniteSet(slots)
        /\ Cardinality(slots) = IF q.offset > end - 1 THEN 0 ELSE (end - 1) - q.offset + 1
    BY <2>1, FS_Interval
  <2> HIDE DEF slots
  <2>3. end \in Int
    BY <1>3
  <2> HIDE DEF end
  <2> QED BY <1>3, <2>1, <2>2, <2>3
<1> DEFINE size == Cardinality(Page(q))
<1>10. size = IF q.offset > end - 1 THEN 0 ELSE end - q.offset
  <2> HIDE DEF g, slots, end
  <2>1. Cardinality(Page(q)) = Cardinality(slots)
    BY <1>7, <1>8, <1>9, FS_Injection
  <2> QED BY <1>9, <2>1
<1>11. size \in Nat /\ size <= q.limit /\ (size < q.limit => n <= q.offset + size)
  <2> HIDE DEF size
  <2> QED BY <1>3, <1>10
<1>12. ASSUME NEW x \in R \ Page(q), q.offset <= Position(q, x)
       PROVE  q.offset + size <= Position(q, x)
  <2>1. ~(Position(q, x) < q.offset + q.limit) /\ Position(q, x) \in Int
    BY <1>1, <1>5, <1>12
  <2> HIDE DEF size
  <2> QED BY <1>3, <1>11, <2>1
<1>13. ASSUME Page(q) = {}, NEW x \in R PROVE ~(q.offset <= Position(q, x))
  <2>1. size = 0
    BY <1>13, FS_EmptySet
  <2>2. n <= q.offset
    BY <1>3, <1>11, <2>1
  <2> QED BY <1>3, <1>5, <2>2
<1> QED BY <1>2, <1>11, <1>12, <1>13 DEF R, n

-----------------------------------------------------------------------------
(* A request whose remaining statements are dropped.  Only a statistics    *)
(* request can answer 200 that way.                                        *)
Drops(q, r) ==
    \/ r = [q EXCEPT !.todo = <<>>, !.found = {}]
    \/ r = [q EXCEPT !.todo = <<>>, !.found = {}, !.failed = TRUE]

LEMMA DroppedIsGood ==
    ASSUME NEW q, NEW s, Good(q, s), Shaped(q), q.todo # <<>>,
           NEW r, Drops(q, r),
           NEW status \in Statuses,
           status = 200 => q.op = "statistics",
           status \in {500, 503} => Cause(r)
    PROVE  Good(r, status)
<1>1. /\ r.todo = <<>> /\ r.found = {} /\ r.op = q.op /\ r.id = q.id /\ r.body = q.body
      /\ r.window = q.window /\ r.limit = q.limit /\ r.offset = q.offset /\ r.total = q.total
      /\ r.seen = q.seen /\ r.base = q.base /\ r.known = q.known /\ r.inGold = q.inGold
      /\ q.failed => r.failed
  <2>1. CASE r = [q EXCEPT !.todo = <<>>, !.found = {}]
    BY <2>1 DEF Shaped
  <2>2. CASE r = [q EXCEPT !.todo = <<>>, !.found = {}, !.failed = TRUE]
    BY <2>2 DEF Shaped
  <2> QED BY <2>1, <2>2 DEF Drops
<1>2. r.op \in Ops /\ InPlace(r)
  <2>1. \E k \in 1 .. 4 : <<>> = SubSeq(Steps(q.op), k, Len(Steps(q.op)))
    BY EndsInPlace DEF Good
  <2> QED BY <1>1, <2>1 DEF InPlace, Good
<1>3. Formed(r, status)
  BY <1>1, <1>2 DEF Good, Formed
<1>4. Walking(r, status)
  <2> SUFFICES ASSUME q.op \in Paged PROVE Walking(r, status)
    BY <1>1 DEF Walking
  <2>1. q.found = {} /\ status # 200
    BY DEF Good, Walking, Paged
  <2>2. Rows(r) = Rows(q) /\ \A x : Position(r, x) = Position(q, x)
    BY <1>1 DEF Position, Rows, Before
  <2>3. IsFiniteSet({}) /\ Cardinality({}) = 0
    BY FS_EmptySet
  <2>4. q.limit \in 1 .. MaxPageLimit /\ MaxPageLimit \in Nat
    BY ApiAssumption DEF Good, Formed
  <2>5. 0 <= q.limit
    BY <2>4
  <2> QED BY <1>1, <2>1, <2>2, <2>3, <2>5 DEF Good, Walking
<1>5. Counted(r, status)
  <2>1. q.op \in {"list", "telemetry"} => status # 200
    OBVIOUS
  <2> QED BY <1>1, <2>1 DEF Good, Counted, AtStep
<1>6. Caused(r, status)
  BY <1>1 DEF Good, Caused, AtStep, Cause
<1> QED BY <1>2, <1>3, <1>4, <1>5, <1>6 DEF Good

(* A statement succeeds and has set the total or the rows found.           *)
Moves(q, r) ==
    /\ r.todo = Tail(q.todo) /\ r.op = q.op /\ r.id = q.id /\ r.body = q.body
    /\ r.window = q.window /\ r.limit = q.limit /\ r.offset = q.offset
    /\ r.seen = q.seen /\ r.base = q.base /\ r.known = q.known
    /\ r.inGold = q.inGold /\ r.failed = q.failed

LEMMA MovedIsFormed ==
    ASSUME NEW q, NEW s, Good(q, s), q.todo # <<>>, NEW r, Moves(q, r),
           NEW status, status = IF Len(q.todo) = 1 THEN 200 ELSE 0
    PROVE  /\ r.op \in Ops /\ Formed(r, status)
           /\ Rows(r) = Rows(q) /\ \A x : Position(r, x) = Position(q, x)
           /\ status = 200 <=> r.todo = <<>>
<1>1. q.op \in Ops /\ InPlace(q)
  BY DEF Good, Formed
<1>2. /\ \E k \in 1 .. 4 : Tail(q.todo) = SubSeq(Steps(q.op), k, Len(Steps(q.op)))
      /\ Len(q.todo) = 1 <=> Tail(q.todo) = <<>>
  BY <1>1, NextInPlace
<1>3. InPlace(r)
  BY <1>2 DEF Moves, InPlace
<1>4. status \in Statuses /\ (r.todo # <<>> => status = 0) /\ (status = 200 <=> r.todo = <<>>)
  BY <1>2 DEF Moves, Statuses
<1>5. Rows(r) = Rows(q)
  BY DEF Moves, Rows
<1>8. \A x : Position(r, x) = Position(q, x)
  BY DEF Moves, Position, Rows, Before
<1>6. Formed(r, status)
  <2>1. Formed(q, s)
    BY DEF Good
  <2> QED BY <1>3, <1>4, <2>1 DEF Moves, Formed
<1>7. r.op \in Ops
  BY <1>1 DEF Moves
<1>9. status = 200 <=> r.todo = <<>>
  BY <1>4
<1> QED BY <1>5, <1>6, <1>7, <1>8, <1>9

(* Lookups, pings, the decoding, the aggregate, gold and the ML service    *)
(* leave what was found as it is.                                          *)
LEMMA PassedIsGood ==
    ASSUME NEW q, NEW s, Good(q, s), q.todo # <<>>,
           Head(q.todo) \notin {"count", "page", "candidates"},
           Head(q.todo) = "decode" => q.body \notin {"malformed", "invalid"},
           Head(q.todo) = "aggregate" => measurements[q.id] # {},
           NEW r, Moves(q, r), r.found = q.found, r.total = q.total,
           NEW status, status = IF Len(q.todo) = 1 THEN 200 ELSE 0
    PROVE  Good(r, status)
<1>1. /\ r.op \in Ops /\ Formed(r, status)
      /\ Rows(r) = Rows(q) /\ \A x : Position(r, x) = Position(q, x)
      /\ status = 200 <=> r.todo = <<>>
  BY MovedIsFormed
<1>2. /\ r.todo = <<>> => r.op \notin Paged
      /\ r.todo # <<>> =>
           /\ ~(Head(r.todo) = "page" /\ r.op \in {"list", "telemetry"})
           /\ Head(r.todo) = "insert" => Head(q.todo) = "decode"
           /\ Head(r.todo) = "gold" => Head(q.todo) = "aggregate"
           /\ Head(r.todo) # "ml"
  <2>1. q.op \in Ops /\ InPlace(q)
    BY DEF Good, Formed
  <2>2. r.todo = Tail(q.todo) /\ r.op = q.op
    BY DEF Moves
  <2> QED BY <2>1, <2>2, NextInPlace
<1>3. Walking(r, status)
  BY <1>1, <1>2 DEF Good, Walking, Moves
<1>4. Counted(r, status)
  BY <1>1, <1>2 DEF Good, Counted, Moves, AtStep, Paged
<1>5. Caused(r, status)
  <2>1. status \notin {500, 503}
    OBVIOUS
  <2> QED BY <1>2, <2>1 DEF Caused, AtStep, Moves
<1> QED BY <1>1, <1>3, <1>4, <1>5 DEF Good

LEMMA CountedIsGood ==
    ASSUME NEW q, NEW s, Good(q, s), q.todo # <<>>, Head(q.todo) = "count",
           IsFiniteSet(Rows(q)),
           NEW r, Moves(q, r), r.found = q.found, r.total = Cardinality(Rows(q)),
           NEW status, status = IF Len(q.todo) = 1 THEN 200 ELSE 0
    PROVE  Good(r, status)
<1>1. /\ r.op \in Ops /\ Formed(r, status)
      /\ Rows(r) = Rows(q) /\ \A x : Position(r, x) = Position(q, x)
      /\ status = 200 <=> r.todo = <<>>
  BY MovedIsFormed
<1>2. /\ r.op \in {"list", "telemetry"} /\ r.todo # <<>>
      /\ Head(r.todo) \notin {"insert", "gold", "ml"}
  <2>1. q.op \in Ops /\ InPlace(q)
    BY DEF Good, Formed
  <2>2. r.todo = Tail(q.todo) /\ r.op = q.op
    BY DEF Moves
  <2> QED BY <2>1, <2>2, NextInPlace
<1>3. status = 0
  BY <1>1, <1>2
<1>4. Walking(r, status)
  <2>1. q.op \in Paged => Walking(q, s) /\ q.found = {}
    BY DEF Good, Walking
  <2> QED BY <1>1, <1>3, <2>1 DEF Walking, Moves, Good
<1>5. Counted(r, status)
  <2>1. Cardinality(Rows(q)) \in Nat
    BY FS_CardinalityType
  <2>2. r.total \in Nat /\ r.total <= Cardinality(Rows(r))
    BY <1>1, <2>1
  <2> QED BY <1>3, <2>2 DEF Counted
<1>6. Caused(r, status)
  BY <1>2, <1>3 DEF Caused, AtStep
<1> QED BY <1>1, <1>4, <1>5, <1>6 DEF Good

(* The page: of what the walk has not seen, it takes what lies within, and *)
(* the rest lies behind its end.                                           *)
LEMMA PagedIsGood ==
    ASSUME NEW q, NEW s, Good(q, s), q.todo # <<>>, Head(q.todo) = "page",
           IsFiniteSet(Rows(q)), Rows(q) \subseteq Nat,
           NEW r, Moves(q, r), r.found = Page(q), r.total = q.total,
           NEW status, status = IF Len(q.todo) = 1 THEN 200 ELSE 0
    PROVE  Good(r, status)
<1>1. /\ r.op \in Ops /\ Formed(r, status)
      /\ Rows(r) = Rows(q) /\ \A x : Position(r, x) = Position(q, x)
      /\ status = 200 <=> r.todo = <<>>
  BY MovedIsFormed
<1>2. q.op \in Paged /\ r.todo = <<>> /\ status = 200
  <2>1. q.op \in Ops /\ InPlace(q)
    BY DEF Good, Formed
  <2>2. r.todo = Tail(q.todo)
    BY DEF Moves
  <2> QED BY <1>1, <2>1, <2>2, NextInPlace
<1>3. q.limit \in 1 .. MaxPageLimit /\ q.offset \in Nat
  BY DEF Good, Formed
<1> DEFINE size == Cardinality(Page(q))
<1>4. /\ IsFiniteSet(Page(q)) /\ Page(q) \subseteq Rows(q)
      /\ size \in Nat /\ size <= q.limit
      /\ size < q.limit => Cardinality(Rows(q)) <= q.offset + size
      /\ \A x \in Rows(q) \ Page(q) :
           q.offset <= Position(q, x) => q.offset + size <= Position(q, x)
      /\ Page(q) = {} => \A x \in Rows(q) : ~(q.offset <= Position(q, x))
  BY <1>3, PageCuts
<1>5. q.base \subseteq Rows(q) /\ \A x \in q.base \ q.seen : q.offset <= Position(q, x)
  <2>1. /\ q.base \subseteq Rows(q) /\ q.found = {}
        /\ \A x \in q.base \ (q.seen \cup q.found) :
              q.offset + Cardinality(q.found) <= Position(q, x)
    BY <1>2 DEF Good, Walking
  <2>2. q.offset + Cardinality(q.found) = q.offset
    BY <1>3, <2>1, FS_EmptySet
  <2> QED BY <2>1, <2>2
<1>6. /\ \A x \in q.base \ (q.seen \cup Page(q)) : q.offset + size <= Position(q, x)
      /\ Page(q) = {} => q.base \subseteq q.seen
  BY <1>4, <1>5
<1>7. /\ r.base = q.base /\ r.seen = q.seen /\ r.offset = q.offset /\ r.limit = q.limit
      /\ r.op = q.op
  BY DEF Moves
<1>8. Walking(r, status)
  BY <1>1, <1>2, <1>4, <1>5, <1>6, <1>7 DEF Walking
<1>9. Counted(r, status)
  <2> SUFFICES ASSUME q.op \in {"list", "telemetry"} PROVE Counted(r, status)
    BY <1>7 DEF Counted
  <2>1. q.total \in Nat /\ q.total <= Cardinality(Rows(q)) /\ Cardinality(Rows(q)) \in Nat
    BY FS_CardinalityType DEF Good, Counted, AtStep
  <2>2. size < q.limit => q.offset + size >= q.total
    BY <1>3, <1>4, <2>1
  <2> QED BY <1>2, <1>7, <2>1, <2>2 DEF Counted, AtStep
<1>10. Caused(r, status)
  BY <1>2 DEF Caused, AtStep
<1> QED BY <1>1, <1>8, <1>9, <1>10 DEF Good

LEMMA CandidatesAreGood ==
    ASSUME NEW q, NEW s, Good(q, s), q.todo # <<>>, Head(q.todo) = "candidates",
           q.known \subseteq Registered,
           NEW r, Moves(q, r), r.found = Candidates(q),
           NEW status, status = IF Len(q.todo) = 1 THEN 200 ELSE 0
    PROVE  Good(r, status)
<1>1. /\ r.op \in Ops /\ Formed(r, status)
      /\ status = 200 <=> r.todo = <<>>
  BY MovedIsFormed
<1>2. /\ r.op = "similar"
      /\ r.todo # <<>> => Head(r.todo) \notin {"insert", "gold"}
  <2>1. q.op \in Ops /\ InPlace(q)
    BY DEF Good, Formed
  <2>2. r.todo = Tail(q.todo) /\ r.op = q.op
    BY DEF Moves
  <2> QED BY <2>1, <2>2, NextInPlace
<1>3. r.known \ {r.id} \subseteq r.found
  <2>1. Candidates(q) = Registered \ {q.id}
    BY NobodyCutOff
  <2> QED BY <2>1 DEF Moves
<1>4. Caused(r, status)
  BY <1>2, <1>3 DEF Caused, AtStep
<1> QED BY <1>1, <1>2, <1>4 DEF Good, Walking, Counted, Paged

-----------------------------------------------------------------------------
(* The steps of a handler.                                                 *)
LEMMA HandlerIsGood ==
    ASSUME RequestInv, AnswerInv, TableInv', Grows, NEW c \in Clients, Handle(c)
    PROVE  AnswerInv'
<1>1. PICK q, s : q = request[c] /\ s = reply[c]
  OBVIOUS
<1>2. Shaped(q) /\ q.known \subseteq Registered
  BY <1>1 DEF RequestInv
<1>3. Good(q, s) /\ q.op \in Ops /\ InPlace(q)
  BY <1>1 DEF AnswerInv, Good, Formed
<1>4. IsFiniteSet(Rows(q)) /\ Rows(q) \subseteq Nat
  BY <1>3, RowsAreFinite DEF AnswerInv, Good, Formed
<1>5. ASSUME NEW step, At(c, step) PROVE ~Idle(c) /\ q.todo # <<>> /\ Head(q.todo) = step
  BY <1>1, <1>5 DEF At, Idle
<1>6. ASSUME NEW status \in Statuses, ~Idle(c), Answer(c, status),
             status \in {500, 503} => Cause(q), status = 200 => q.op = "statistics"
      PROVE  AnswerInv'
  <2>1. PICK r : /\ r = [q EXCEPT !.todo = <<>>, !.found = {}]
                 /\ request' = [request EXCEPT ![c] = r]
    <3>1. request' = [request EXCEPT ![c] = [q EXCEPT !.todo = <<>>, !.found = {}]]
      BY <1>1, <1>6 DEF Answer, RequestInv
    <3> QED BY <3>1
  <2>2. Drops(q, r) /\ request' = [request EXCEPT ![c] = r]
    BY <2>1 DEF Drops
  <2>3. q.todo # <<>> /\ reply' = [reply EXCEPT ![c] = status]
    BY <1>1, <1>6 DEF Idle, Answer
  <2>4. status \in {500, 503} => Cause(r)
    BY <1>2, <1>6, <2>1 DEF Cause, Shaped
  <2>5. status = 200 => q.op = "statistics"
    BY <1>6
  <2>6. Good(r, status)
    BY <1>2, <1>3, <1>6, <2>2, <2>3, <2>4, <2>5, DroppedIsGood
  <2> QED BY <2>2, <2>3, <2>6, OneAnswer
<1>7. ASSUME q.todo # <<>>, Proceed(c, request[c]),
             Head(q.todo) \notin {"count", "page", "candidates"},
             Head(q.todo) = "decode" => q.body \notin {"malformed", "invalid"},
             Head(q.todo) = "aggregate" => measurements[q.id] # {}
      PROVE  AnswerInv'
  <2>1. PICK r, status : /\ r = [q EXCEPT !.todo = Tail(@)]
                         /\ status = IF Len(q.todo) = 1 THEN 200 ELSE 0
                         /\ request' = [request EXCEPT ![c] = r]
                         /\ reply' = [reply EXCEPT ![c] = status]
    BY <1>1, <1>7 DEF Proceed
  <2>2. Moves(q, r) /\ r.total = q.total /\ r.found = q.found
    BY <1>2, <2>1 DEF Shaped, Moves
  <2>3. Good(r, status)
    BY <1>3, <1>7, <2>1, <2>2, PassedIsGood
  <2> QED BY <2>1, <2>3, OneAnswer
<1>8. CASE Lookup(c)
  <2>1. At(c, "lookup") /\ (Proceed(c, request[c]) \/ Answer(c, 404))
    BY <1>8 DEF Lookup
  <2>2. q.todo # <<>> /\ Head(q.todo) = "lookup" /\ ~Idle(c)
    BY <1>5, <2>1
  <2>3. 404 \in Statuses
    BY DEF Statuses
  <2> QED BY <1>6, <1>7, <2>1, <2>2, <2>3
<1>9. CASE Count(c)
  <2>1. At(c, "count")
    BY <1>9 DEF Count
  <2>2. q.todo # <<>> /\ Head(q.todo) = "count"
    BY <1>5, <2>1
  <2>3. Shaped(q) => [q EXCEPT !.total = Cardinality(Rows(q))].todo = q.todo
    BY DEF Shaped
  <2>4. PICK r, status : /\ r = [[q EXCEPT !.total = Cardinality(Rows(q))] EXCEPT !.todo = Tail(@)]
                         /\ status = IF Len(q.todo) = 1 THEN 200 ELSE 0
                         /\ request' = [request EXCEPT ![c] = r]
                         /\ reply' = [reply EXCEPT ![c] = status]
    <3>1. Proceed(c, [q EXCEPT !.total = Cardinality(Rows(q))])
      BY <1>1, <1>9 DEF Count
    <3> QED BY <1>2, <2>3, <3>1 DEF Proceed
  <2>5. Moves(q, r) /\ r.total = Cardinality(Rows(q)) /\ r.found = q.found
    BY <1>2, <2>4 DEF Shaped, Moves
  <2>6. /\ status = IF Len(q.todo) = 1 THEN 200 ELSE 0
        /\ request' = [request EXCEPT ![c] = r] /\ reply' = [reply EXCEPT ![c] = status]
    BY <2>4
  <2>7. Good(r, status)
    BY <1>3, <1>4, <2>2, <2>5, <2>6, CountedIsGood
  <2> QED BY <2>6, <2>7, OneAnswer
<1>10. ASSUME NEW found, q.todo # <<>>, Proceed(c, [request[c] EXCEPT !.found = found]),
              \/ Head(q.todo) = "page" /\ found = Page(q)
              \/ Head(q.todo) = "candidates" /\ found = Candidates(q)
       PROVE  AnswerInv'
  <2>1. Shaped(q) => [q EXCEPT !.found = found].todo = q.todo
    BY DEF Shaped
  <2>2. PICK r, status : /\ r = [[q EXCEPT !.found = found] EXCEPT !.todo = Tail(@)]
                         /\ status = IF Len(q.todo) = 1 THEN 200 ELSE 0
                         /\ request' = [request EXCEPT ![c] = r]
                         /\ reply' = [reply EXCEPT ![c] = status]
    BY <1>1, <1>2, <1>10, <2>1 DEF Proceed
  <2>3. Moves(q, r) /\ r.total = q.total /\ r.found = found
    BY <1>2, <2>2 DEF Shaped, Moves
  <2>4. /\ status = IF Len(q.todo) = 1 THEN 200 ELSE 0
        /\ request' = [request EXCEPT ![c] = r] /\ reply' = [reply EXCEPT ![c] = status]
    BY <2>2
  <2>5. Good(r, status)
    <3>1. CASE Head(q.todo) = "page" /\ found = Page(q)
      BY <1>3, <1>4, <1>10, <2>3, <2>4, <3>1, PagedIsGood
    <3>2. CASE Head(q.todo) = "candidates" /\ found = Candidates(q)
      BY <1>2, <1>3, <1>10, <2>3, <2>4, <3>2, CandidatesAreGood
    <3> QED BY <1>10, <3>1, <3>2
  <2> QED BY <2>4, <2>5, OneAnswer
<1>11. CASE ReadPage(c)
  <2>1. At(c, "page") /\ Proceed(c, [request[c] EXCEPT !.found = Page(q)])
    BY <1>1, <1>11 DEF ReadPage
  <2>2. q.todo # <<>> /\ Head(q.todo) = "page"
    BY <1>5, <2>1
  <2> QED BY <1>10, <2>1, <2>2
<1>12. CASE ListCandidates(c)
  <2>1. At(c, "candidates") /\ Proceed(c, [request[c] EXCEPT !.found = Candidates(q)])
    BY <1>1, <1>12 DEF ListCandidates
  <2>2. q.todo # <<>> /\ Head(q.todo) = "candidates"
    BY <1>5, <2>1
  <2> QED BY <1>10, <2>1, <2>2
<1>13. CASE Ping(c)
  <2>1. At(c, "ping") /\ Proceed(c, request[c])
    BY <1>13 DEF Ping
  <2>2. q.todo # <<>> /\ Head(q.todo) = "ping"
    BY <1>5, <2>1
  <2> QED BY <1>7, <2>1, <2>2
<1>14. CASE Aggregate(c)
  <2>1. /\ At(c, "aggregate")
        /\ IF measurements[q.id] = {} THEN Answer(c, 200) ELSE Proceed(c, request[c])
    BY <1>1, <1>14 DEF Aggregate
  <2>2. q.todo # <<>> /\ Head(q.todo) = "aggregate" /\ ~Idle(c)
    BY <1>5, <2>1
  <2>3. q.op = "statistics"
    BY <1>3, <2>2, NextInPlace
  <2>4. 200 \in Statuses
    BY DEF Statuses
  <2> QED BY <1>6, <1>7, <2>1, <2>2, <2>3, <2>4
<1>15. CASE ReadGold(c)
  <2>1. At(c, "gold") /\ IF gold THEN Proceed(c, request[c]) ELSE Answer(c, 500)
    BY <1>15 DEF ReadGold
  <2>2. q.todo # <<>> /\ Head(q.todo) = "gold" /\ ~Idle(c)
    BY <1>5, <2>1
  <2>3. q.op = "statistics"
    BY <1>3, <2>2, NextInPlace
  <2>4. measurements[q.id] # {} /\ (q.inGold => gold)
    BY <1>3, <2>2 DEF Good, Formed, Caused, AtStep
  <2>5. ~gold => Cause(q)
    BY <2>3, <2>4 DEF Cause
  <2>6. 500 \in Statuses
    BY DEF Statuses
  <2> QED BY <1>6, <1>7, <2>1, <2>2, <2>5, <2>6
<1>16. CASE CallML(c)
  <2>1. At(c, "ml") /\ IF q.found # {} THEN Proceed(c, request[c]) ELSE Answer(c, 503)
    BY <1>1, <1>16 DEF CallML, SimilarityAnswers
  <2>2. q.todo # <<>> /\ Head(q.todo) = "ml" /\ ~Idle(c)
    BY <1>5, <2>1
  <2>3. q.op = "similar"
    BY <1>3, <2>2, NextInPlace
  <2>4. q.known \ {q.id} \subseteq q.found
    BY <1>3, <2>2 DEF Good, Caused, AtStep
  <2>5. q.found = {} => Cause(q)
    BY <2>3, <2>4 DEF Cause
  <2>6. 503 \in Statuses
    BY DEF Statuses
  <2> QED BY <1>6, <1>7, <2>1, <2>2, <2>5, <2>6
<1>17. CASE Decode(c)
  <2>1. At(c, "decode")
    BY <1>17 DEF Decode
  <2>2. \/ Answer(c, 400)
        \/ Answer(c, 422)
        \/ q.body \notin {"malformed", "invalid"} /\ Proceed(c, request[c])
    BY <1>1, <1>17 DEF Decode
  <2>3. q.todo # <<>> /\ Head(q.todo) = "decode" /\ ~Idle(c)
    BY <1>5, <2>1
  <2>4. {400, 422} \subseteq Statuses
    BY DEF Statuses
  <2>5. CASE Answer(c, 400)
    BY <1>6, <2>3, <2>4, <2>5
  <2>6. CASE Answer(c, 422)
    BY <1>6, <2>3, <2>4, <2>6
  <2>7. CASE q.body \notin {"malformed", "invalid"} /\ Proceed(c, request[c])
    BY <1>7, <2>3, <2>7
  <2> QED BY <2>2, <2>5, <2>6, <2>7
<1>18. CASE Insert(c)
  <2>1. At(c, "insert")
    BY <1>18 DEF Insert
  <2>2. \/ ~TableAccepts(q.body) /\ Answer(c, 500)
        \/ Answer(c, 201)
        \/ Answer(c, 409)
    BY <1>1, <1>18 DEF Insert
  <2>3. q.todo # <<>> /\ Head(q.todo) = "insert" /\ ~Idle(c)
    BY <1>5, <2>1
  <2>4. q.op = "create"
    BY <1>3, <2>3, NextInPlace
  <2>5. q.body \in Bodies /\ q.body \notin {"malformed", "invalid"}
    BY <1>3, <2>3, <2>4 DEF Good, Formed, Caused, AtStep
  <2>6. ~TableAccepts(q.body) => Cause(q)
    BY <2>5 DEF Bodies, TableAccepts, Cause
  <2>7. {500, 201, 409} \subseteq Statuses
    BY DEF Statuses
  <2>8. CASE ~TableAccepts(q.body) /\ Answer(c, 500)
    BY <1>6, <2>3, <2>6, <2>7, <2>8
  <2>9. CASE Answer(c, 201)
    BY <1>6, <2>3, <2>7, <2>9
  <2>10. CASE Answer(c, 409)
    BY <1>6, <2>3, <2>7, <2>10
  <2> QED BY <2>2, <2>8, <2>9, <2>10
<1> QED
  BY <1>8, <1>9, <1>11, <1>12, <1>13, <1>14, <1>15, <1>16, <1>17, <1>18 DEF Handle

LEMMA FailureIsGood ==
    ASSUME RequestInv, AnswerInv, TableInv', Grows, NEW c \in Clients, StepFails(c)
    PROVE  AnswerInv'
<1>1. PICK q : q = request[c]
  OBVIOUS
<1>2. Shaped(q) /\ q.todo # <<>>
  BY <1>1 DEF RequestInv, StepFails, Idle
<1>3. PICK r : /\ r = [q EXCEPT !.todo = <<>>, !.found = {}, !.failed = TRUE]
               /\ request' = [request EXCEPT ![c] = r]
  <2>1. request' = [request EXCEPT ![c] = [q EXCEPT !.todo = <<>>, !.found = {}, !.failed = TRUE]]
    BY <1>1 DEF StepFails, RequestInv
  <2> QED BY <2>1
<1>4. Drops(q, r) /\ Cause(r) /\ request' = [request EXCEPT ![c] = r]
  BY <1>2, <1>3 DEF Drops, Shaped, Cause
<1>5. ASSUME NEW status \in {404, 500, 503}, reply' = [reply EXCEPT ![c] = status]
      PROVE  AnswerInv'
  <2>1. status \in Statuses /\ status # 200
    BY <1>5 DEF Statuses
  <2>2. Good(q, reply[c])
    BY <1>1 DEF AnswerInv
  <2>3. Good(r, status)
    BY <1>2, <1>4, <2>1, <2>2, DroppedIsGood
  <2> QED BY <1>4, <1>5, <2>3, OneAnswer
<1>6. \/ reply' = [reply EXCEPT ![c] = 404]
      \/ reply' = [reply EXCEPT ![c] = 500]
      \/ reply' = [reply EXCEPT ![c] = 503]
  <2> DEFINE status == CASE At(c, "lookup") -> LookupFailure(request[c].op)
                         [] At(c, "ml") \/ At(c, "ping") -> 503
                         [] OTHER -> 500
  <2>1. status \in {404, 500, 503} /\ reply' = [reply EXCEPT ![c] = status]
    BY DEF StepFails, LookupFailure
  <2> HIDE DEF status
  <2> QED BY <2>1
<1> QED BY <1>5, <1>6

(* What a client can send.                                                 *)
Sendable(q) ==
    /\ q.op \in Ops /\ q.limit \in 1 .. MaxPageLimit
    /\ q.offset = 0 /\ q.total = 0 /\ q.found = {} /\ q.seen = {}
    /\ q.op \notin {"list", "health"} => q.id \in Ids
    /\ q.op = "create" => q.body \in Bodies

LEMMA PageLimits == 1 \in 1 .. MaxPageLimit /\ \A asked \in Asked : PageLimit(asked) \in 1 .. MaxPageLimit
BY ApiAssumption DEF PageLimit

LEMMA RequestsAreSendable == \A q \in Requests : Sendable(q)
<1>1. ASSUME NEW q, q \in {[NoRequest EXCEPT !.op = "list", !.limit = PageLimit(asked)] : asked \in Asked}
      PROVE  Sendable(q)
  <2>1. PICK asked \in Asked : q = [NoRequest EXCEPT !.op = "list", !.limit = PageLimit(asked)]
    BY <1>1
  <2> QED BY <2>1, PageLimits DEF Sendable, NoRequest, Ops, Paged
<1>2. Sendable([NoRequest EXCEPT !.op = "health"])
  BY PageLimits DEF Sendable, NoRequest, Ops, Paged
<1>3. ASSUME NEW id \in Ids, NEW q \in Addressed(id) PROVE Sendable(q)
  <2>1. CASE q \in {[NoRequest EXCEPT !.op = op, !.id = id] :
                      op \in {"get", "events", "statistics", "similar"}}
    <3>1. PICK op \in {"get", "events", "statistics", "similar"} :
                 q = [NoRequest EXCEPT !.op = op, !.id = id]
      BY <2>1
    <3> QED BY <3>1, PageLimits DEF Sendable, NoRequest, Ops, Paged
  <2>2. CASE q \in {[NoRequest EXCEPT !.op = "create", !.id = id, !.body = body] : body \in Bodies}
    <3>1. PICK body \in Bodies : q = [NoRequest EXCEPT !.op = "create", !.id = id, !.body = body]
      BY <2>2
    <3> QED BY <3>1, PageLimits DEF Sendable, NoRequest, Ops, Paged
  <2>3. CASE q \in UNION {{[NoRequest EXCEPT !.op = "telemetry", !.id = id, !.window = window,
                                             !.limit = PageLimit(asked)] : asked \in Asked} :
                            window \in Windows}
    <3>1. PICK window \in Windows :
                 q \in {[NoRequest EXCEPT !.op = "telemetry", !.id = id, !.window = window,
                                          !.limit = PageLimit(asked)] : asked \in Asked}
      BY <2>3
    <3>2. PICK asked \in Asked :
                 q = [NoRequest EXCEPT !.op = "telemetry", !.id = id, !.window = window,
                                       !.limit = PageLimit(asked)]
      BY <3>1
    <3> QED BY <3>2, PageLimits DEF Sendable, NoRequest, Ops, Paged
  <2> QED BY <1>3, <2>1, <2>2, <2>3 DEF Addressed
<1> QED BY <1>1, <1>2, <1>3 DEF Requests

(* A request that is about to begin, at the start of its walk or further   *)
(* on.                                                                     *)
LEMMA BegunIsGood ==
    ASSUME NEW q, q.op \in Ops, q.todo = Steps(q.op), q.found = {},
           q.limit \in 1 .. MaxPageLimit, q.offset \in Nat,
           q.op \notin {"list", "health"} => q.id \in Ids,
           q.op = "create" => q.body \in Bodies,
           q.inGold => gold,
           q.op \in Paged => /\ q.base \subseteq Rows(q)
                             /\ \A x \in q.base \ q.seen : q.offset <= Position(q, x),
           q.op \in {"list", "telemetry"} => q.total \in Nat
    PROVE  Good(q, 0)
<1>1. /\ q.todo # <<>> /\ Head(q.todo) \notin {"page", "insert", "gold", "ml"}
      /\ InPlace(q)
  BY EndsInPlace DEF InPlace
<1>2. IsFiniteSet({}) /\ Cardinality({}) = 0
  BY FS_EmptySet
<1>3. Formed(q, 0)
  BY <1>1 DEF Formed, Statuses
<1>4. Walking(q, 0)
  <2>1. q.offset + Cardinality(q.found) = q.offset /\ Cardinality(q.found) <= q.limit
    BY <1>2
  <2> QED BY <1>2, <2>1 DEF Walking
<1>5. Counted(q, 0)
  BY <1>1 DEF Counted, AtStep
<1>6. Caused(q, 0)
  BY <1>1 DEF Caused, AtStep
<1> QED BY <1>3, <1>4, <1>5, <1>6 DEF Good

LEMMA ArrivalIsGood ==
    ASSUME RequestInv, AnswerInv, TableInv', Grows, NEW c \in Clients, NEW p \in Requests,
           Arrive(c, p)
    PROVE  AnswerInv'
<1>1. Shaped(p) /\ Sendable(p)
  BY RequestsShaped, RequestsAreSendable
<1> DEFINE known == IF Head(Steps(p.op)) = "lookup" THEN Registered ELSE {}
           inGold == p.op = "statistics" /\ gold
           base == Rows(p)
           q == [p EXCEPT !.todo = Steps(p.op), !.base = base, !.known = known,
                          !.inGold = inGold]
<1>2. request' = [request EXCEPT ![c] = q] /\ reply' = [reply EXCEPT ![c] = 0]
  BY DEF Arrive
<1>3. inGold => gold
  OBVIOUS
<1> HIDE DEF known, inGold
<1>4. /\ q.op = p.op /\ q.todo = Steps(p.op) /\ q.found = p.found /\ q.limit = p.limit
      /\ q.offset = p.offset /\ q.id = p.id /\ q.body = p.body /\ q.inGold = inGold
      /\ q.base = base /\ q.seen = p.seen /\ q.total = p.total /\ q.window = p.window
  BY <1>1 DEF Shaped
<1>5. PICK r : r = q
  OBVIOUS
<1> HIDE DEF q
<1>6. Rows(r) = Rows(p)
  BY <1>4, <1>5 DEF Rows
<1>7. \A x : 0 <= Position(r, x)
  <2>1. p.op \notin {"list", "health"} => p.id \in Ids
    BY <1>1 DEF Sendable
  <2>2. IsFiniteSet(Rows(r))
    BY <1>6, <2>1, RowsAreFinite DEF AnswerInv
  <2> SUFFICES ASSUME NEW x PROVE 0 <= Position(r, x)
    OBVIOUS
  <2>3. {y \in Rows(r) : Before(r, y, x)} \subseteq Rows(r)
    OBVIOUS
  <2> QED BY <2>2, <2>3, FS_Subset, FS_CardinalityType DEF Position
<1>8. Good(r, 0)
  <2>1. /\ r.op \in Ops /\ r.todo = Steps(r.op) /\ r.found = {}
        /\ r.limit \in 1 .. MaxPageLimit /\ r.offset = 0 /\ r.total = 0
        /\ r.op \notin {"list", "health"} => r.id \in Ids
        /\ r.op = "create" => r.body \in Bodies
        /\ r.inGold => gold
    BY <1>1, <1>3, <1>4, <1>5 DEF Sendable
  <2>2. r.base \subseteq Rows(r)
    BY <1>4, <1>5, <1>6
  <2>3. r.offset \in Nat /\ r.total \in Nat /\ \A x : r.offset <= Position(r, x)
    BY <1>7, <2>1
  <2> QED BY <2>1, <2>2, <2>3, BegunIsGood
<1> QED BY <1>2, <1>5, <1>8, OneAnswer

LEMMA NextPageIsGood ==
    ASSUME RequestInv, AnswerInv, TableInv', Grows, NEW c \in Clients, ArriveNext(c)
    PROVE  AnswerInv'
<1>1. PICK p, s : p = request[c] /\ s = reply[c]
  OBVIOUS
<1>2. Shaped(p) /\ Good(p, s) /\ p.op \in Paged
  BY <1>1 DEF RequestInv, AnswerInv, ArriveNext
<1> DEFINE offset == p.offset + Cardinality(p.found)
           seen == p.seen \cup p.found
           known == IF p.op = "list" THEN {} ELSE Registered
           q == [p EXCEPT !.offset = offset, !.seen = seen, !.found = {},
                          !.todo = Steps(p.op), !.known = known]
<1>3. request' = [request EXCEPT ![c] = q] /\ reply' = [reply EXCEPT ![c] = 0]
  <2>1. [p EXCEPT !.offset = @ + Cardinality(p.found), !.seen = @ \cup p.found, !.found = {},
                  !.todo = Steps(p.op), !.known = known] = q
    BY <1>2 DEF Shaped
  <2> QED BY <1>1, <2>1 DEF ArriveNext
<1>4. IsFiniteSet(p.found) /\ offset \in Nat
  BY <1>2, FS_CardinalityType DEF Good, Formed, Walking
<1>5. \A x \in p.base \ seen : offset <= Position(p, x)
  BY <1>2 DEF Good, Walking
<1> HIDE DEF offset, seen, known
<1>6. /\ q.op = p.op /\ q.todo = Steps(p.op) /\ q.found = {} /\ q.limit = p.limit
      /\ q.offset = offset /\ q.id = p.id /\ q.body = p.body /\ q.inGold = p.inGold
      /\ q.base = p.base /\ q.seen = seen /\ q.total = p.total /\ q.window = p.window
  BY <1>2 DEF Shaped
<1>7. PICK r : r = q
  OBVIOUS
<1> HIDE DEF q
<1>8. Rows(r) = Rows(p)
  BY <1>6, <1>7 DEF Rows
<1>9. \A x : Position(r, x) = Position(p, x)
  BY <1>6, <1>7, <1>8 DEF Position, Before
<1>10. Good(r, 0)
  <2>1. /\ r.op \in Ops /\ r.todo = Steps(r.op) /\ r.found = {}
        /\ r.limit \in 1 .. MaxPageLimit /\ r.offset \in Nat
        /\ r.op \notin {"list", "health"} => r.id \in Ids
        /\ r.op = "create" => r.body \in Bodies
        /\ r.inGold => gold
        /\ r.op \in {"list", "telemetry"} => r.total \in Nat
    BY <1>2, <1>4, <1>6, <1>7 DEF Good, Formed, Counted
  <2>2. r.base \subseteq Rows(r)
    BY <1>2, <1>6, <1>7, <1>8 DEF Good, Walking
  <2>3. \A x \in r.base \ r.seen : r.offset <= Position(r, x)
    BY <1>5, <1>6, <1>7, <1>9
  <2> QED BY <2>1, <2>2, <2>3, BegunIsGood
<1> QED BY <1>3, <1>7, <1>10, OneAnswer

LEMMA AnswerInvInit == Init => AnswerInv
<1> SUFFICES ASSUME Init PROVE AnswerInv
  OBVIOUS
<1>1. TableInv
  BY FS_EmptySet DEF Init, TableInv, Registered
<1>2. /\ NoRequest.op = "health" /\ NoRequest.todo = <<>> /\ NoRequest.limit = 1
      /\ NoRequest.offset = 0 /\ ~NoRequest.inGold
  BY DEF NoRequest
<1>3. Good(NoRequest, 0)
  <2>1. \E k \in 1 .. 4 : <<>> = SubSeq(Steps("health"), k, Len(Steps("health")))
    BY EndsInPlace DEF Ops
  <2>2. Formed(NoRequest, 0)
    <3>1. InPlace(NoRequest)
      BY <1>2, <2>1 DEF InPlace
    <3> QED BY <1>2, <3>1, PageLimits DEF Formed, Statuses
  <2> QED BY <1>2, <2>2 DEF Good, Walking, Counted, Caused, AtStep, Paged, Ops
<1> QED BY <1>1, <1>3 DEF Init, AnswerInv

LEMMA AnswerInvNext ==
    ASSUME RegistryInv, RequestInv, AnswerInv, [Next]_vars
    PROVE  AnswerInv'
<1>1. TableInv' /\ Grows
  BY TablesGrow DEF AnswerInv
<1>2. CASE UNCHANGED <<request, reply>>
  <2>1. \A q, s : Good(q, s) => Good(q, s)'
    BY <1>1, GoodKept DEF AnswerInv
  <2> QED BY <1>1, <1>2, <2>1 DEF AnswerInv
<1>3. ASSUME NEW c \in Clients, NEW q \in Requests, Arrive(c, q) PROVE AnswerInv'
  BY <1>1, <1>3, ArrivalIsGood
<1>4. ASSUME NEW c \in Clients, ArriveNext(c) PROVE AnswerInv'
  BY <1>1, <1>4, NextPageIsGood
<1>5. ASSUME NEW c \in Clients, Handle(c) PROVE AnswerInv'
  BY <1>1, <1>5, HandlerIsGood
<1>6. ASSUME NEW c \in Clients, StepFails(c) PROVE AnswerInv'
  BY <1>1, <1>6, FailureIsGood
<1>7. CASE \/ \E fleet \in Fleets : StartIngestion(fleet)
           \/ \E sample \in Samples : Ingest(sample[1], sample[2])
           \/ BuildGold \/ UNCHANGED vars
  BY <1>2, <1>7 DEF StartIngestion, Ingest, BuildGold, vars
<1> QED BY <1>3, <1>4, <1>5, <1>6, <1>7 DEF Next

LEMMA SpecAnswerInv == Spec => [](RegistryInv /\ RequestInv /\ AnswerInv)
<1>1. Init => RegistryInv /\ RequestInv /\ AnswerInv
  BY RegistryInvInit, RequestInvInit, AnswerInvInit
<1>2. RegistryInv /\ RequestInv /\ AnswerInv /\ [Next]_vars
        => (RegistryInv /\ RequestInv /\ AnswerInv)'
  BY RegistryInvNext, RequestInvNext, AnswerInvNext
<1> QED BY <1>1, <1>2, PTL DEF Spec

(* The tables keep their columns' types and every measurement belongs to a *)
(* registered transformer; a handler is somewhere in its list, has         *)
(* answered only at its end, and has found no more than its limit.         *)
THEOREM SpecApiTypeOK == Spec => []ApiTypeOK
<1>1. RegistryInv /\ RequestInv /\ AnswerInv => ApiTypeOK
  <2> SUFFICES ASSUME RegistryInv, AnswerInv PROVE ApiTypeOK
    OBVIOUS
  <2>1. ASSUME NEW c \in Clients
        PROVE  LET q == request[c] IN
               /\ \E k \in 1 .. 4 : q.todo = SubSeq(Steps(q.op), k, Len(Steps(q.op)))
               /\ reply[c] \in {0, 200, 201, 400, 404, 409, 422, 500, 503}
               /\ ~Idle(c) => reply[c] = 0
               /\ q.op \in Paged => Cardinality(q.found) <= q.limit
               /\ q.limit \in 1 .. MaxPageLimit
    <3>1. Good(request[c], reply[c])
      BY DEF AnswerInv
    <3> QED BY <3>1 DEF Good, Formed, Walking, InPlace, Statuses, Idle
  <2> QED BY <2>1 DEF ApiTypeOK, RegistryInv, DesignsTyped, AnswerInv, TableInv
<1> QED BY <1>1, SpecAnswerInv, PTL

(* A walk that has come to its empty page has seen every row there was     *)
(* when it began, whatever was written between its pages (ListTransformers *)
(* and ListMeasurements): a row that is not seen stays at or behind the    *)
(* offset, because rows are only added, and an empty page says that        *)
(* nothing is there.                                                       *)
THEOREM SpecWalkMissesNothing == Spec => []WalkMissesNothing
<1>1. RegistryInv /\ RequestInv /\ AnswerInv => WalkMissesNothing
  <2> SUFFICES ASSUME AnswerInv, NEW c \in Clients PROVE Good(request[c], reply[c])
    BY DEF WalkMissesNothing, Good, Walking
  <2> QED BY DEF AnswerInv
<1> QED BY <1>1, SpecAnswerInv, PTL

(* The total is read before the page, so a page that is not full reaches   *)
(* it (handleListTransformers, handleTelemetry).                           *)
THEOREM SpecShortPageReachesTotal == Spec => []ShortPageReachesTotal
<1>1. RegistryInv /\ RequestInv /\ AnswerInv => ShortPageReachesTotal
  <2> SUFFICES ASSUME AnswerInv, NEW c \in Clients PROVE Good(request[c], reply[c])
    BY DEF ShortPageReachesTotal, Good, Counted
  <2> QED BY DEF AnswerInv
<1> QED BY <1>1, SpecAnswerInv, PTL

(* A 500 or 503 comes from a failed statement, a design the table refuses, *)
(* statistics before dbt has run, or a comparison with nobody: a statement *)
(* is reached only when those before it have found what it needs.          *)
THEOREM SpecServerErrorsHaveACause == Spec => []ServerErrorsHaveACause
<1>1. RegistryInv /\ RequestInv /\ AnswerInv => ServerErrorsHaveACause
  <2> SUFFICES ASSUME AnswerInv, NEW c \in Clients PROVE Good(request[c], reply[c])
    BY DEF ServerErrorsHaveACause, Good, Caused, Cause
  <2> QED BY DEF AnswerInv
<1> QED BY <1>1, SpecAnswerInv, PTL
=============================================================================
