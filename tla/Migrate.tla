------------------------------ MODULE Migrate ------------------------------
(***************************************************************************)
(* The schema of the database and the processes that bring it up to date   *)
(* when they start: the ingestion service, the backfill and dbmigrate each *)
(* call goose.Up (internal/migrate), without a session lock, against one   *)
(* PostgreSQL.  goose is outside the repository and modelled from that     *)
(* call: it reads the version, executes the next migration together with   *)
(* its version row in one transaction, and reads again.                    *)
(*                                                                         *)
(* Migrations are numbers 1 .. Latest; 0 is goose's own version table,     *)
(* which whoever finds it missing creates with the row 0.                  *)
(***************************************************************************)
EXTENDS Integers, Sequences

CONSTANTS Services,   \* processes that migrate, then use the tables
          Inspectors, \* dbmigrate version: creates the version table, no more
          Restarted,  \* the services started again when they exit
          Latest,     \* the number of the last file in migrations/
          MaxFaults   \* bound: kills and failing statements

ASSUME MigrateAssumption ==
    /\ Restarted \subseteq Services
    /\ Services \cap Inspectors = {}
    /\ Latest \in Nat /\ MaxFaults \in Nat

Procs == Services \cup Inspectors

VARIABLES pc,        \* where each process is
          step,      \* the migration each one executes
          tables,    \* the migrations whose tables are committed
          versions,  \* the rows of goose_db_version, in the order of their ids
          faults     \* kills and failing statements so far

vars == <<pc, step, tables, versions, faults>>

(* reading (the version), executing (a transaction is open), executed (its *)
(* statements are through), checking (EnsureUp asks for the version after  *)
(* an error), migrated, ready, exited (with an error).                     *)
Places == {"down", "reading", "executing", "executed", "checking",
           "migrated", "ready", "exited"}

Init ==
    /\ pc = [p \in Procs |-> "down"]
    /\ step = [p \in Procs |-> 0]
    /\ tables = {}
    /\ versions = <<>>
    /\ faults = 0

Goto(p, place) == pc' = [pc EXCEPT ![p] = place]

-----------------------------------------------------------------------------
(* Mutant of Start: nothing is restarted.                                  *)
StartOnce(p) ==
    /\ pc[p] = "down"
    /\ Goto(p, "reading")
    /\ UNCHANGED <<step, tables, versions, faults>>

Start(p) ==
    /\ pc[p] = "down" \/ (p \in Restarted /\ pc[p] = "exited")
    /\ Goto(p, "reading")
    /\ UNCHANGED <<step, tables, versions, faults>>

Pending == IF versions = <<>> THEN 0 ELSE versions[Len(versions)] + 1
Goal(p) == IF p \in Inspectors THEN 0 ELSE Latest

ReadVersion(p) ==
    /\ pc[p] = "reading"
    /\ step' = [step EXCEPT ![p] = Pending]
    /\ Goto(p, IF Pending <= Goal(p) THEN "executing" ELSE "migrated")
    /\ UNCHANGED <<tables, versions, faults>>

(* CREATE TABLE waits for an open transaction that creates the same table. *)
Free(p) == \A q \in Procs : pc[q] = "executed" => step[q] # step[p]

(* Mutant of Execute: the migration runs outside a transaction.            *)
ExecuteUnprotected(p) ==
    /\ pc[p] = "executing"
    /\ Free(p)
    /\ step[p] \notin tables
    /\ Goto(p, "executed")
    /\ tables' = tables \cup {step[p]}
    /\ UNCHANGED <<step, versions, faults>>

Execute(p) ==
    /\ pc[p] = "executing"
    /\ Free(p)
    /\ step[p] \notin tables
    /\ Goto(p, "executed")
    /\ UNCHANGED <<step, tables, versions, faults>>

Commits(p) ==
    /\ tables' = tables \cup {step[p]}
    /\ versions' = Append(versions, step[p])

Commit(p) ==
    /\ pc[p] = "executed"
    /\ Commits(p)
    /\ Goto(p, "reading")
    /\ UNCHANGED <<step, faults>>

(* An error of goose.Up makes EnsureUp ask for the version.                *)
AfterError(p) == Goto(p, IF p \in Services THEN "checking" ELSE "exited")

(* Mutant of TableExists: the error of goose.Up is not returned.           *)
TableExistsIgnored(p) ==
    /\ pc[p] = "executing"
    /\ step[p] \in tables
    /\ Goto(p, "migrated")
    /\ UNCHANGED <<step, tables, versions, faults>>

(* Somebody else created the table: the statement fails, the transaction   *)
(* is rolled back.                                                         *)
TableExists(p) ==
    /\ pc[p] = "executing"
    /\ step[p] \in tables
    /\ AfterError(p)
    /\ UNCHANGED <<step, tables, versions, faults>>

(* The connection breaks: whatever was open is rolled back, unless it was  *)
(* the answer to the COMMIT that got lost.                                 *)
StatementFails(p) ==
    /\ pc[p] \in {"reading", "executing", "executed"}
    /\ faults < MaxFaults
    /\ faults' = faults + 1
    /\ AfterError(p)
    /\ \/ UNCHANGED <<tables, versions>>
       \/ pc[p] = "executed" /\ Commits(p)
    /\ UNCHANGED step

Kill(p) ==
    /\ pc[p] \notin {"down", "exited"}
    /\ faults < MaxFaults
    /\ faults' = faults + 1
    /\ Goto(p, "exited")
    /\ UNCHANGED <<step, tables, versions>>

(* Version creates a missing version table too; then main exits.           *)
CheckVersion(p) ==
    /\ pc[p] = "checking"
    /\ \A q \in Procs : pc[q] = "executed" => step[q] # 0
    /\ IF versions = <<>>
       THEN tables' = tables \cup {0} /\ versions' = <<0>>
       ELSE UNCHANGED <<tables, versions>>
    /\ Goto(p, "exited")
    /\ UNCHANGED <<step, faults>>

(* The service upserts the fleet and opens its sink; a job ends.           *)
UseSchema(p) ==
    /\ pc[p] = "migrated"
    /\ Goto(p, "ready")
    /\ UNCHANGED <<step, tables, versions, faults>>

Progress(p) ==
    \/ ReadVersion(p) \/ Execute(p) \/ Commit(p) \/ TableExists(p)
    \/ CheckVersion(p) \/ UseSchema(p)

Next ==
    \E p \in Procs : Start(p) \/ Progress(p) \/ StatementFails(p) \/ Kill(p)

Spec == Init /\ [][Next]_vars

(* A started process gets on, and compose starts a restarted service again *)
(* (restart: unless-stopped).  Nothing makes a job start or start again.   *)
Fairness ==
    /\ \A p \in Procs : WF_vars(Progress(p))
    /\ \A p \in Restarted : WF_vars(Start(p))

FairSpec == Spec /\ Fairness
-----------------------------------------------------------------------------
MigrateTypeOK ==
    /\ pc \in [Procs -> Places]
    /\ step \in [Procs -> Nat]
    /\ tables \subseteq Nat
    /\ versions \in Seq(Nat)
    /\ faults \in Nat

(* Whoever races, fails or is killed: the version table lists migrations   *)
(* 0, 1, ... once each and in order, and exactly their tables exist.       *)
OnceInOrder ==
    /\ \A i \in DOMAIN versions : versions[i] = i - 1
    /\ tables = 0 .. (Len(versions) - 1)

(* Whatever a process does and wherever it is cut off (the losers of a     *)
(* race, a kill between the statements and the commit, an answer that is   *)
(* lost), it leaves the schema as it found it or advances it by exactly    *)
(* the next migration of the directory, tables and version row together.   *)
SchemaOnlyAdvances ==
    [][/\ Len(versions) <= Latest
       /\ versions' = Append(versions, Len(versions))
       /\ tables' = tables \cup {Len(versions)}]_<<tables, versions>>

(* A service that got past EnsureUp has every table it will write to,      *)
(* although another process may have created them.                         *)
UpIsComplete ==
    \A p \in Services : pc[p] \in {"migrated", "ready"} => 1 .. Latest \subseteq tables

(* Losing a race costs a process its life, but the restarted service is    *)
(* not caught in a loop: once the faults are over it gets to its tables    *)
(* and keeps them.                                                         *)
RestartedGetThrough == \A p \in Restarted : <>[](pc[p] = "ready")
=============================================================================
